-------------------------- MODULE MigrationProofs ---------------------------
(***************************************************************************)
(* Proofs about Migration, for every number of databases, runs, services,  *)
(* migration files and failures.                                           *)
(***************************************************************************)
EXTENDS Migration, FiniteSetTheorems, TLAPS

\* The first v of the migration files.
Files(v) == SubSeq(AllFiles, 1, v)

Row == [table : BOOLEAN, version : 0 .. LastFile, dirty : BOOLEAN,
        applied : {Files(v) : v \in 0 .. LastFile}, owner : User \cup {None}, lock : Run \cup {None}]
RoleRow == [exists : BOOLEAN, marker : Database \cup {None}, login : BOOLEAN,
            password : {Password[x] : x \in Process} \cup {None}, creator : User \cup {None}]
Fact == [roleExists : BOOLEAN, admin : BOOLEAN, hasSchema : BOOLEAN, owns : BOOLEAN,
         marker : Database \cup {None}]

-----------------------------------------------------------------------------
(* The operators of the model.                                             *)

\* The plan goes from the claim over the schema to the password and the report.
LEMMA PlanOrder ==
  /\ Steps[1] = "claim" /\ After("claim") = "open" /\ After("open") = "password" /\ After("password") = "report"
  /\ SchemaApplied("password") /\ ~SchemaApplied("claim")
<1>1. Len(Steps) = 3 /\ Steps[1] = "claim" /\ Steps[2] = "open" /\ Steps[3] = "password"
  BY DEF Steps
<1>2. StepIndex("claim") = 1
  BY <1>1 DEF StepIndex
<1>3. StepIndex("open") = 2
  BY <1>1 DEF StepIndex
<1>4. StepIndex("password") = 3
  BY <1>1 DEF StepIndex
<1> QED
  BY <1>1, <1>2, <1>3, <1>4 DEF After, SchemaApplied

\* Of the checks that refuse one is the first, and its name is a refusal.
LEMMA FirstRefusal ==
  ASSUME NEW r \in Run, NEW f, {i \in DOMAIN PreflightChecks(r, f) : PreflightChecks(r, f)[i][2]} # {}
  PROVE  PreflightChecks(r, f)[Min({i \in DOMAIN PreflightChecks(r, f) : PreflightChecks(r, f)[i][2]})][1]
           \in Refusal
<1> DEFINE checks == PreflightChecks(r, f)
           refusing == {i \in DOMAIN checks : checks[i][2]}
<1>1. DOMAIN checks = 1 .. 7 /\ \A i \in 1 .. 7 : checks[i][1] \in Refusal
  BY DEF PreflightChecks, Refusal
<1>2. refusing \subseteq 1 .. 7 /\ refusing # {}
  BY <1>1
<1> HIDE DEF checks, refusing
<1>3. \E x \in refusing : \A y \in refusing : x <= y
  <2>1. ASSUME NEW n \in 1 .. 7, n \in refusing, \A k \in 1 .. 7 : k < n => k \notin refusing
        PROVE  \A y \in refusing : n <= y
    BY <1>2, <2>1
  <2>2. \E n \in 1 .. 7 : n \in refusing /\ \A k \in 1 .. 7 : k < n => k \notin refusing
    <3> SUFFICES ASSUME \A n \in 1 .. 7 : n \in refusing => \E k \in 1 .. 7 : k < n /\ k \in refusing PROVE FALSE
      OBVIOUS
    <3>1. 1 \notin refusing
      OBVIOUS
    <3>2. 2 \notin refusing
      BY <3>1
    <3>3. 3 \notin refusing
      BY <3>1, <3>2
    <3>4. 4 \notin refusing
      BY <3>1, <3>2, <3>3
    <3>5. 5 \notin refusing
      BY <3>1, <3>2, <3>3, <3>4
    <3>6. 6 \notin refusing
      BY <3>1, <3>2, <3>3, <3>4, <3>5
    <3>7. 7 \notin refusing
      BY <3>1, <3>2, <3>3, <3>4, <3>5, <3>6
    <3> PICK x \in 1 .. 7 : x \in refusing
      BY <1>2
    <3>8. x = 1 \/ x = 2 \/ x = 3 \/ x = 4 \/ x = 5 \/ x = 6 \/ x = 7
      OBVIOUS
    <3> QED
      BY <3>1, <3>2, <3>3, <3>4, <3>5, <3>6, <3>7, <3>8
  <2> QED
    BY <2>1, <2>2
<1>4. Min(refusing) \in refusing
  BY <1>3 DEF Min
<1>5. checks[Min(refusing)][1] \in Refusal
  BY <1>1, <1>2, <1>4
<1> QED
  BY <1>5 DEF checks, refusing

\* The files, one after the other.
LEMMA FilesInOrder ==
  /\ AllFiles \in Seq(Int) /\ Len(AllFiles) = LastFile /\ Files(LastFile) = AllFiles
  /\ \A v \in 0 .. LastFile : Files(v) \in Seq(Int) /\ Len(Files(v)) = v /\ (Files(v) = <<>> <=> v = 0)
  /\ \A v \in 0 .. LastFile : v < LastFile => Append(Files(v), v + 1) = Files(v + 1)
<1>0. LastFile \in Nat
  BY MigrationAssumption
<1>1. AllFiles \in Seq(Int) /\ Len(AllFiles) = LastFile
  BY <1>0 DEF AllFiles
<1>2. ASSUME NEW v \in 0 .. LastFile
      PROVE  /\ Files(v) \in Seq(Int) /\ Len(Files(v)) = v
             /\ \A i \in 1 .. v : Files(v)[i] = i
  BY <1>0, <1>1, <1>2 DEF Files, AllFiles
<1>3. ASSUME NEW v \in 0 .. LastFile, v < LastFile PROVE Append(Files(v), v + 1) = Files(v + 1)
  <2>1. v + 1 \in 0 .. LastFile
    BY <1>0, <1>3
  <2> DEFINE s == Append(Files(v), v + 1)
             t == Files(v + 1)
  <2>2. s \in Seq(Int) /\ Len(s) = v + 1 /\ \A i \in 1 .. v + 1 : s[i] = i
    BY <1>2
  <2>3. t \in Seq(Int) /\ Len(t) = v + 1 /\ \A i \in 1 .. v + 1 : t[i] = i
    BY <1>2, <2>1
  <2> HIDE DEF s, t
  <2>4. s = t
    BY <2>2, <2>3
  <2> QED
    BY <2>4 DEF s, t
<1>4. Files(LastFile) = AllFiles
  <2> DEFINE t == Files(LastFile)
  <2>1. t \in Seq(Int) /\ Len(t) = LastFile /\ \A i \in 1 .. LastFile : t[i] = i
    BY <1>0, <1>2
  <2>2. \A i \in 1 .. LastFile : AllFiles[i] = i
    BY DEF AllFiles
  <2> HIDE DEF t
  <2>3. t = AllFiles
    BY <1>1, <2>1, <2>2
  <2> QED
    BY <2>3 DEF t
<1>5. ASSUME NEW v \in 0 .. LastFile PROVE Files(v) = <<>> <=> v = 0
  <2>1. Files(v) \in Seq(Int) /\ Len(Files(v)) = v
    BY <1>2
  <2> HIDE DEF Files
  <2> QED
    BY <2>1
<1>6. \A v \in 0 .. LastFile : Files(v) \in Seq(Int) /\ Len(Files(v)) = v /\ (Files(v) = <<>> <=> v = 0)
  BY <1>2, <1>5
<1> HIDE DEF Files
<1> QED
  BY <1>1, <1>3, <1>4, <1>6

\* Rows stay rows.
LEMMA RowUpdates ==
  /\ NoRole \in RoleRow /\ NoFacts \in Fact /\ EmptyDatabase \in Row
  /\ \A m \in Database \cup {None}, u \in User :
       /\ NewRole(m, u) \in RoleRow /\ NewRole(m, u).exists /\ NewRole(m, u).marker = m
       /\ NewRole(m, u).password = None
<1>1. NoRole \in RoleRow /\ NoFacts \in Fact
  BY DEF NoRole, NoFacts, RoleRow, Fact
<1>2. EmptyDatabase \in Row
  <2>1. Files(0) = <<>> /\ 0 \in 0 .. LastFile
    BY FilesInOrder, MigrationAssumption
  <2> QED
    BY <2>1 DEF EmptyDatabase, Row
<1>3. ASSUME NEW m \in Database \cup {None}, NEW u \in User
      PROVE  /\ NewRole(m, u) \in RoleRow /\ NewRole(m, u).exists /\ NewRole(m, u).marker = m
             /\ NewRole(m, u).password = None
  BY DEF NewRole, NoRole, RoleRow
<1> QED
  BY <1>1, <1>2, <1>3

-----------------------------------------------------------------------------
(* The invariant.                                                          *)

Before == {"idle", "role", "schema", "owner", "version", "claim", "reread"}
Locked == {"mark", "file", "clean", "unlock"}

\* The advisory lock of a database is held by a run of it, between the
\* statements that need it.
LockOK ==
  /\ \A d \in Database, r \in Run : db[d].lock = r => Target[r] = d /\ pc[r] \in Locked
  /\ \A r \in Run : pc[r] \in Locked => Mine(r).lock = r

\* What the history says at each statement of m.Up, and that all files are in
\* before the password.
FilesOK(r) ==
  /\ pc[r] = "mark" => ~Mine(r).dirty /\ Mine(r).version < LastFile
  /\ pc[r] = "file" => Mine(r).dirty /\ Len(Mine(r).applied) = Mine(r).version - 1
  /\ pc[r] = "clean" => Mine(r).dirty /\ Len(Mine(r).applied) = Mine(r).version
  /\ pc[r] \in {"unlock", "password", "report"} => Mine(r).applied = AllFiles
  /\ pc[r] = "unlock" => ~Mine(r).dirty

\* What a run has changed when it ends.
AnswerOK(r) ==
  /\ answer[r] # "none" => pc[r] = "ended"
  /\ pc[r] \in Before => r \notin wrote
  /\ answer[r] \in Refusal \cup {"denied"} => r \notin wrote

\* A password that was set was set by a run whose database has all its files.
LoginOK ==
  role.password # None => \E r \in Run : role.password = Password[r] /\ Mine(r).applied = AllFiles

IInv ==
  /\ MigrationTypeOK /\ LockOK /\ HistoryTellsTruth /\ LoginOK
  /\ \A r \in Run : FilesOK(r) /\ AnswerOK(r)

\* Files are only ever added.
DatabasesGrow ==
  \A d \in Database : /\ db[d].applied = AllFiles => db'[d].applied = AllFiles
                      /\ db[d].table => db'[d].table

(* The typing invariant with the sets of records the lemmas need. *)
LEMMA TypesUnfolded ==
  MigrationTypeOK <=>
    /\ role \in RoleRow /\ db \in [Database -> Row] /\ user \in UsersGiven /\ rights \in RightsGiven
    /\ pc \in [Run -> Statement \cup {"idle", "ended"}] /\ facts \in [Run -> Fact]
    /\ answer \in [Run -> Answer] /\ wrote \subseteq Run /\ failures \in 0 .. MaxFailures
    /\ givenUp \subseteq Database /\ serving \subseteq Service
BY DEF MigrationTypeOK, RoleRow, Row, Fact, Files

\* The files of a database are the first ones, as many as there are.
LEMMA RowFacts ==
  ASSUME NEW m \in Row
  PROVE  /\ Len(m.applied) \in 0 .. LastFile /\ m.applied = Files(Len(m.applied))
         /\ (m.applied = AllFiles <=> Len(m.applied) = LastFile)
         /\ LastFile \in Nat
<1>1. LastFile \in Nat
  BY MigrationAssumption
<1>2. PICK v \in 0 .. LastFile : m.applied = Files(v)
  BY DEF Row
<1>3. Len(m.applied) = v
  BY <1>2, FilesInOrder
<1> QED
  BY <1>1, <1>2, <1>3, FilesInOrder

\* The users of the runs and what they have been given.
LEMMA UserFacts ==
  ASSUME MigrationTypeOK, NEW r \in Run
  PROVE  user[r] \in User /\ Target[r] \in Database /\ r \in Process
<1>1. user \in [Run -> User]
  BY MigrationAssumption DEF MigrationTypeOK
<1> QED
  BY <1>1, MigrationAssumption DEF Process

(* Every cluster a run may find satisfies the invariant. *)
LEMMA InitIInv == Init => IInv
<1> SUFFICES ASSUME Init PROVE IInv
  OBVIOUS
<1>0. LastFile \in Nat \ {0} /\ None \notin Run
  BY MigrationAssumption
<1>1. PICK demo \in Demo \cup {None}, u \in User, v \in 1 .. LastFile :
       IF demo = None
       THEN role = NoRole /\ db = [d \in Database |-> EmptyDatabase]
       ELSE /\ role = [NewRole(None, u) EXCEPT !.login = TRUE]
            /\ db = [[d \in Database |-> EmptyDatabase] EXCEPT
                       ![demo] = [EmptyDatabase EXCEPT !.table = TRUE, !.version = v,
                                     !.applied = SubSeq(AllFiles, 1, v), !.owner = u]]
  BY DEF Init
<1>2. role \in RoleRow /\ role.password = None
  <2>1. CASE demo = None
    <3>1. NoRole.password = None
      BY DEF NoRole
    <3> QED
      BY <1>1, <2>1, <3>1, RowUpdates
  <2>2. CASE demo # None
    <3> DEFINE x == NewRole(None, u)
    <3>1. x \in RoleRow /\ x.password = None
      BY RowUpdates
    <3>2. role = [x EXCEPT !.login = TRUE]
      BY <1>1, <2>2
    <3> HIDE DEF x
    <3> QED
      BY <3>1, <3>2 DEF RoleRow
  <2> QED
    BY <2>1, <2>2
<1>3. \A d \in Database :
        /\ db[d] \in Row /\ db[d].lock = None /\ ~db[d].dirty /\ db[d].applied = Files(db[d].version)
  <2>1. EmptyDatabase \in Row /\ Files(0) = <<>>
    BY RowUpdates, FilesInOrder, <1>0
  <2>2. CASE demo = None
    <3>1. EmptyDatabase.lock = None /\ ~EmptyDatabase.dirty /\ EmptyDatabase.applied = <<>> /\ EmptyDatabase.version = 0
      BY DEF EmptyDatabase
    <3>2. \A d \in Database : db[d] = EmptyDatabase
      BY <1>1, <2>2
    <3> QED
      BY <2>1, <3>1, <3>2
  <2>3. CASE demo # None
    <3> DEFINE x == [EmptyDatabase EXCEPT !.table = TRUE, !.version = v,
                                     !.applied = SubSeq(AllFiles, 1, v), !.owner = u]
    <3>1. demo \in Database /\ v \in 0 .. LastFile
      BY <1>0, <2>3, MigrationAssumption
    <3>2. x \in Row /\ x.lock = None /\ ~x.dirty /\ x.applied = Files(v) /\ x.version = v
      BY <3>1 DEF EmptyDatabase, Row, Files
    <3> HIDE DEF x
    <3>3. db = [[d \in Database |-> EmptyDatabase] EXCEPT ![demo] = x]
      BY <1>1, <2>3 DEF x
    <3>4. \A d \in Database : db[d] = IF d = demo THEN x ELSE EmptyDatabase
      BY <3>1, <3>3
    <3>5. EmptyDatabase.lock = None /\ ~EmptyDatabase.dirty /\ EmptyDatabase.applied = <<>> /\ EmptyDatabase.version = 0
      BY DEF EmptyDatabase
    <3> QED
      BY <2>1, <3>2, <3>4, <3>5
  <2> QED
    BY <2>2, <2>3
<1>4. MigrationTypeOK
  <2>1. db \in [Database -> Row]
    <3>1. \E f : db = [d \in Database |-> f[d]]
      <4>1. CASE demo = None
        BY <1>1, <4>1
      <4>2. CASE demo # None
        BY <1>1, <4>2
      <4> QED
        BY <4>1, <4>2
    <3> QED
      BY <1>3, <3>1
  <2>2. facts \in [Run -> Fact] /\ pc \in [Run -> Statement \cup {"idle", "ended"}] /\ answer \in [Run -> Answer]
    BY RowUpdates DEF Init, Answer
  <2>3. failures \in 0 .. MaxFailures /\ wrote \subseteq Run /\ givenUp \subseteq Database /\ serving \subseteq Service
    BY MigrationAssumption DEF Init
  <2> QED
    BY <1>2, <2>1, <2>2, <2>3, TypesUnfolded DEF Init
<1>5. LockOK
  BY <1>0, <1>3 DEF Init, LockOK, Locked
<1>6. HistoryTellsTruth
  <2>1. \A d \in Database : db[d].version \in 0 .. LastFile
    BY <1>3 DEF Row
  <2> QED
    BY <1>3, <2>1, FilesInOrder DEF HistoryTellsTruth, Files
<1>7. LoginOK
  BY <1>2 DEF LoginOK
<1>8. \A r \in Run : FilesOK(r) /\ AnswerOK(r)
  BY DEF Init, FilesOK, AnswerOK, Refusal
<1> QED
  BY <1>4, <1>5, <1>6, <1>7, <1>8 DEF IInv

-----------------------------------------------------------------------------
(* Steps.                                                                  *)

\* r is the only run that moves, and only r's answer and record may change.
Alone(r) ==
  \A q \in Run \ {r} : pc'[q] = pc[q] /\ answer'[q] = answer[q] /\ (q \in wrote' <=> q \in wrote)

\* A step of r outside the migrator, which leaves the databases alone.
LEMMA QuietKeepsInv ==
  ASSUME IInv, NEW r \in Run, MigrationTypeOK', db' = db, Alone(r), LoginOK',
         pc[r] \notin Locked, pc'[r] \notin Locked,
         pc'[r] \in {"password", "report"} => Mine(r).applied = AllFiles,
         AnswerOK(r)'
  PROVE  IInv'
<1>1. LockOK'
  BY DEF IInv, LockOK, Mine, Alone
<1>2. HistoryTellsTruth'
  BY DEF IInv, HistoryTellsTruth
<1>3. ASSUME NEW q \in Run PROVE FilesOK(q)' /\ AnswerOK(q)'
  <2>1. CASE q = r
    BY <2>1 DEF FilesOK, Mine, Locked
  <2>2. CASE q # r
    BY <2>2 DEF IInv, FilesOK, AnswerOK, Mine, Alone
  <2> QED
    BY <2>1, <2>2
<1> QED
  BY <1>1, <1>2, <1>3 DEF IInv

\* What a run that ends leaves.
LEMMA EndFacts ==
  ASSUME MigrationTypeOK, NEW r \in Run, NEW a \in Answer, Ends(r, a), UNCHANGED wrote
  PROVE  /\ pc' \in [Run -> Statement \cup {"idle", "ended"}] /\ facts' \in [Run -> Fact]
         /\ answer' \in [Run -> Answer] /\ pc'[r] = "ended" /\ answer'[r] = a /\ Alone(r)
<1>1. pc' = [pc EXCEPT ![r] = "ended"] /\ answer' = [answer EXCEPT ![r] = a] /\ facts' = [facts EXCEPT ![r] = NoFacts]
  BY DEF Ends, Goto
<1>2. facts' \in [Run -> Fact]
  BY <1>1, RowUpdates, TypesUnfolded
<1> QED
  BY <1>1, <1>2, TypesUnfolded DEF Alone

\* What a run that goes on leaves.
LEMMA GoFacts ==
  ASSUME MigrationTypeOK, NEW r \in Run, NEW p \in Statement, Goto(r, p), UNCHANGED answer
  PROVE  /\ pc' \in [Run -> Statement \cup {"idle", "ended"}] /\ answer' \in [Run -> Answer]
         /\ pc'[r] = p /\ answer'[r] = answer[r]
         /\ UNCHANGED wrote \/ Commits(r) => Alone(r) /\ wrote' \subseteq Run
<1>1. pc' = [pc EXCEPT ![r] = p] /\ answer' = answer
  BY DEF Goto
<1> QED
  BY <1>1, TypesUnfolded DEF Alone, Commits

\* A run that ends outside the migrator.
LEMMA EndKeepsInv ==
  ASSUME IInv, NEW r \in Run, NEW a \in Answer, Ends(r, a), pc[r] \in Statement \ Locked,
         a \in Refusal \cup {"denied"} => pc[r] \in Before,
         UNCHANGED <<role, db, wrote>>, UNCHANGED others
  PROVE  IInv'
<1>0. MigrationTypeOK
  BY DEF IInv
<1>1. /\ pc' \in [Run -> Statement \cup {"idle", "ended"}] /\ facts' \in [Run -> Fact]
      /\ answer' \in [Run -> Answer] /\ pc'[r] = "ended" /\ answer'[r] = a /\ Alone(r)
  BY <1>0, EndFacts
<1>2. MigrationTypeOK'
  BY <1>0, <1>1, TypesUnfolded DEF MigrationTypeOK, RoleRow, Row, Fact, Files, others
<1>3. LoginOK'
  BY DEF IInv, LoginOK, Mine
<1>4. AnswerOK(r)'
  BY <1>1 DEF IInv, AnswerOK, Before
<1> QED
  BY <1>1, <1>2, <1>3, <1>4, QuietKeepsInv DEF Locked

\* A run that goes on outside the migrator and touches no role.
LEMMA GoKeepsInv ==
  ASSUME IInv, NEW r \in Run, NEW p \in Statement \ Locked, Goto(r, p), pc[r] \notin Locked,
         pc[r] # "ended", facts' \in [Run -> Fact], p \in Before => pc[r] \in Before,
         p \in {"password", "report"} => Mine(r).applied = AllFiles,
         UNCHANGED <<role, db, answer, wrote>>, UNCHANGED others
  PROVE  IInv'
<1>0. MigrationTypeOK
  BY DEF IInv
<1>1. /\ pc' \in [Run -> Statement \cup {"idle", "ended"}] /\ answer' \in [Run -> Answer]
      /\ pc'[r] = p /\ answer'[r] = answer[r] /\ Alone(r)
  BY <1>0, GoFacts
<1>2. MigrationTypeOK'
  BY <1>0, <1>1, TypesUnfolded DEF MigrationTypeOK, RoleRow, Row, Fact, Files, others
<1>3. LoginOK'
  BY DEF IInv, LoginOK, Mine
<1>4. AnswerOK(r)'
  BY <1>1 DEF IInv, AnswerOK, Before, Refusal
<1> QED
  BY <1>1, <1>2, <1>3, <1>4, QuietKeepsInv

\* The preflight, up to the plan, changes nothing.
LEMMA PreflightKeepsInv ==
  ASSUME IInv, NEW r \in Run,
         Start(r) \/ ReadRole(r) \/ ReadSchema(r) \/ ReadOwner(r) \/ PlanMigration(r)
  PROVE  IInv'
<1>0. MigrationTypeOK /\ role \in RoleRow /\ facts \in [Run -> Fact] /\ Mine(r) \in Row
  BY UserFacts, TypesUnfolded DEF IInv, Mine
<1>1. CASE Start(r)
  BY <1>0, <1>1, GoKeepsInv DEF Start, Statement, Locked, Before
<1>2. CASE ReadRole(r)
  <2>1. [facts[r] EXCEPT !.roleExists = role.exists, !.admin = role.creator = user[r]] \in Fact
    BY <1>0 DEF Fact, RoleRow
  <2>2. facts' \in [Run -> Fact]
    BY <1>0, <1>2, <2>1 DEF ReadRole, Learns
  <2> QED
    BY <1>0, <1>2, <2>2, GoKeepsInv DEF ReadRole, Statement, Locked, Before
<1>3. CASE ReadSchema(r)
  <2>1. [facts[r] EXCEPT !.hasSchema = Mine(r).table, !.owns = Owns(r)] \in Fact
    <3>1. Mine(r).table \in BOOLEAN /\ Owns(r) \in BOOLEAN
      BY <1>0 DEF Row, Owns
    <3> QED
      BY <1>0, <3>1 DEF Fact
  <2>2. facts' \in [Run -> Fact]
    BY <1>0, <1>3, <2>1 DEF ReadSchema, Learns
  <2> QED
    BY <1>0, <1>3, <2>2, GoKeepsInv DEF ReadSchema, Statement, Locked, Before
<1>4. CASE ReadOwner(r)
  <2>1. CASE Ends(r, "failed")
    BY <1>4, <2>1, EndKeepsInv DEF ReadOwner, Statement, Locked, Before, Answer, Refusal
  <2>2. CASE Learns(r, [facts[r] EXCEPT !.marker = role.marker]) /\ Goto(r, "version") /\ UNCHANGED answer
    <3>1. [facts[r] EXCEPT !.marker = role.marker] \in Fact
      BY <1>0 DEF Fact, RoleRow
    <3>2. facts' \in [Run -> Fact]
      BY <1>0, <2>2, <3>1 DEF Learns
    <3> QED
      BY <1>0, <1>4, <2>2, <3>2, GoKeepsInv DEF ReadOwner, Statement, Locked, Before
  <2> QED
    BY <1>4, <2>1, <2>2 DEF ReadOwner
<1>5. CASE PlanMigration(r)
  <2>1. ASSUME NEW a \in Refusal, Ends(r, a) PROVE IInv'
    BY <1>5, <2>1, EndKeepsInv DEF PlanMigration, Statement, Locked, Before, Answer
  <2>2. CASE Goto(r, "claim") /\ Learns(r, NoFacts) /\ UNCHANGED answer
    <3>1. facts' \in [Run -> Fact]
      BY <1>0, <2>2, RowUpdates DEF Learns
    <3> QED
      BY <1>0, <1>5, <2>2, <3>1, GoKeepsInv DEF PlanMigration, Statement, Locked, Before
  <2>3. Steps[1] = "claim"
    BY PlanOrder
  <2> QED
    BY <1>5, <2>1, <2>2, <2>3, FirstRefusal DEF PlanMigration
<1> QED
  BY <1>1, <1>2, <1>3, <1>4, <1>5

(* Creating, marking or adopting the application role keeps the histories. *)
LEMMA ClaimKeepsInv ==
  ASSUME IInv, NEW r \in Run, ClaimRole(r) \/ RereadOwner(r)
  PROVE  IInv'
<1>0. MigrationTypeOK /\ role \in RoleRow /\ facts \in [Run -> Fact]
  BY TypesUnfolded DEF IInv
<1>1. pc[r] \in {"claim", "reread"} /\ UNCHANGED db /\ UNCHANGED others
  BY DEF ClaimRole, RereadOwner
<1>2. ASSUME NEW a \in {"denied", "failed", "cluster"}, Ends(r, a), UNCHANGED <<role, wrote>> PROVE IInv'
  BY <1>1, <1>2, EndKeepsInv DEF Statement, Locked, Before, Answer, Refusal
<1>3. ASSUME NEW p \in {"reread", "open"}, Goto(r, p), UNCHANGED <<role, facts, answer, wrote>> PROVE IInv'
  BY <1>0, <1>1, <1>3, GoKeepsInv DEF Statement, Locked, Before
<1>4. ASSUME role' = NewRole(Target[r], user[r]), Commits(r), Goto(r, "open"), UNCHANGED <<facts, answer>>
      PROVE  IInv'
  <2>1. /\ pc' \in [Run -> Statement \cup {"idle", "ended"}] /\ answer' \in [Run -> Answer]
        /\ pc'[r] = "open" /\ answer'[r] = answer[r] /\ Alone(r) /\ wrote' \subseteq Run
    BY <1>0, <1>4, GoFacts DEF Statement
  <2>2. role' \in RoleRow /\ role'.password = None
    BY <1>0, <1>4, RowUpdates, UserFacts
  <2>3. MigrationTypeOK'
    BY <1>0, <1>1, <1>4, <2>1, <2>2, TypesUnfolded DEF MigrationTypeOK, RoleRow, Row, Fact, Files, others
  <2>4. LoginOK'
    BY <2>2 DEF LoginOK
  <2>5. AnswerOK(r)'
    BY <1>1, <2>1 DEF IInv, AnswerOK, Before, Refusal
  <2> QED
    BY <1>1, <2>1, <2>3, <2>4, <2>5, QuietKeepsInv DEF Locked
<1>5. After("claim") = "open" /\ DeniedAt("claim") = "denied"
  BY PlanOrder DEF DeniedAt
<1>6. CASE ClaimRole(r)
  BY <1>2, <1>3, <1>4, <1>5, <1>6 DEF ClaimRole
<1>7. CASE RereadOwner(r)
  BY <1>2, <1>3, <1>5, <1>7 DEF RereadOwner
<1> QED
  BY <1>6, <1>7

(* Setting the password and reporting the version keep the histories. *)
LEMMA PasswordKeepsInv ==
  ASSUME IInv, NEW r \in Run, SetAppRolePassword(r) \/ ReportVersion(r)
  PROVE  IInv'
<1>0. MigrationTypeOK /\ role \in RoleRow /\ Mine(r).applied = AllFiles
  BY TypesUnfolded DEF IInv, FilesOK, SetAppRolePassword, ReportVersion
<1>1. pc[r] \in {"password", "report"} /\ UNCHANGED db /\ UNCHANGED others
  BY DEF SetAppRolePassword, ReportVersion
<1>2. ASSUME NEW a \in {"deniedAfterSchema", "failed", "ok"}, Ends(r, a), UNCHANGED <<role, wrote>> PROVE IInv'
  BY <1>1, <1>2, EndKeepsInv DEF Statement, Locked, Before, Answer, Refusal
<1>3. ASSUME role' = [role EXCEPT !.login = TRUE, !.password = Password[r]], Commits(r),
             Goto(r, "report"), UNCHANGED <<facts, answer>>
      PROVE  IInv'
  <2>1. /\ pc' \in [Run -> Statement \cup {"idle", "ended"}] /\ answer' \in [Run -> Answer]
        /\ pc'[r] = "report" /\ answer'[r] = answer[r] /\ Alone(r) /\ wrote' \subseteq Run
    BY <1>0, <1>3, GoFacts DEF Statement
  <2>2. role' \in RoleRow /\ role'.password = Password[r]
    <3>1. r \in Process
      BY DEF Process
    <3> QED
      BY <1>0, <1>3, <3>1 DEF RoleRow
  <2>3. MigrationTypeOK'
    BY <1>0, <1>1, <1>3, <2>1, <2>2, TypesUnfolded DEF MigrationTypeOK, RoleRow, Row, Fact, Files, others
  <2>4. LoginOK'
    BY <1>0, <1>1, <2>2 DEF LoginOK, Mine
  <2>5. AnswerOK(r)'
    BY <1>1, <2>1 DEF IInv, AnswerOK, Before, Refusal
  <2> QED
    BY <1>0, <1>1, <2>1, <2>3, <2>4, <2>5, QuietKeepsInv DEF Locked
<1>4. After("password") = "report" /\ DeniedAt("password") = "deniedAfterSchema"
  BY PlanOrder DEF DeniedAt
<1>5. CASE SetAppRolePassword(r)
  BY <1>2, <1>3, <1>4, <1>5 DEF SetAppRolePassword
<1>6. CASE ReportVersion(r)
  BY <1>2, <1>6 DEF ReportVersion
<1> QED
  BY <1>5, <1>6

\* A step of r in the migrator: nobody else is in there.
LEMMA MigratorKeepsInv ==
  ASSUME IInv, NEW r \in Run, Alone(r), MigrationTypeOK',
         role'.password = role.password \/ role'.password = None,
         Mine(r).lock \in {None, r}, \A d \in Database \ {Target[r]} : db'[d] = db[d],
         db'[Target[r]].lock = IF pc'[r] \in Locked THEN r ELSE None,
         Mine(r).applied = AllFiles => db'[Target[r]].applied = AllFiles,
         /\ Len(db'[Target[r]].applied) = db'[Target[r]].version
            \/ (db'[Target[r]].dirty /\ Len(db'[Target[r]].applied) = db'[Target[r]].version - 1),
         FilesOK(r)', AnswerOK(r)'
  PROVE  IInv'
<1>0. MigrationTypeOK /\ Target[r] \in Database /\ None \notin Run /\ LockOK
  BY UserFacts, MigrationAssumption DEF IInv
<1>1. \A q \in Run \ {r} : pc[q] \in Locked => Target[q] # Target[r]
  BY <1>0 DEF LockOK, Mine
<1>2. \A q \in Run : Target[q] \in Database
  BY <1>0, UserFacts
<1>3. LockOK'
  <2>1. ASSUME NEW d \in Database, NEW q \in Run, db'[d].lock = q PROVE Target[q] = d /\ pc'[q] \in Locked
    <3>1. CASE d = Target[r]
      BY <1>0, <2>1, <3>1
    <3>2. CASE d # Target[r]
      <4>1. Target[q] = d /\ pc[q] \in Locked
        BY <1>0, <2>1, <3>2 DEF LockOK
      <4> QED
        BY <3>2, <4>1 DEF Alone
    <3> QED
      BY <3>1, <3>2
  <2>2. ASSUME NEW q \in Run, pc'[q] \in Locked PROVE db'[Target[q]].lock = q
    BY <1>0, <1>1, <1>2, <2>2 DEF LockOK, Alone, Mine
  <2> QED
    BY <2>1, <2>2 DEF LockOK, Mine
<1>4. HistoryTellsTruth'
  <2>1. ASSUME NEW d \in Database PROVE db'[d].applied = SubSeq(AllFiles, 1, Len(db'[d].applied))
    <3>1. db'[d] \in Row
      BY DEF MigrationTypeOK, Row, Files
    <3> QED
      BY <3>1, RowFacts DEF Files
  <2> QED
    BY <2>1 DEF IInv, HistoryTellsTruth
<1>5. \A d \in Database : db[d].applied = AllFiles => db'[d].applied = AllFiles
  BY DEF Mine
<1>6. LoginOK'
  BY <1>2, <1>5 DEF IInv, LoginOK, Mine
<1>7. ASSUME NEW q \in Run PROVE FilesOK(q)' /\ AnswerOK(q)'
  <2>1. CASE q # r
    <3>1. AnswerOK(q)'
      BY <2>1 DEF IInv, AnswerOK, Alone
    <3>2. CASE pc[q] \in Locked
      <4>1. db'[Target[q]] = db[Target[q]]
        BY <1>1, <1>2, <2>1, <3>2
      <4> QED
        BY <2>1, <3>1, <4>1 DEF IInv, FilesOK, Alone, Mine
    <3>3. CASE pc[q] \notin Locked
      BY <1>2, <1>5, <2>1, <3>1, <3>3 DEF IInv, FilesOK, Alone, Mine, Locked
    <3> QED
      BY <3>2, <3>3
  <2> QED
    BY <2>1
<1> QED
  BY <1>3, <1>4, <1>6, <1>7 DEF IInv

(* Opening golang-migrate creates an empty schema_migrations at most. *)
LEMMA OpenKeepsInv ==
  ASSUME IInv, NEW r \in Run, OpenMigrator(r)
  PROVE  IInv'
<1> DEFINE t == Target[r]
<1>0. MigrationTypeOK /\ t \in Database /\ user[r] \in User /\ db \in [Database -> Row]
  BY UserFacts, TypesUnfolded DEF IInv
<1>1. /\ pc[r] = "open" /\ Mine(r).lock = None /\ Goto(r, "up") /\ UNCHANGED <<role, facts, answer>>
      /\ UNCHANGED others /\ (UNCHANGED wrote \/ Commits(r))
  BY DEF OpenMigrator
<1>2. /\ pc' \in [Run -> Statement \cup {"idle", "ended"}] /\ answer' \in [Run -> Answer]
      /\ pc'[r] = "up" /\ answer'[r] = answer[r] /\ Alone(r) /\ wrote' \subseteq Run
  BY <1>0, <1>1, GoFacts, TypesUnfolded DEF Statement
<1>3. /\ db' \in [Database -> Row] /\ \A d \in Database \ {t} : db'[d] = db[d]
      /\ db'[t].lock = db[t].lock /\ db'[t].version = db[t].version /\ db'[t].dirty = db[t].dirty
      /\ db'[t].applied = db[t].applied
  <2>1. CASE UNCHANGED db
    BY <1>0, <2>1
  <2>2. CASE db' = [db EXCEPT ![Target[r]].table = TRUE, ![Target[r]].owner = user[r]]
    <3> DEFINE x == [db[t] EXCEPT !.table = TRUE, !.owner = user[r]]
    <3>1. x \in Row /\ x.lock = db[t].lock /\ x.version = db[t].version
          /\ x.dirty = db[t].dirty /\ x.applied = db[t].applied
      <4>1. db[t] \in Row /\ user[r] \in User
        BY <1>0
      <4> HIDE DEF t
      <4> QED
        BY <4>1 DEF x, Row
    <3>2. db' = [db EXCEPT ![t] = x]
      BY <1>0, <2>2
    <3> HIDE DEF x, t
    <3> QED
      BY <1>0, <3>1, <3>2
  <2> QED
    BY <2>1, <2>2 DEF OpenMigrator
<1>4. MigrationTypeOK'
  BY <1>0, <1>1, <1>2, <1>3, TypesUnfolded DEF MigrationTypeOK, RoleRow, Row, Fact, Files, others
<1>5. FilesOK(r)' /\ AnswerOK(r)'
  BY <1>1, <1>2 DEF IInv, FilesOK, AnswerOK, Before, Refusal
<1>6. Len(db[t].applied) = db[t].version \/ (db[t].dirty /\ Len(db[t].applied) = db[t].version - 1)
  BY <1>0 DEF IInv, HistoryTellsTruth
<1> QED
  BY <1>1, <1>2, <1>3, <1>4, <1>5, <1>6, MigratorKeepsInv DEF Mine, Locked

(* Up takes the lock and decides which file is next. *)
LEMMA BeginKeepsInv ==
  ASSUME IInv, NEW r \in Run, BeginUp(r)
  PROVE  IInv'
<1> DEFINE t == Target[r]
<1>0. MigrationTypeOK /\ t \in Database /\ db \in [Database -> Row] /\ facts \in [Run -> Fact]
  BY UserFacts, TypesUnfolded DEF IInv
<1>1. pc[r] = "up" /\ Mine(r).lock = None /\ UNCHANGED <<role, wrote>> /\ UNCHANGED others
  BY DEF BeginUp, Unlocked
<1>2. Len(db[t].applied) = db[t].version \/ (db[t].dirty /\ Len(db[t].applied) = db[t].version - 1)
  BY <1>0 DEF IInv, HistoryTellsTruth
<1>3. CASE Ends(r, "failed") /\ UNCHANGED db
  BY <1>1, <1>3, EndKeepsInv DEF Statement, Locked, Answer, Refusal
<1>4. ASSUME ~Mine(r).dirty, Mine(r).version = LastFile, Goto(r, "password"), UNCHANGED <<db, facts, answer>>
      PROVE  IInv'
  <2>1. Mine(r).applied = AllFiles
    BY <1>0, <1>2, <1>4, RowFacts DEF Mine
  <2> QED
    BY <1>0, <1>1, <1>4, <2>1, GoKeepsInv DEF Statement, Locked, Before
<1>5. ASSUME ~Mine(r).dirty, Mine(r).version < LastFile, db' = [db EXCEPT ![Target[r]].lock = r],
             Goto(r, "mark"), UNCHANGED <<facts, answer>>
      PROVE  IInv'
  <2>1. /\ pc' \in [Run -> Statement \cup {"idle", "ended"}] /\ answer' \in [Run -> Answer]
        /\ pc'[r] = "mark" /\ answer'[r] = answer[r] /\ Alone(r)
    BY <1>0, <1>1, <1>5, GoFacts DEF Statement
  <2>2. db' \in [Database -> Row]
    BY <1>0, <1>5 DEF Row
  <2>3. /\ \A d \in Database \ {t} : db'[d] = db[d]
        /\ db'[t].lock = r /\ db'[t].version = db[t].version /\ db'[t].dirty = db[t].dirty
        /\ db'[t].applied = db[t].applied
    BY <1>0, <1>5 DEF Row
  <2>4. MigrationTypeOK'
    BY <1>0, <1>1, <1>5, <2>1, <2>2, TypesUnfolded DEF MigrationTypeOK, RoleRow, Row, Fact, Files, others
  <2>5. FilesOK(r)' /\ AnswerOK(r)'
    BY <1>1, <1>5, <2>1, <2>3 DEF IInv, FilesOK, AnswerOK, Before, Refusal, Mine
  <2> QED
    BY <1>1, <1>2, <2>1, <2>3, <2>4, <2>5, MigratorKeepsInv DEF Mine, Locked
<1>6. After("open") = "password"
  BY PlanOrder
<1> QED
  BY <1>3, <1>4, <1>5, <1>6 DEF BeginUp

\* In the migrator the lock is the run's.
LEMMA HoldsLock ==
  ASSUME IInv, NEW r \in Run, pc[r] \in Locked
  PROVE  /\ Mine(r).lock = r /\ Target[r] \in Database /\ Mine(r) \in Row /\ db \in [Database -> Row]
         /\ Len(Mine(r).applied) \in 0 .. LastFile /\ LastFile \in Nat /\ Mine(r).version \in 0 .. LastFile
         /\ Len(Mine(r).applied) = Mine(r).version \/ (Mine(r).dirty /\ Len(Mine(r).applied) = Mine(r).version - 1)
<1>1. MigrationTypeOK /\ Target[r] \in Database /\ Mine(r).lock = r
  BY UserFacts DEF IInv, LockOK
<1>2. db \in [Database -> Row] /\ Mine(r) \in Row
  BY <1>1, TypesUnfolded DEF Mine
<1>3. Len(Mine(r).applied) \in 0 .. LastFile /\ LastFile \in Nat /\ Mine(r).version \in 0 .. LastFile
  BY <1>2, RowFacts DEF Row
<1> QED
  BY <1>1, <1>2, <1>3 DEF IInv, HistoryTellsTruth, Mine

(* A file is marked dirty, run, marked clean, under the lock; or the
   migrator is closed. *)
LEMMA FileKeepsInv ==
  ASSUME IInv, NEW r \in Run, MarkFile(r) \/ RunFile(r) \/ CleanFile(r) \/ CloseMigrator(r)
  PROVE  IInv'
<1> DEFINE t == Target[r]
           m == db[Target[r]]
           n == db'[Target[r]]
<1>0. pc[r] \in Locked /\ UNCHANGED <<facts, answer>> /\ UNCHANGED others /\ (UNCHANGED wrote \/ Commits(r))
  BY DEF MarkFile, RunFile, CleanFile, CloseMigrator, Locked
<1>1. /\ MigrationTypeOK /\ m.lock = r /\ t \in Database /\ m \in Row /\ db \in [Database -> Row]
      /\ Len(m.applied) \in 0 .. LastFile /\ LastFile \in Nat /\ m.version \in 0 .. LastFile
      /\ Len(m.applied) = m.version \/ (m.dirty /\ Len(m.applied) = m.version - 1)
  BY <1>0, HoldsLock DEF IInv, Mine
<1>2. ASSUME NEW p \in Statement \ Before, Goto(r, p), role' \in RoleRow,
             role'.password = role.password \/ role'.password = None,
             db' \in [Database -> Row], \A d \in Database \ {t} : db'[d] = db[d],
             n.lock = IF p \in Locked THEN r ELSE None,
             m.applied = AllFiles => n.applied = AllFiles,
             Len(n.applied) = n.version \/ (n.dirty /\ Len(n.applied) = n.version - 1),
             /\ p = "mark" => ~n.dirty /\ n.version < LastFile
             /\ p = "file" => n.dirty /\ Len(n.applied) = n.version - 1
             /\ p = "clean" => n.dirty /\ Len(n.applied) = n.version
             /\ p \in {"unlock", "password", "report"} => n.applied = AllFiles
             /\ p = "unlock" => ~n.dirty
      PROVE  IInv'
  <2>1. /\ pc' \in [Run -> Statement \cup {"idle", "ended"}] /\ answer' \in [Run -> Answer]
        /\ pc'[r] = p /\ answer'[r] = answer[r] /\ Alone(r) /\ wrote' \subseteq Run
    BY <1>0, <1>1, <1>2, GoFacts, TypesUnfolded
  <2>2. MigrationTypeOK'
    BY <1>0, <1>1, <1>2, <2>1, TypesUnfolded DEF MigrationTypeOK, RoleRow, Row, Fact, Files, others
  <2>3. FilesOK(r)'
    BY <1>2, <2>1 DEF FilesOK, Mine
  <2>4. AnswerOK(r)'
    BY <1>0, <1>2, <2>1 DEF IInv, AnswerOK, Before, Refusal, Locked
  <2> QED
    BY <1>1, <1>2, <2>1, <2>2, <2>3, <2>4, MigratorKeepsInv DEF Mine
<1>3. role \in RoleRow
  BY <1>1, TypesUnfolded
<1>4. CASE MarkFile(r)
  <2>1. ~m.dirty /\ m.version < LastFile /\ Len(m.applied) = m.version
    BY <1>1, <1>4 DEF IInv, FilesOK, Mine, MarkFile
  <2>2. db' = [db EXCEPT ![t].version = @ + 1, ![t].dirty = TRUE] /\ Goto(r, "file") /\ UNCHANGED role
    BY <1>4 DEF MarkFile
  <2>3. db' \in [Database -> Row]
    <3>1. m.version + 1 \in 0 .. LastFile
      BY <1>1, <2>1
    <3> QED
      BY <1>1, <2>2, <3>1 DEF Row
  <2>4. /\ \A d \in Database \ {t} : db'[d] = db[d]
        /\ n.version = m.version + 1 /\ n.dirty /\ n.applied = m.applied /\ n.lock = m.lock
    BY <1>1, <2>2 DEF Row
  <2> HIDE DEF m, n, t
  <2> QED
    BY <1>1, <1>2, <1>3, <2>1, <2>2, <2>3, <2>4 DEF Statement, Before, Locked
<1>5. CASE RunFile(r)
  <2>1. m.dirty /\ Len(m.applied) = m.version - 1
    BY <1>5 DEF IInv, FilesOK, Mine, RunFile
  <2>2. db' = [db EXCEPT ![t].applied = Append(@, m.version)] /\ Goto(r, "clean")
    BY <1>5 DEF RunFile, Mine
  <2>3. role' \in RoleRow /\ (role'.password = role.password \/ role'.password = None)
    <3>1. NewRole(None, user[r]) \in RoleRow /\ NewRole(None, user[r]).password = None
      BY <1>1, RowUpdates, UserFacts
    <3>2. role' = role \/ role' = NewRole(None, user[r])
      BY <1>5 DEF RunFile
    <3> QED
      BY <1>3, <3>1, <3>2
  <2>4. Append(m.applied, m.version) = Files(m.version) /\ m.version \in 0 .. LastFile
    <3>1. Len(m.applied) < LastFile /\ m.applied = Files(Len(m.applied))
      BY <1>1, <2>1, RowFacts
    <3> DEFINE v == Len(m.applied)
    <3>2. v \in 0 .. LastFile /\ v < LastFile /\ m.version = v + 1
      BY <1>1, <2>1, <3>1
    <3> HIDE DEF v
    <3>3. Append(Files(v), v + 1) = Files(v + 1)
      BY <3>2, FilesInOrder
    <3> QED
      BY <1>1, <3>1, <3>2, <3>3 DEF v
  <2>5. db' \in [Database -> Row]
    BY <1>1, <2>2, <2>4 DEF Row
  <2>6. /\ \A d \in Database \ {t} : db'[d] = db[d]
        /\ n.version = m.version /\ n.dirty = m.dirty /\ n.applied = Files(m.version) /\ n.lock = m.lock
    BY <1>1, <2>2, <2>4 DEF Row
  <2>7. Len(n.applied) = n.version /\ m.applied # AllFiles
    <3>1. Len(Files(m.version)) = m.version
      BY <2>4, FilesInOrder
    <3>2. m.applied # AllFiles
      BY <1>1, <2>1, RowFacts
    <3> QED
      BY <2>6, <3>1, <3>2
  <2> HIDE DEF m, n, t
  <2> QED
    BY <1>1, <1>2, <2>1, <2>2, <2>3, <2>5, <2>6, <2>7 DEF Statement, Before, Locked
<1>6. CASE CleanFile(r)
  <2>1. m.dirty /\ Len(m.applied) = m.version
    BY <1>6 DEF IInv, FilesOK, Mine, CleanFile
  <2>2. /\ db' = [db EXCEPT ![t].dirty = FALSE] /\ UNCHANGED role
        /\ Goto(r, IF m.version < LastFile THEN "mark" ELSE "unlock")
    BY <1>6 DEF CleanFile, Mine
  <2>3. db' \in [Database -> Row]
    BY <1>1, <2>2 DEF Row
  <2>4. /\ \A d \in Database \ {t} : db'[d] = db[d]
        /\ n.version = m.version /\ ~n.dirty /\ n.applied = m.applied /\ n.lock = m.lock
    BY <1>1, <2>2 DEF Row
  <2>5. ~(m.version < LastFile) => m.applied = AllFiles
    BY <1>1, <2>1, RowFacts
  <2> HIDE DEF m, n, t
  <2>6. CASE m.version < LastFile
    BY <1>1, <1>2, <1>3, <2>1, <2>2, <2>3, <2>4, <2>6 DEF Statement, Before, Locked
  <2>7. CASE ~(m.version < LastFile)
    BY <1>1, <1>2, <1>3, <2>1, <2>2, <2>3, <2>4, <2>5, <2>7 DEF Statement, Before, Locked
  <2> QED
    BY <2>6, <2>7
<1>7. CASE CloseMigrator(r)
  <2>1. m.applied = AllFiles
    BY <1>7 DEF IInv, FilesOK, Mine, CloseMigrator
  <2>2. db' = Released(r) /\ UNCHANGED role /\ Goto(r, "password")
    BY <1>7, PlanOrder DEF CloseMigrator
  <2>3. \A d \in Database \ {t} : db[d].lock # r
    BY DEF IInv, LockOK
  <2>4. db' = [d \in Database |-> IF d = t THEN [db[d] EXCEPT !.lock = None] ELSE db[d]]
    BY <1>1, <2>2, <2>3 DEF Released
  <2>5. db' \in [Database -> Row]
    BY <1>1, <2>4 DEF Row
  <2>6. /\ \A d \in Database \ {t} : db'[d] = db[d]
        /\ n.version = m.version /\ n.dirty = m.dirty /\ n.applied = m.applied /\ n.lock = None
    BY <1>1, <2>4 DEF Row
  <2> HIDE DEF m, n, t
  <2> QED
    BY <1>1, <1>2, <1>3, <2>1, <2>2, <2>5, <2>6 DEF Statement, Before, Locked
<1> QED
  BY <1>4, <1>5, <1>6, <1>7

\* What a run that ends gives back.
LEMMA ReleaseFacts ==
  ASSUME IInv, NEW r \in Run
  PROVE  /\ Released(r) \in [Database -> Row]
         /\ \A d \in Database : /\ Released(r)[d].applied = db[d].applied /\ Released(r)[d].version = db[d].version
                                /\ Released(r)[d].dirty = db[d].dirty /\ Released(r)[d].table = db[d].table
         /\ Target[r] \in Database /\ \A d \in Database \ {Target[r]} : Released(r)[d] = db[d]
         /\ pc[r] \notin Locked => Released(r) = db
         /\ pc[r] \in Locked => Released(r)[Target[r]].lock = None
<1>1. MigrationTypeOK /\ db \in [Database -> Row] /\ Target[r] \in Database
  BY UserFacts, TypesUnfolded DEF IInv
<1>2. \A d \in Database : db[d].lock = r => d = Target[r] /\ pc[r] \in Locked
  BY DEF IInv, LockOK
<1>3. Released(r) \in [Database -> Row]
  BY <1>1 DEF Released, Row
<1>4. \A d \in Database : /\ Released(r)[d].applied = db[d].applied /\ Released(r)[d].version = db[d].version
                          /\ Released(r)[d].dirty = db[d].dirty /\ Released(r)[d].table = db[d].table
                          /\ db[d].lock = r => Released(r)[d].lock = None
                          /\ db[d].lock # r => Released(r)[d] = db[d]
  BY <1>1 DEF Released, Row
<1>5. pc[r] \notin Locked => Released(r) = db
  <2> SUFFICES ASSUME pc[r] \notin Locked PROVE Released(r) = db
    OBVIOUS
  <2>1. \A d \in Database : Released(r)[d] = db[d]
    BY <1>2, <1>4
  <2> QED
    BY <1>1, <1>3, <2>1
<1>6. pc[r] \in Locked => db[Target[r]].lock = r
  BY DEF IInv, LockOK, Mine
<1> QED
  BY <1>1, <1>2, <1>3, <1>4, <1>5, <1>6

(* A run killed between two statements leaves a dirty mark if its file was
   under way, and the history still tells what is there. *)
LEMMA FailKeepsInv ==
  ASSUME IInv, NEW r \in Run, Fail(r)
  PROVE  IInv'
<1> DEFINE t == Target[r]
<1>0. MigrationTypeOK /\ failures + 1 \in 0 .. MaxFailures
  BY MigrationAssumption, TypesUnfolded DEF IInv, Fail
<1>a. PICK a \in {"failed", "cluster"} : Ends(r, a) /\ (a = "cluster" => pc[r] = "reread")
  BY DEF Fail
<1>1. /\ pc[r] \in Statement /\ db' = Released(r) /\ failures' = failures + 1
      /\ UNCHANGED <<role, user, rights, wrote, givenUp, serving>>
  BY DEF Fail, InProgress
<1>2. /\ pc' \in [Run -> Statement \cup {"idle", "ended"}] /\ facts' \in [Run -> Fact]
      /\ answer' \in [Run -> Answer] /\ pc'[r] = "ended" /\ answer'[r] = a /\ Alone(r)
  BY <1>0, <1>1, <1>a, EndFacts DEF Answer, Refusal
<1>3. MigrationTypeOK'
  BY <1>0, <1>1, <1>2, ReleaseFacts, TypesUnfolded DEF MigrationTypeOK, RoleRow, Row, Fact, Files
<1>4. FilesOK(r)' /\ AnswerOK(r)'
  <2>1. pc[r] = "reread" => r \notin wrote
    BY DEF IInv, AnswerOK, Before
  <2> QED
    BY <1>1, <1>2, <1>a, <2>1 DEF FilesOK, AnswerOK, Before, Refusal
<1>5. CASE pc[r] \notin Locked
  <2>1. db' = db
    BY <1>1, <1>5, ReleaseFacts
  <2>2. LoginOK'
    BY <1>1, <2>1 DEF IInv, LoginOK, Mine
  <2> QED
    BY <1>2, <1>3, <1>4, <1>5, <2>1, <2>2, QuietKeepsInv DEF Locked
<1>6. CASE pc[r] \in Locked
  <2>1. /\ db'[t].lock = None /\ \A d \in Database \ {t} : db'[d] = db[d]
        /\ db'[t].applied = db[t].applied /\ db'[t].version = db[t].version /\ db'[t].dirty = db[t].dirty
    BY <1>1, <1>6, ReleaseFacts
  <2>2. Mine(r).lock = r /\ (Len(db[t].applied) = db[t].version \/ (db[t].dirty /\ Len(db[t].applied) = db[t].version - 1))
    BY <1>6, HoldsLock DEF Mine
  <2> QED
    BY <1>1, <1>2, <1>3, <1>4, <2>1, <2>2, MigratorKeepsInv DEF Mine, Locked
<1> QED
  BY <1>5, <1>6

(* The operator forces the version that the files on the database justify. *)
LEMMA RepairKeepsInv ==
  ASSUME IInv, NEW d \in Database, Repair(d)
  PROVE  IInv'
<1>0. MigrationTypeOK /\ db \in [Database -> Row] /\ None \notin Run
  BY TypesUnfolded, MigrationAssumption DEF IInv
<1>1. /\ db[d].dirty /\ db[d].lock = None /\ UNCHANGED <<role, pc, facts, answer, wrote>> /\ UNCHANGED others
      /\ db' = [db EXCEPT ![d].version = Len(db[d].applied), ![d].dirty = FALSE]
  BY DEF Repair
<1>2. Len(db[d].applied) \in 0 .. LastFile
  BY <1>0, RowFacts
<1>3. db' \in [Database -> Row]
  BY <1>0, <1>1, <1>2 DEF Row
<1>4. /\ \A e \in Database \ {d} : db'[e] = db[e]
      /\ db'[d].version = Len(db[d].applied) /\ ~db'[d].dirty
      /\ db'[d].applied = db[d].applied /\ db'[d].lock = db[d].lock
  BY <1>0, <1>1, <1>2 DEF Row
<1>5. MigrationTypeOK'
  BY <1>0, <1>1, <1>3, TypesUnfolded DEF MigrationTypeOK, RoleRow, Row, Fact, Files, others
<1>6. \A e \in Database : db'[e].applied = db[e].applied /\ db'[e].lock = db[e].lock
  BY <1>4
<1>7. \A r \in Run : Target[r] \in Database /\ (pc[r] \in Locked => Target[r] # d)
  BY <1>0, <1>1, UserFacts DEF IInv, LockOK, Mine
<1>8. LockOK' /\ LoginOK'
  <2>1. LockOK'
    <3>1. LockOK /\ pc' = pc
      BY <1>1 DEF IInv
    <3>2. ASSUME NEW e \in Database, NEW r \in Run, db'[e].lock = r PROVE Target[r] = e /\ pc'[r] \in Locked
      BY <1>6, <3>1, <3>2 DEF LockOK
    <3>3. ASSUME NEW r \in Run, pc'[r] \in Locked PROVE db'[Target[r]].lock = r
      BY <1>6, <1>7, <3>1, <3>3 DEF LockOK, Mine
    <3> QED
      BY <3>2, <3>3 DEF LockOK, Mine
  <2>2. \A r \in Run : Mine(r)'.applied = Mine(r).applied
    BY <1>6, <1>7 DEF Mine
  <2>3. LoginOK'
    BY <1>1, <2>2 DEF IInv, LoginOK
  <2> QED
    BY <2>1, <2>3
<1>9. HistoryTellsTruth'
  BY <1>4 DEF IInv, HistoryTellsTruth
<1>10. ASSUME NEW r \in Run PROVE FilesOK(r)' /\ AnswerOK(r)'
  <2>3. FilesOK(r) /\ AnswerOK(r) /\ pc' = pc
    BY <1>1 DEF IInv
  <2>1. ASSUME pc[r] \in Locked PROVE FilesOK(r)'
    <3>1. db'[Target[r]] = db[Target[r]]
      BY <1>4, <1>7, <2>1
    <3> QED
      BY <2>3, <3>1 DEF FilesOK, Mine
  <2>2. ASSUME pc[r] \notin Locked PROVE FilesOK(r)'
    <3>1. db'[Target[r]].applied = db[Target[r]].applied
      BY <1>6, <1>7
    <3>2. pc[r] \notin {"mark", "file", "clean", "unlock"}
      BY <2>2 DEF Locked
    <3> QED
      BY <2>3, <3>1, <3>2 DEF FilesOK, Mine
  <2> QED
    BY <1>1, <2>1, <2>2, <2>3 DEF AnswerOK
<1> QED
  BY <1>5, <1>8, <1>9, <1>10 DEF IInv

(* Dropping the role or starting a service changes no history. *)
LEMMA OperatorKeepsInv ==
  ASSUME IInv, DropRole \/ \E s \in Service : Serve(s)
  PROVE  IInv'
<1>0. MigrationTypeOK
  BY DEF IInv
<1>1. UNCHANGED <<db, user, rights, pc, facts, answer, wrote, failures>>
  BY DEF DropRole, Serve
<1>2. role' \in RoleRow /\ (role'.password = role.password \/ role'.password = None)
  <2>1. CASE DropRole
    <3>1. NoRole.password = None
      BY DEF NoRole
    <3> QED
      BY <2>1, <3>1, RowUpdates DEF DropRole
  <2>2. CASE role' = role
    BY <1>0, <2>2, TypesUnfolded
  <2> QED
    BY <2>1, <2>2 DEF Serve
<1>3. givenUp' \subseteq Database /\ serving' \subseteq Service
  <2>1. role.marker # None => role.marker \in Database
    BY <1>0, TypesUnfolded DEF RoleRow
  <2> QED
    BY <1>0, <2>1, TypesUnfolded DEF DropRole, Serve
<1>4. MigrationTypeOK'
  BY <1>0, <1>1, <1>2, <1>3, TypesUnfolded DEF MigrationTypeOK, RoleRow, Row, Fact, Files
<1>5. LoginOK'
  BY <1>1, <1>2 DEF IInv, LoginOK, Mine
<1>6. LockOK' /\ HistoryTellsTruth'
  BY <1>1 DEF IInv, LockOK, HistoryTellsTruth, Mine
<1>7. \A r \in Run : FilesOK(r)' /\ AnswerOK(r)'
  BY <1>1 DEF IInv, FilesOK, AnswerOK, Mine
<1> QED
  BY <1>4, <1>5, <1>6, <1>7 DEF IInv

(* The step of the induction, one case per statement. *)
LEMMA NextKeepsInv == IInv /\ [Next]_vars => IInv'
<1> SUFFICES ASSUME IInv, [Next]_vars PROVE IInv'
  OBVIOUS
<1>1. CASE UNCHANGED vars
  <2>1. MigrationTypeOK' /\ LockOK' /\ HistoryTellsTruth' /\ LoginOK'
    BY <1>1 DEF vars, IInv, MigrationTypeOK, LockOK, HistoryTellsTruth, LoginOK, Mine
  <2>2. \A r \in Run : FilesOK(r)' /\ AnswerOK(r)'
    BY <1>1 DEF vars, IInv, FilesOK, AnswerOK, Mine
  <2> QED
    BY <2>1, <2>2 DEF IInv
<1>2. ASSUME NEW r \in Run, Start(r) \/ RunStep(r) \/ Fail(r) PROVE IInv'
  BY <1>2, PreflightKeepsInv, ClaimKeepsInv, PasswordKeepsInv, OpenKeepsInv, BeginKeepsInv, FileKeepsInv,
     FailKeepsInv DEF RunStep
<1> QED
  BY <1>1, <1>2, RepairKeepsInv, OperatorKeepsInv DEF Next

-----------------------------------------------------------------------------
(* The theorems.                                                           *)

\* The inductive invariant holds of every behaviour.
THEOREM Inductive == Spec => []IInv
BY InitIInv, NextKeepsInv, PTL DEF Spec

\* Types, of every behaviour; a history holds some first files and no others.
THEOREM TypeCorrect == Spec => []MigrationTypeOK
<1>1. IInv => MigrationTypeOK
  BY DEF IInv
<1> QED
  BY <1>1, Inductive, PTL

\* However many runs race, fail and are repaired, schema_migrations tells what
\* its database holds up to the one file it marks dirty.
THEOREM HistoryIsTrue == Spec => []HistoryTellsTruth
<1>1. IInv => HistoryTellsTruth
  BY DEF IInv
<1> QED
  BY <1>1, Inductive, PTL

\* A run that says "no changes applied" has committed none.
THEOREM NothingWasChanged == Spec => []NoChangesTrue
<1>1. IInv => NoChangesTrue
  BY DEF IInv, AnswerOK, NoChangesTrue
<1> QED
  BY <1>1, Inductive, PTL

\* No step takes a file out of a database, or drops its history table.
LEMMA StepGrows ==
  ASSUME IInv, [Next]_vars
  PROVE  DatabasesGrow
<1>0. MigrationTypeOK /\ db \in [Database -> Row]
  BY TypesUnfolded DEF IInv
<1>1. CASE UNCHANGED db
  BY <1>1 DEF DatabasesGrow
<1>2. ASSUME NEW r \in Run, db' = Released(r) PROVE DatabasesGrow
  BY <1>2, ReleaseFacts DEF DatabasesGrow
<1>3. ASSUME NEW d \in Database, Repair(d) PROVE DatabasesGrow
  <2>1. db' = [db EXCEPT ![d].version = Len(db[d].applied), ![d].dirty = FALSE]
    BY <1>3 DEF Repair
  <2>2. /\ \A e \in Database \ {d} : db'[e] = db[e]
        /\ db'[d].applied = db[d].applied /\ db'[d].table = db[d].table
    BY <1>0, <2>1 DEF Row
  <2> QED
    BY <2>2 DEF DatabasesGrow
<1>4. ASSUME NEW r \in Run, RunStep(r) PROVE DatabasesGrow
  <2> DEFINE t == Target[r]
  <2>0. t \in Database
    BY <1>0, UserFacts
  <2>1. CASE OpenMigrator(r)
    <3>1. CASE db' = [db EXCEPT ![t].table = TRUE, ![t].owner = user[r]]
      <4>1. /\ \A e \in Database \ {t} : db'[e] = db[e]
            /\ db'[t].applied = db[t].applied /\ db'[t].table
        BY <1>0, <2>0, <3>1 DEF Row
      <4> QED
        BY <4>1 DEF DatabasesGrow
    <3> QED
      BY <1>1, <2>1, <3>1 DEF OpenMigrator
  <2>2. CASE db' = [db EXCEPT ![t].lock = r]
    BY <1>0, <2>0, <2>2 DEF DatabasesGrow, Row
  <2>3. CASE MarkFile(r)
    <3>1. db' = [db EXCEPT ![t].version = @ + 1, ![t].dirty = TRUE]
      BY <2>3 DEF MarkFile
    <3>2. /\ \A e \in Database \ {t} : db'[e] = db[e]
          /\ db'[t].applied = db[t].applied /\ db'[t].table = db[t].table
      BY <1>0, <2>0, <3>1 DEF Row
    <3> QED
      BY <3>2 DEF DatabasesGrow
  <2>4. CASE RunFile(r)
    <3>1. db[t].applied # AllFiles
      <4>1. pc[r] = "file" /\ pc[r] \in Locked
        BY <2>4 DEF RunFile, Locked
      <4>2. Len(db[t].applied) = db[t].version - 1 /\ db[t].version \in 0 .. LastFile /\ LastFile \in Nat
        BY <4>1, HoldsLock DEF IInv, FilesOK, Mine
      <4> QED
        BY <1>0, <2>0, <4>2, RowFacts
    <3>2. db' = [db EXCEPT ![t].applied = Append(@, db[t].version)]
      BY <2>4 DEF RunFile, Mine
    <3>3. (\A e \in Database \ {t} : db'[e] = db[e]) /\ db'[t].table = db[t].table
      BY <1>0, <2>0, <3>2 DEF Row
    <3> QED
      BY <3>1, <3>3 DEF DatabasesGrow
  <2>5. CASE db' = [db EXCEPT ![t].dirty = FALSE]
    BY <1>0, <2>0, <2>5 DEF DatabasesGrow, Row
  <2>6. CASE CloseMigrator(r)
    BY <1>2, <2>6 DEF CloseMigrator
  <2> QED
    BY <1>1, <1>4, <2>1, <2>2, <2>3, <2>4, <2>5, <2>6
       DEF RunStep, ReadRole, ReadSchema, ReadOwner, PlanMigration, ClaimRole, RereadOwner, BeginUp,
           CleanFile, SetAppRolePassword, ReportVersion
<1> QED
  BY <1>1, <1>2, <1>3, <1>4 DEF Next, vars, Start, Fail, DropRole, Serve

\* The password comes last: where each database has a password of its own, a
\* service that was let in finds every file of its database applied, however
\* the runs raced and wherever they failed, careless operators included.
THEOREM ServicesFindTheirSchema ==
  ASSUME \A s \in Service : Password[s] # None,
         \A r \in Run, s \in Service : Password[r] = Password[s] => Target[r] = Target[s]
  PROVE  Spec => []ServesCompleteSchema
<1>1. Init => ServesCompleteSchema
  BY DEF Init, ServesCompleteSchema
<1>2. IInv /\ ServesCompleteSchema /\ [Next]_vars => ServesCompleteSchema'
  <2> SUFFICES ASSUME IInv, ServesCompleteSchema, [Next]_vars PROVE ServesCompleteSchema'
    OBVIOUS
  <2>1. DatabasesGrow
    BY StepGrows
  <2>2. \A s \in Service : Target[s] \in Database
    BY MigrationAssumption DEF Process
  <2>3. ASSUME NEW s \in serving' PROVE db'[Target[s]].applied = AllFiles
    <3>1. CASE s \in serving
      <4>1. s \in Service
        BY <3>1, TypesUnfolded DEF IInv
      <4> QED
        BY <2>1, <2>2, <3>1, <4>1 DEF ServesCompleteSchema, DatabasesGrow
    <3>2. CASE s \notin serving
      <4>1. s \in Service /\ role.password = Password[s] /\ db' = db
        <5>1. serving' # serving
          BY <2>3, <3>2
        <5>2. ASSUME NEW r \in Run, RunStep(r) PROVE FALSE
          BY <5>1, <5>2 DEF RunStep, ReadRole, ReadSchema, ReadOwner, PlanMigration, ClaimRole, RereadOwner,
               OpenMigrator, BeginUp, MarkFile, RunFile, CleanFile, CloseMigrator, SetAppRolePassword,
               ReportVersion, others
        <5>3. ASSUME NEW r \in Run, Start(r) \/ Fail(r) PROVE FALSE
          BY <5>1, <5>3 DEF Start, Fail, others
        <5>4. ASSUME NEW d \in Database, Repair(d) PROVE FALSE
          BY <5>1, <5>4 DEF Repair, others
        <5>5. ~DropRole /\ ~UNCHANGED vars
          BY <5>1 DEF DropRole, vars
        <5>6. PICK x \in Service : Serve(x)
          BY <5>2, <5>3, <5>4, <5>5 DEF Next
        <5> QED
          BY <2>3, <3>2, <5>6 DEF Serve
      <4>2. PICK r \in Run : role.password = Password[r] /\ Mine(r).applied = AllFiles
        BY <4>1 DEF IInv, LoginOK
      <4> QED
        BY <4>1, <4>2 DEF Mine
    <3> QED
      BY <3>1, <3>2
  <2> QED
    BY <2>3 DEF ServesCompleteSchema
<1> QED
  BY <1>1, <1>2, Inductive, PTL DEF Spec

-----------------------------------------------------------------------------
(* One role, one database.                                                 *)

\* Past the claim.
Past == {"open", "up", "mark", "file", "clean", "unlock", "password", "report"}

\* The role is d's: its marker says so, or it is older than markers and d holds
\* the schema.
Serves(d) == role.exists /\ (role.marker = d \/ (role.marker = None /\ db[d].table))

\* A run is past the claim only in the database that has the role, a history
\* table is that database's or was given up with the role that was dropped, and
\* a given-up database is left alone.
ClusterOK ==
  /\ ~role.exists => role.marker = None
  /\ \A r \in Run : /\ pc[r] \in Past => Serves(Target[r])
                    /\ pc[r] \in Past \ {"open"} => Mine(r).table
                    /\ pc[r] \in Statement => Target[r] \notin givenUp
  /\ \A d \in Database : /\ db[d].table => Serves(d) \/ d \in givenUp
                         /\ db[d].applied # <<>> => db[d].table /\ Serves(d)
  /\ role.exists /\ role.marker = None => \A d, e \in Database : db[d].table /\ db[e].table => d = e

(* On the cluster a run starts from, one database at most has a schema the
   role serves. *)
LEMMA InitClusterOK == Init => ClusterOK
<1> SUFFICES ASSUME Init PROVE ClusterOK
  OBVIOUS
<1>1. PICK demo \in Demo \cup {None}, u \in User, v \in 1 .. LastFile :
       IF demo = None
       THEN role = NoRole /\ db = [d \in Database |-> EmptyDatabase]
       ELSE /\ role = [NewRole(None, u) EXCEPT !.login = TRUE]
            /\ db = [[d \in Database |-> EmptyDatabase] EXCEPT
                       ![demo] = [EmptyDatabase EXCEPT !.table = TRUE, !.version = v,
                                     !.applied = SubSeq(AllFiles, 1, v), !.owner = u]]
  BY DEF Init
<1>2. \A d \in Database : /\ db[d].table <=> (demo # None /\ d = demo)
                          /\ ~db[d].table => db[d].applied = <<>>
  <2>1. ~EmptyDatabase.table /\ EmptyDatabase.applied = <<>>
    BY DEF EmptyDatabase
  <2>2. CASE demo = None
    <3>1. \A d \in Database : db[d] = EmptyDatabase
      BY <1>1, <2>2
    <3> QED
      BY <2>1, <2>2, <3>1
  <2>3. CASE demo # None
    <3> DEFINE x == [EmptyDatabase EXCEPT !.table = TRUE, !.version = v,
                                     !.applied = SubSeq(AllFiles, 1, v), !.owner = u]
    <3>1. x.table
      BY DEF EmptyDatabase
    <3> HIDE DEF x
    <3>2. db = [[d \in Database |-> EmptyDatabase] EXCEPT ![demo] = x]
      BY <1>1, <2>3 DEF x
    <3>3. \A d \in Database : db[d] = IF d = demo THEN x ELSE EmptyDatabase
      BY <2>3, <3>2, MigrationAssumption
    <3> QED
      BY <2>1, <2>3, <3>1, <3>3
  <2> QED
    BY <2>2, <2>3
<1>3. CASE demo = None
  <2>1. ~role.exists /\ role.marker = None
    BY <1>1, <1>3 DEF NoRole
  <2> QED
    BY <1>2, <1>3, <2>1 DEF Init, ClusterOK, Past, Statement
<1>4. CASE demo # None
  <2>1. role.exists /\ role.marker = None
    <3> DEFINE x == NewRole(None, u)
    <3>1. x \in RoleRow /\ x.exists /\ x.marker = None
      BY RowUpdates
    <3>2. role = [x EXCEPT !.login = TRUE]
      BY <1>1, <1>4
    <3> HIDE DEF x
    <3> QED
      BY <3>1, <3>2 DEF RoleRow
  <2> QED
    BY <1>2, <1>4, <2>1 DEF Init, ClusterOK, Past, Statement, Serves
<1> QED
  BY <1>3, <1>4

\* A step that leaves the role with its database, and histories and files alone.
LEMMA SameCluster ==
  ASSUME IInv, ClusterOK, role'.exists = role.exists, role'.marker = role.marker,
         \A d \in Database : db'[d].table = db[d].table /\ db'[d].applied = db[d].applied,
         UNCHANGED givenUp,
         \A q \in Run : /\ pc'[q] \in Past => pc[q] \in Past \/ Serves(Target[q])
                        /\ pc'[q] \in Past \ {"open"} => Mine(q).table
                        /\ pc'[q] \in Statement => pc[q] \in Statement \/ Target[q] \notin givenUp
  PROVE  ClusterOK'
<1>1. \A q \in Run : Target[q] \in Database
  BY UserFacts DEF IInv
<1>2. \A d \in Database : Serves(d)' <=> Serves(d)
  BY DEF Serves
<1>3. \A q \in Run : /\ pc'[q] \in Past => Serves(Target[q])'
                     /\ pc'[q] \in Past \ {"open"} => Mine(q)'.table
                     /\ pc'[q] \in Statement => Target[q] \notin givenUp'
  BY <1>1, <1>2 DEF ClusterOK, Mine
<1>4. \A d \in Database : /\ db'[d].table => Serves(d)' \/ d \in givenUp'
                          /\ db'[d].applied # <<>> => db'[d].table /\ Serves(d)'
  BY <1>2 DEF ClusterOK
<1> QED
  BY <1>3, <1>4 DEF ClusterOK

(* A run takes the role for its database only when the marker, or the absence
   of any other ledger schema, allows it. *)
LEMMA ClaimKeepsCluster ==
  ASSUME IInv, ClusterOK, NEW r \in Run, ClaimRole(r) \/ RereadOwner(r)
  PROVE  ClusterOK'
<1>0. MigrationTypeOK /\ Target[r] \in Database /\ pc \in [Run -> Statement \cup {"idle", "ended"}] /\ user[r] \in User
  BY UserFacts, TypesUnfolded DEF IInv
<1>1. /\ pc[r] \in {"claim", "reread"} /\ pc[r] \in Statement /\ UNCHANGED db /\ UNCHANGED others
      /\ Target[r] \notin givenUp
  BY DEF ClaimRole, RereadOwner, Statement, ClusterOK
<1>2. ASSUME NEW p, pc' = [pc EXCEPT ![r] = p], p \notin Past \/ (p = "open" /\ Serves(Target[r])), UNCHANGED role
      PROVE  ClusterOK'
  <2>1. \A q \in Run : q # r => pc'[q] = pc[q]
    BY <1>0, <1>2
  <2>2. pc'[r] = p
    BY <1>0, <1>2
  <2>3. ASSUME NEW q \in Run
        PROVE  /\ pc'[q] \in Past => pc[q] \in Past \/ Serves(Target[q])
               /\ pc'[q] \in Past \ {"open"} => Mine(q).table
               /\ pc'[q] \in Statement => pc[q] \in Statement \/ Target[q] \notin givenUp
    BY <1>1, <1>2, <2>1, <2>2 DEF ClusterOK
  <2> QED
    BY <1>1, <1>2, <2>3, SameCluster DEF others
<1>3. ASSUME ~role.exists, role' = NewRole(Target[r], user[r]), pc' = [pc EXCEPT ![r] = "open"]
      PROVE  ClusterOK'
  <2>1. role'.exists /\ role'.marker = Target[r] /\ role'.marker # None
    BY <1>0, <1>3, RowUpdates, MigrationAssumption
  <2>2. \A d \in Database : ~Serves(d) /\ (d = Target[r] => Serves(d)')
    BY <1>3, <2>1 DEF Serves
  <2>3. \A q \in Run : pc[q] \notin Past /\ (q # r => pc'[q] = pc[q]) /\ pc'[r] = "open"
    BY <1>0, <1>3, <2>2, UserFacts DEF ClusterOK
  <2>4. \A d \in Database : db[d].applied = <<>> /\ (db[d].table => d \in givenUp)
    BY <2>2 DEF ClusterOK
  <2>5. \A q \in Run : /\ pc'[q] \in Past => Serves(Target[q])'
                       /\ pc'[q] \in Past \ {"open"} => Mine(q)'.table
                       /\ pc'[q] \in Statement => Target[q] \notin givenUp'
    BY <1>0, <1>1, <2>2, <2>3 DEF ClusterOK, others
  <2> QED
    BY <1>1, <2>1, <2>4, <2>5 DEF ClusterOK, others
<1>4. After("claim") = "open" /\ "ended" \notin Past /\ "reread" \notin Past
  BY PlanOrder DEF Past
<1>5. CASE ClaimRole(r)
  BY <1>2, <1>3, <1>4, <1>5 DEF ClaimRole, Ends, Goto
<1>6. CASE RereadOwner(r)
  <2>1. ASSUME role.exists, ClusterRule(Target[r], TRUE, role.marker, Mine(r).table) PROVE Serves(Target[r])
    BY <1>0, <1>1, <2>1 DEF ClusterRule, ClusterOK, Serves, Mine
  <2> QED
    BY <1>2, <1>4, <1>6, <2>1 DEF RereadOwner, Ends, Goto
<1> QED
  BY <1>5, <1>6

\* The migrator's first two statements that matter to the cluster.
LEMMA OpenKeepsCluster ==
  ASSUME IInv, ClusterOK, NEW r \in Run, OpenMigrator(r)
  PROVE  ClusterOK'
<1> DEFINE t == Target[r]
<1>0. /\ MigrationTypeOK /\ t \in Database /\ pc \in [Run -> Statement \cup {"idle", "ended"}]
      /\ db \in [Database -> Row]
  BY UserFacts, TypesUnfolded DEF IInv
<1>1. pc[r] = "open" /\ Serves(t) /\ pc' = [pc EXCEPT ![r] = "up"] /\ UNCHANGED role /\ UNCHANGED others
  BY DEF OpenMigrator, ClusterOK, Past, Goto
<1>2. \A q \in Run : (q # r => pc'[q] = pc[q]) /\ pc'[r] = "up"
  BY <1>0, <1>1
<1>3. /\ \A d \in Database \ {t} : db'[d] = db[d]
      /\ db'[t].table /\ db'[t].applied = db[t].applied
      /\ role.marker = None => db[t].table
  <2>1. CASE db[t].table /\ UNCHANGED db
    BY <2>1
  <2>2. CASE db' = [db EXCEPT ![Target[r]].table = TRUE, ![Target[r]].owner = user[r]]
    <3>1. (\A d \in Database \ {t} : db'[d] = db[d]) /\ db'[t].table /\ db'[t].applied = db[t].applied
      BY <1>0, <2>2 DEF Row
    <3>2. role.marker = None => db[t].table
      BY <1>0, <1>1, MigrationAssumption DEF Serves
    <3> QED
      BY <3>1, <3>2
  <2> QED
    BY <2>1, <2>2 DEF OpenMigrator, Mine
<1>4. \A d \in Database : Serves(d) => Serves(d)'
  BY <1>1, <1>3 DEF Serves
<1>5. \A q \in Run : Target[q] \in Database
  BY <1>0, UserFacts
<1>6. \A q \in Run : /\ pc'[q] \in Past => Serves(Target[q])'
                     /\ pc'[q] \in Past \ {"open"} => Mine(q)'.table
                     /\ pc'[q] \in Statement => Target[q] \notin givenUp'
  <2>1. ASSUME NEW q \in Run, q # r
        PROVE  /\ pc'[q] \in Past => Serves(Target[q])'
               /\ pc'[q] \in Past \ {"open"} => Mine(q)'.table
               /\ pc'[q] \in Statement => Target[q] \notin givenUp'
    BY <1>1, <1>2, <1>3, <1>4, <1>5, <2>1 DEF ClusterOK, others, Mine
  <2>2. Serves(Target[r])' /\ Mine(r)'.table /\ Target[r] \notin givenUp'
    <3>1. Target[r] \notin givenUp
      BY <1>1 DEF ClusterOK, Statement
    <3> QED
      BY <1>0, <1>1, <1>3, <1>4, <3>1 DEF Mine, others
  <2> QED
    BY <2>1, <2>2
<1>7. \A d \in Database : /\ db'[d].table => Serves(d)' \/ d \in givenUp'
                          /\ db'[d].applied # <<>> => db'[d].table /\ Serves(d)'
  BY <1>1, <1>3, <1>4 DEF ClusterOK, others
<1>8. role.exists /\ role.marker = None => \A d, e \in Database : db'[d].table /\ db'[e].table => d = e
  BY <1>3 DEF ClusterOK
<1> QED
  BY <1>1, <1>6, <1>7, <1>8 DEF ClusterOK

(* A file runs only on the database that the role has been claimed for. *)
LEMMA FileKeepsCluster ==
  ASSUME IInv, ClusterOK, NEW r \in Run, RunFile(r)
  PROVE  ClusterOK'
<1> DEFINE t == Target[r]
<1>0. /\ MigrationTypeOK /\ t \in Database /\ pc \in [Run -> Statement \cup {"idle", "ended"}]
      /\ db \in [Database -> Row]
  BY UserFacts, TypesUnfolded DEF IInv
<1>1. pc[r] = "file" /\ Serves(t) /\ db[t].table /\ pc' = [pc EXCEPT ![r] = "clean"] /\ UNCHANGED others
  BY DEF RunFile, ClusterOK, Past, Goto, Mine
<1>2. UNCHANGED role
  BY <1>1 DEF RunFile, Serves
<1>3. \A q \in Run : (q # r => pc'[q] = pc[q]) /\ pc'[r] = "clean"
  BY <1>0, <1>1
<1>4. (\A d \in Database \ {t} : db'[d] = db[d]) /\ db'[t].table = db[t].table
  <2>1. db' = [db EXCEPT ![Target[r]].applied = Append(@, Mine(r).version)]
    BY DEF RunFile
  <2> QED
    BY <1>0, <2>1 DEF Row
<1>5. \A d \in Database : (Serves(d)' <=> Serves(d)) /\ db'[d].table = db[d].table
  BY <1>2, <1>4 DEF Serves
<1>6. \A q \in Run : Target[q] \in Database
  BY <1>0, UserFacts
<1>7. ASSUME NEW q \in Run
      PROVE  /\ pc'[q] \in Past => Serves(Target[q])'
             /\ pc'[q] \in Past \ {"open"} => Mine(q)'.table
             /\ pc'[q] \in Statement => Target[q] \notin givenUp'
  <2>1. CASE q = r
    <3>1. Target[r] \notin givenUp
      BY <1>1 DEF ClusterOK, Statement
    <3> QED
      BY <1>0, <1>1, <1>5, <2>1, <3>1 DEF Mine, others
  <2>2. CASE q # r
    BY <1>1, <1>3, <1>5, <1>6, <2>2 DEF ClusterOK, others, Mine
  <2> QED
    BY <2>1, <2>2
<1>8. \A d \in Database : /\ db'[d].table => Serves(d)' \/ d \in givenUp'
                          /\ db'[d].applied # <<>> => db'[d].table /\ Serves(d)'
  BY <1>1, <1>4, <1>5 DEF ClusterOK, others
<1> QED
  BY <1>2, <1>5, <1>7, <1>8 DEF ClusterOK

\* A careful operator drops the role when nobody migrates its database, and
\* gives that one up.
LEMMA DropKeepsCluster ==
  ASSUME IInv, ClusterOK, Careless = FALSE, DropRole
  PROVE  ClusterOK'
<1>0. None \notin Database /\ \A q \in Run : Target[q] \in Database
  BY MigrationAssumption, UserFacts DEF IInv
<1>1. /\ role.exists /\ role.marker # None /\ (\A d \in Database : db[d].applied = <<>>)
      /\ (\A r \in Run : Target[r] = role.marker => pc[r] \notin Statement)
      /\ role' = NoRole /\ givenUp' = givenUp \cup {role.marker} /\ UNCHANGED <<db, pc>>
  BY DEF DropRole, InProgress
<1>2. ~role'.exists /\ role'.marker = None
  BY <1>1 DEF NoRole
<1>3. \A d \in Database : Serves(d) => d = role.marker
  BY <1>1 DEF Serves
<1>4. \A q \in Run : pc'[q] \notin Past /\ (pc'[q] \in Statement => Target[q] \notin givenUp')
  <2>1. Past \subseteq Statement
    BY DEF Past, Statement
  <2> QED
    BY <1>0, <1>1, <1>3, <2>1 DEF ClusterOK
<1>5. \A d \in Database : db'[d].table => d \in givenUp'
  BY <1>1, <1>3 DEF ClusterOK
<1> QED
  BY <1>1, <1>2, <1>4, <1>5 DEF ClusterOK

(* The step of the induction, with an operator who drops no role in use. *)
LEMMA NextKeepsCluster == Careless = FALSE /\ IInv /\ ClusterOK /\ [Next]_vars => ClusterOK'
<1> SUFFICES ASSUME Careless = FALSE, IInv, ClusterOK, [Next]_vars PROVE ClusterOK'
  OBVIOUS
<1>0. /\ MigrationTypeOK /\ pc \in [Run -> Statement \cup {"idle", "ended"}] /\ db \in [Database -> Row]
      /\ role \in RoleRow
  BY TypesUnfolded DEF IInv
<1>1. ASSUME NEW r \in Run, NEW p, pc' = [pc EXCEPT ![r] = p], UNCHANGED givenUp,
             role'.exists = role.exists, role'.marker = role.marker,
             \A d \in Database : db'[d].table = db[d].table /\ db'[d].applied = db[d].applied,
             p \in Past => pc[r] \in Past /\ (p # "open" => pc[r] # "open"),
             p \in Statement => pc[r] \in Statement \/ Target[r] \notin givenUp
      PROVE  ClusterOK'
  <2>1. pc'[r] = p /\ \A q \in Run : q # r => pc'[q] = pc[q]
    BY <1>0, <1>1
  <2>2. ASSUME NEW q \in Run
        PROVE  /\ pc'[q] \in Past => pc[q] \in Past \/ Serves(Target[q])
               /\ pc'[q] \in Past \ {"open"} => Mine(q).table
               /\ pc'[q] \in Statement => pc[q] \in Statement \/ Target[q] \notin givenUp
    BY <1>1, <2>1 DEF ClusterOK
  <2> QED
    BY <1>1, <2>2, SameCluster
<1>2. ASSUME UNCHANGED <<role, pc, givenUp>>,
             \A d \in Database : db'[d].table = db[d].table /\ db'[d].applied = db[d].applied
      PROVE  ClusterOK'
  <2>1. \A q \in Run : /\ pc'[q] \in Past => pc[q] \in Past \/ Serves(Target[q])
                       /\ pc'[q] \in Past \ {"open"} => Mine(q).table
                       /\ pc'[q] \in Statement => pc[q] \in Statement \/ Target[q] \notin givenUp
    BY <1>2 DEF ClusterOK
  <2> QED
    BY <1>2, <2>1, SameCluster
<1>3. ASSUME NEW r \in Run, Start(r) \/ ReadRole(r) \/ ReadSchema(r) \/ ReadOwner(r) \/ PlanMigration(r)
      PROVE  ClusterOK'
  <2>1. UNCHANGED <<role, db, givenUp>>
    BY <1>3 DEF Start, ReadRole, ReadSchema, ReadOwner, PlanMigration, others
  <2>2. \E p \in {"role", "schema", "owner", "version", "claim", "ended"} : pc' = [pc EXCEPT ![r] = p]
    BY <1>3, PlanOrder DEF Start, ReadRole, ReadSchema, ReadOwner, PlanMigration, Ends, Goto
  <2>3. pc[r] \in Statement \/ Target[r] \notin givenUp
    BY <1>3 DEF Start, ReadRole, ReadSchema, ReadOwner, PlanMigration, Statement
  <2> QED
    BY <1>1, <2>1, <2>2, <2>3 DEF Past
<1>4. ASSUME NEW r \in Run, BeginUp(r) \/ MarkFile(r) \/ CleanFile(r) \/ CloseMigrator(r)
      PROVE  ClusterOK'
  <2> DEFINE t == Target[r]
  <2>0. t \in Database
    BY <1>0, UserFacts
  <2>1. UNCHANGED <<role, givenUp>> /\ pc[r] \in {"up", "mark", "clean", "unlock"}
    BY <1>4 DEF BeginUp, MarkFile, CleanFile, CloseMigrator, others
  <2>2. \E p \in {"ended", "password", "mark", "file", "unlock"} : pc' = [pc EXCEPT ![r] = p]
    BY <1>4, PlanOrder DEF BeginUp, MarkFile, CleanFile, CloseMigrator, Ends, Goto
  <2>3. \A d \in Database : db'[d].table = db[d].table /\ db'[d].applied = db[d].applied
    <3>1. CASE UNCHANGED db
      BY <3>1
    <3>2. CASE db' = [db EXCEPT ![t].lock = r]
      BY <1>0, <2>0, <3>2 DEF Row
    <3>3. CASE db' = [db EXCEPT ![t].version = @ + 1, ![t].dirty = TRUE]
      BY <1>0, <2>0, <3>3 DEF Row
    <3>4. CASE db' = [db EXCEPT ![t].dirty = FALSE]
      BY <1>0, <2>0, <3>4 DEF Row
    <3>5. CASE db' = Released(r)
      BY <3>5, ReleaseFacts
    <3> QED
      BY <1>4, <3>1, <3>2, <3>3, <3>4, <3>5 DEF BeginUp, MarkFile, CleanFile, CloseMigrator
  <2> QED
    BY <1>1, <2>1, <2>2, <2>3 DEF Past, Statement
<1>5. ASSUME NEW r \in Run, SetAppRolePassword(r) \/ ReportVersion(r) \/ Fail(r)
      PROVE  ClusterOK'
  <2>1. UNCHANGED givenUp /\ pc[r] \in Statement
    BY <1>5 DEF SetAppRolePassword, ReportVersion, Fail, InProgress, others, Statement
  <2>2. role'.exists = role.exists /\ role'.marker = role.marker
    <3>1. CASE role' = [role EXCEPT !.login = TRUE, !.password = Password[r]]
      BY <1>0, <3>1 DEF RoleRow
    <3> QED
      BY <1>5, <3>1 DEF SetAppRolePassword, ReportVersion, Fail
  <2>3. \A d \in Database : db'[d].table = db[d].table /\ db'[d].applied = db[d].applied
    <3>1. db' = db \/ db' = Released(r)
      BY <1>5 DEF SetAppRolePassword, ReportVersion, Fail
    <3> QED
      BY <3>1, ReleaseFacts
  <2>4. \/ pc' = [pc EXCEPT ![r] = "ended"]
        \/ pc' = [pc EXCEPT ![r] = "report"] /\ pc[r] = "password"
    BY <1>5, PlanOrder DEF SetAppRolePassword, ReportVersion, Fail, Ends, Goto
  <2>5. CASE pc' = [pc EXCEPT ![r] = "ended"]
    BY <1>1, <2>1, <2>2, <2>3, <2>5 DEF Past, Statement
  <2>6. CASE pc' = [pc EXCEPT ![r] = "report"] /\ pc[r] = "password"
    BY <1>1, <2>1, <2>2, <2>3, <2>6 DEF Past, Statement
  <2> QED
    BY <2>4, <2>5, <2>6
<1>6. ASSUME NEW d \in Database, Repair(d) PROVE ClusterOK'
  <2>1. db' = [db EXCEPT ![d].version = Len(db[d].applied), ![d].dirty = FALSE] /\ UNCHANGED <<role, pc, givenUp>>
    BY <1>6 DEF Repair, others
  <2>2. \A e \in Database : db'[e].table = db[e].table /\ db'[e].applied = db[e].applied
    BY <1>0, <2>1 DEF Row
  <2> QED
    BY <1>2, <2>1, <2>2
<1>7. CASE UNCHANGED vars \/ \E s \in Service : Serve(s)
  BY <1>2, <1>7 DEF vars, Serve
<1> QED
  BY <1>3, <1>4, <1>5, <1>6, <1>7, ClaimKeepsCluster, OpenKeepsCluster, FileKeepsCluster, DropKeepsCluster
     DEF Next, RunStep

\* DDD-41: as long as nobody drops the role of a database that is being, or
\* will be, migrated, one database of the cluster at most receives ledger files,
\* and a marker names that one; for any number of databases and runs.
THEOREM RoleServesOneDatabase ==
  ASSUME Careless = FALSE
  PROVE  Spec => []OneDatabase
<1>1. Spec => []ClusterOK
  BY InitClusterOK, NextKeepsCluster, Inductive, PTL DEF Spec
<1>2. ClusterOK => OneDatabase
  <2> SUFFICES ASSUME ClusterOK PROVE OneDatabase
    OBVIOUS
  <2> DEFINE holding == {d \in Database : db[d].applied # <<>>}
  <2>1. \A d \in holding : db[d].table /\ role.exists /\ (role.marker = d \/ role.marker = None)
    BY DEF ClusterOK, Serves
  <2>2. \A d, e \in holding : d = e
    <3>1. \A d, e \in Database : role.exists /\ role.marker = None /\ db[d].table /\ db[e].table => d = e
      BY DEF ClusterOK
    <3> QED
      BY <2>1, <3>1
  <2>3. Cardinality(holding) <= 1
    <3>1. CASE holding = {}
      <4>1. Cardinality(holding) = 0
        BY <3>1, FS_EmptySet, Zenon
      <4> QED
        BY <4>1
    <3>2. CASE holding # {}
      <4>1. PICK d \in holding : TRUE
        BY <3>2
      <4>2. holding = {d}
        BY <2>2, <4>1
      <4>3. Cardinality({d}) = 1
        BY FS_Singleton, Zenon
      <4>4. Cardinality(holding) = 1
        BY <4>2, <4>3, Zenon
      <4> QED
        BY <4>4
    <3> QED
      BY <3>1, <3>2
  <2>4. role.marker # None => holding \subseteq {role.marker}
    BY <2>1
  <2> QED
    BY <2>3, <2>4 DEF OneDatabase
<1> QED
  BY <1>1, <1>2, PTL
=============================================================================
