--------------------------- MODULE StartUpProofs ----------------------------
(* Migrations and the transfer, for any number of backends, migrations and  *)
(* users.                                                                  *)
EXTENDS StartUp, TLAPS

----------------------------------------------------------------------------
\* The inductive invariants.

Beyond == Migrated \cup {"serving"}

MigrationTypes ==
    /\ pc \in [Backends -> {"stopped", "failed"} \cup Starting \cup {"serving"}]
    /\ version \in [Backends -> Nat]
    /\ applied \in Seq(Nat)
    /\ migrating \in Backends \cup {Nobody}

\* A backend between the migrations has the lock.
Between == {"migrating", "creating", "applied"}

LockInv == \A b \in Backends : pc[b] \in Between => migrating = b

\* What is recorded are the migrations committed so far; the holder of the
\* lock has looked at all before its version, and who is beyond has seen all
\* of them recorded.
ProgressInv ==
    /\ \A i \in 1 .. Len(applied) : applied[i] = i
    /\ Len(applied) <= Versions
    /\ recorded = 1 .. Len(applied) /\ recorded \subseteq schema
    /\ \A b \in Backends :
          /\ pc[b] \in Between => version[b] \in 1 .. (Len(applied) + 1)
          /\ pc[b] \in HasUsers => version[b] = Len(applied) + 1 /\ version[b] <= Versions
          /\ pc[b] \in Beyond => Len(applied) = Versions

MigrationInv == MigrationTypes /\ LockInv /\ ProgressInv

\* Nothing is recorded and nobody has started.
LEMMA MigrationInit == StartUpInit => MigrationInv
  BY StartUpAssumption DEF StartUpInit, MigrationInv, MigrationTypes, LockInv, ProgressInv,
     Beyond, Starting, Migrated, Between, HasUsers

\* A step that leaves the record alone and moves one backend.
LEMMA MovesKeepMigrations ==
    ASSUME MigrationInv, UNCHANGED database, UNCHANGED version,
           NEW b \in Backends, NEW to \in {"stopped", "failed"} \cup Starting \cup {"serving"},
           pc' = [pc EXCEPT ![b] = to],
           to \notin Between,
           to \in Beyond => pc[b] \in Beyond,
           migrating' = migrating \/ (migrating = b /\ migrating' = Nobody)
    PROVE  MigrationInv'
  <1> USE DEF Between, HasUsers
  <1>1. MigrationTypes'
    BY DEF MigrationInv, MigrationTypes, database
  <1>2. LockInv'
    BY DEF MigrationInv, MigrationTypes, LockInv
  <1>3. ProgressInv'
    BY DEF MigrationInv, MigrationTypes, ProgressInv, database
  <1>4. QED
    BY <1>1, <1>2, <1>3 DEF MigrationInv

\* Only CommitMigration, by the holder of the lock, adds to the record.
LEMMA MigrationStep == MigrationInv /\ [StartUpNext]_vars => MigrationInv'
  <1> SUFFICES ASSUME MigrationInv, [StartUpNext]_vars PROVE MigrationInv'
    OBVIOUS
  <1> USE DEF MigrationInv, Between, HasUsers
  <1>1. ASSUME NEW b \in Backends, LockMigrations(b) PROVE MigrationInv'
    <2>1. MigrationTypes'
      BY <1>1 DEF LockMigrations, Goes, MigrationTypes, Starting, Migrated, database
    <2>2. LockInv'
      BY <1>1, StartUpAssumption DEF LockMigrations, Goes, MigrationTypes, LockInv
    <2>3. ProgressInv'
      BY <1>1 DEF LockMigrations, Goes, MigrationTypes, ProgressInv, Beyond, Migrated, database
    <2>4. QED
      BY <2>1, <2>2, <2>3
  <1>2. ASSUME NEW b \in Backends, SkipMigration(b) PROVE MigrationInv'
    <2>1. MigrationTypes' /\ LockInv'
      BY <1>2 DEF SkipMigration, MigrationTypes, LockInv, database
    <2>2. ProgressInv'
      BY <1>2 DEF SkipMigration, Applies, MigrationTypes, ProgressInv, Beyond, Migrated, database
    <2>3. QED
      BY <2>1, <2>2
  <1>3. ASSUME NEW b \in Backends, RunMigration(b) \/ FinishMigration(b) PROVE MigrationInv'
    <2>1. MigrationTypes' /\ LockInv'
      BY <1>3 DEF RunMigration, FinishMigration, Goes, MigrationTypes, LockInv, Starting, Migrated, database
    <2>2. CASE RunMigration(b)
      <3>1. ProgressInv'
        BY <2>2 DEF RunMigration, Goes, Applies, MigrationTypes, ProgressInv, Beyond, Migrated,
           database
      <3>2. QED
        BY <2>1, <3>1
    <2>3. CASE FinishMigration(b)
      <3>1. ProgressInv'
        BY <2>3 DEF FinishMigration, Goes, MigrationTypes, ProgressInv, Beyond, Migrated, database
      <3>2. QED
        BY <2>1, <3>1
    <2>4. QED
      BY <1>3, <2>2, <2>3
  <1>4. ASSUME NEW b \in Backends, CommitMigration(b) PROVE MigrationInv'
    <2>1. version[b] = Len(applied) + 1 /\ version[b] <= Versions /\ migrating = b
      BY <1>4 DEF CommitMigration, Goes, ProgressInv, LockInv
    <2>2. applied' \in Seq(Nat) /\ Len(applied') = Len(applied) + 1
      BY <1>4 DEF CommitMigration, MigrationTypes
    <2>3. \A i \in 1 .. Len(applied') : applied'[i] = i
      BY <1>4, <2>1, <2>2 DEF CommitMigration, MigrationTypes, ProgressInv
    <2>4. MigrationTypes' /\ LockInv'
      BY <1>4, <2>2 DEF CommitMigration, Goes, MigrationTypes, LockInv, Starting, Migrated
    <2>5. recorded' = 1 .. Len(applied') /\ recorded' \subseteq schema'
      BY <1>4, <2>1, <2>2 DEF CommitMigration, MigrationTypes, ProgressInv
    <2>6. ASSUME NEW c \in Backends
          PROVE  /\ pc'[c] \in Between => version'[c] \in 1 .. (Len(applied') + 1)
                 /\ pc'[c] \in HasUsers => version'[c] = Len(applied') + 1 /\ version'[c] <= Versions
                 /\ pc'[c] \in Beyond => Len(applied') = Versions
      <3>1. CASE c = b
        BY <3>1, <1>4, <2>1, <2>2 DEF CommitMigration, Goes, MigrationTypes, Beyond, Migrated
      <3>2. CASE c # b
        <4>1. pc'[c] = pc[c] /\ pc[c] \notin Between
          BY <3>2, <1>4, <2>1 DEF CommitMigration, Goes, MigrationTypes, LockInv
        <4>2. pc[c] \notin Beyond
          BY <2>1, StartUpAssumption DEF ProgressInv, MigrationTypes
        <4>3. QED
          BY <4>1, <4>2
      <3>3. QED
        BY <3>1, <3>2
    <2>7. ProgressInv'
      BY <2>1, <2>2, <2>3, <2>5, <2>6 DEF ProgressInv
    <2>8. QED
      BY <2>4, <2>7
  <1>5. ASSUME NEW b \in Backends, UnlockMigrations(b) PROVE MigrationInv'
    <2>1. MigrationTypes'
      BY <1>5 DEF UnlockMigrations, Goes, MigrationTypes, Starting, Migrated, database
    <2>2. LockInv'
      BY <1>5 DEF UnlockMigrations, Goes, MigrationTypes, LockInv
    <2>3. Len(applied) = Versions
      BY <1>5, StartUpAssumption DEF UnlockMigrations, Goes, MigrationTypes, ProgressInv
    <2>4. ProgressInv'
      BY <1>5, <2>3 DEF UnlockMigrations, Goes, MigrationTypes, ProgressInv, database
    <2>5. QED
      BY <2>1, <2>2, <2>4
  <1>6. ASSUME NEW b \in Backends, Begin(b) PROVE MigrationInv'
    BY <1>6, MovesKeepMigrations DEF Begin, Starting, Migrated, Beyond
  <1>7. ASSUME NEW b \in Backends,
               \/ SeedProblem(b) \/ SeedTests(b) \/ CommitSeeds(b) \/ EnsureAdmin(b)
               \/ OpenSubmissions(b) \/ OpenAuth(b)
        PROVE  MigrationInv'
    <2>1. CASE SeedProblem(b)
      <3>1. pc[b] = "seeding" /\ UNCHANGED <<database, version, migrating>>
        BY <2>1 DEF SeedProblem, Goes
      <3>2. \E to \in {"tests", "committing"} : pc' = [pc EXCEPT ![b] = to]
        BY <2>1 DEF SeedProblem, Goes
      <3>3. QED
        BY <3>1, <3>2, MovesKeepMigrations DEF Starting, Migrated, Beyond
    <2>2. CASE SeedTests(b)
      BY <2>2, MovesKeepMigrations DEF SeedTests, Goes, Starting, Migrated, Beyond
    <2>3. CASE CommitSeeds(b)
      BY <2>3, MovesKeepMigrations DEF CommitSeeds, Goes, Starting, Migrated, Beyond
    <2>4. CASE EnsureAdmin(b)
      BY <2>4, MovesKeepMigrations DEF EnsureAdmin, Goes, Starting, Migrated, Beyond
    <2>5. CASE OpenSubmissions(b) \/ OpenAuth(b)
      <3>1. pc[b] \in {"opening", "auth"} /\ UNCHANGED <<database, version, migrating>>
        BY <2>5 DEF OpenSubmissions, OpenAuth, Probes, Goes
      <3>2. \E to \in {"seeding", "admin", "failed"} : pc' = [pc EXCEPT ![b] = to]
        BY <2>5 DEF OpenSubmissions, OpenAuth, Probes, Goes
      <3>3. QED
        BY <3>1, <3>2, MovesKeepMigrations DEF Starting, Migrated, Beyond
    <2>6. QED
      BY <1>7, <2>1, <2>2, <2>3, <2>4, <2>5
  <1>8. ASSUME NEW b \in Backends, FailStart(b) \/ Crash(b) PROVE MigrationInv'
    BY <1>8, MovesKeepMigrations DEF FailStart, Crash, Stops, Beyond, Migrated
  <1>9. CASE DeadlockVictim
    <2> PICK b \in Backends : (UNCHANGED <<pc, migrating>> \/ Stops(b, "failed"))
      BY <1>9 DEF DeadlockVictim
    <2>1. CASE UNCHANGED <<pc, migrating>>
      BY <1>9, <2>1 DEF DeadlockVictim, MigrationTypes, LockInv, ProgressInv, database
    <2>2. CASE Stops(b, "failed")
      BY <1>9, <2>2, MovesKeepMigrations DEF DeadlockVictim, Stops, Beyond, Migrated
    <2>3. QED
      BY <2>1, <2>2
  <1>10. CASE Psql
    BY <1>10 DEF Psql, MigrationTypes, LockInv, ProgressInv
  <1>11. CASE UNCHANGED <<database, migrating, pc, version>>
    BY <1>11 DEF MigrationTypes, LockInv, ProgressInv, database
  <1>12. ASSUME NEW b \in Backends, Register(b) PROVE MigrationInv'
    BY <1>12, <1>11 DEF Register
  <1>13. CASE \/ LockTests \/ LockRest \/ CheckEmpty \/ Copy \/ RepairSequences
              \/ CommitTransfer \/ TransferFails
    BY <1>11, <1>13 DEF LockTests, LockRest, CheckEmpty, Copy, RepairSequences, CommitTransfer,
       TransferFails, backends
  <1>14. CASE UNCHANGED vars
    BY <1>11, <1>14 DEF vars
  <1>15. QED
    BY <1>1, <1>2, <1>3, <1>4, <1>5, <1>6, <1>7, <1>8, <1>9, <1>10, <1>12, <1>13, <1>14
       DEF StartUpNext, Step, Transfer

\* Migrations are committed once each and in order by any number of backends
\* that start, fail and die at any step, and who serves or seeds has all of
\* them (apply_migrations and its advisory lock).
THEOREM MigrationsAreOrdered == StartUpSpec => []MigratedOnceInOrder
  <1>1. MigrationInv => MigratedOnceInOrder
    <2> SUFFICES ASSUME MigrationInv PROVE MigratedOnceInOrder
      OBVIOUS
    <2>1. DOMAIN applied = 1 .. Len(applied)
      BY DEF MigrationInv, MigrationTypes
    <2>2. recorded = {applied[i] : i \in DOMAIN applied}
      BY <2>1 DEF MigrationInv, ProgressInv
    <2>3. QED
      BY <2>1, <2>2 DEF MigrationInv, ProgressInv, MigratedOnceInOrder, Beyond
  <1>2. QED
    BY <1>1, MigrationInit, MigrationStep, PTL DEF StartUpSpec

----------------------------------------------------------------------------
\* The transfer.

Alone == {"checking", "copying", "copied", "repaired"}

\* While the transfer has its locks no backend is in the middle of seeding.
QuietInv == tool \in Alone => \A b \in Backends : pc[b] \notin HasProblems

\* Between the check and COMMIT the tables are empty; setval has put the
\* identity column at the last id of the source before the rows are visible.
ContentInv ==
    /\ user_seq \in Nat
    /\ users \subseteq [id : Nat, from : {"copy", "backend"}]
    /\ \A u \in users : u.id <= user_seq
    /\ \A u, v \in users : u.id = v.id => u = v
    /\ \A p, q \in problems : p.id = q.id => p = q
    /\ tool \in {"copying", "copied", "repaired"} => users = {} /\ problems = {}
    /\ tool = "repaired" => user_seq = LastId(SourceUsers)
    /\ tool # "done" =>
          /\ \A u \in users : u.from # "copy"
          /\ \A p \in problems : p.from # "copy"
    /\ tool = "done" =>
          /\ Copied(users) = SourceUsers /\ Copied(problems) = SourceProblems
          /\ user_seq >= LastId(SourceUsers)
          /\ \A u \in users : u.from # "copy" => u.id > LastId(SourceUsers)

\* No id of the source is larger than setval's argument.
LEMMA LastOfSource ==
    LastId(SourceUsers) \in Nat /\ \A i \in SourceUsers : i \in Nat /\ i <= LastId(SourceUsers)
  <1>1. SourceUsers \subseteq Nat
    BY StartUpAssumption
  <1>2. CASE SourceUsers = {}
    BY <1>2 DEF LastId
  <1>3. CASE SourceUsers # {}
    <2>1. \E last \in SourceUsers : \A i \in SourceUsers : last >= i
      BY <1>3, StartUpAssumption
    <2>2. Max(SourceUsers) \in SourceUsers /\ \A i \in SourceUsers : Max(SourceUsers) >= i
      BY <2>1 DEF Max
    <2>3. QED
      BY <1>1, <1>3, <2>2 DEF LastId
  <1>4. QED
    BY <1>2, <1>3

\* Seeding cannot begin against the locks, and the locks wait for its end.
LEMMA QuietStep ==
    MigrationTypes /\ QuietInv /\ [StartUpNext]_vars => QuietInv'
  <1> SUFFICES ASSUME MigrationTypes, QuietInv, [StartUpNext]_vars PROVE QuietInv'
    OBVIOUS
  <1> USE DEF MigrationTypes, QuietInv, Alone, HasProblems
  <1>1. ASSUME NEW b \in Backends, NEW to, tool' = tool, pc' = [pc EXCEPT ![b] = to],
               to \notin {"tests", "committing"}
        PROVE  QuietInv'
    BY <1>1
  <1>2. ASSUME NEW b \in Backends, Begin(b) \/ Step(b) \/ Register(b) \/ FailStart(b) \/ Crash(b)
        PROVE  QuietInv'
    <2>1. CASE SeedProblem(b)
      BY <2>1 DEF SeedProblem, Locked
    <2>2. CASE SeedTests(b)
      BY <2>2 DEF SeedTests, Goes
    <2>3. CASE SkipMigration(b) \/ Register(b)
      BY <2>3 DEF SkipMigration, Register
    <2>4. CASE \/ LockMigrations(b) \/ RunMigration(b) \/ FinishMigration(b)
               \/ CommitMigration(b) \/ UnlockMigrations(b)
      BY <2>4, <1>1 DEF LockMigrations, RunMigration, FinishMigration, CommitMigration,
         UnlockMigrations, Goes
    <2>5. CASE CommitSeeds(b) \/ EnsureAdmin(b)
      BY <2>5, <1>1 DEF CommitSeeds, EnsureAdmin, Goes
    <2>6. CASE Begin(b) \/ FailStart(b) \/ Crash(b)
      BY <2>6, <1>1 DEF Begin, FailStart, Crash, Stops
    <2>7. CASE OpenSubmissions(b) \/ OpenAuth(b)
      <3>1. \E to \in {"seeding", "admin", "failed"} : pc' = [pc EXCEPT ![b] = to]
        BY <2>7 DEF OpenSubmissions, OpenAuth, Probes, Goes
      <3>2. QED
        BY <2>7, <3>1, <1>1 DEF OpenSubmissions, OpenAuth, Probes
    <2>8. QED
      BY <1>2, <2>1, <2>2, <2>3, <2>4, <2>5, <2>6, <2>7 DEF Step
  <1>3. CASE Transfer \/ TransferFails \/ Psql
    <2>1. CASE LockRest
      BY <2>1 DEF LockRest, backends
    <2>2. CASE DeadlockVictim
      BY <2>2 DEF DeadlockVictim, Stops
    <2>3. CASE \/ LockTests \/ CheckEmpty \/ Copy \/ RepairSequences \/ CommitTransfer
               \/ TransferFails \/ Psql
      BY <2>3 DEF LockTests, CheckEmpty, Copy, RepairSequences, CommitTransfer, TransferFails,
         Psql, backends
    <2>4. QED
      BY <1>3, <2>1, <2>2, <2>3 DEF Transfer
  <1>4. CASE UNCHANGED vars
    BY <1>4 DEF vars
  <1>5. QED
    BY <1>2, <1>3, <1>4 DEF StartUpNext

\* A new row has an id beyond all that are there.
LEMMA InsertKeepsContent ==
    ASSUME ContentInv, ~Locked("users"), user_seq' = user_seq + 1,
           users' \in {users, users \cup {NextUser}}, UNCHANGED <<problems, tool>>
    PROVE  ContentInv'
  <1>1. /\ tool \notin Alone /\ user_seq \in Nat
        /\ NextUser.id = user_seq + 1 /\ NextUser.from = "backend"
        /\ NextUser \in [id : Nat, from : {"copy", "backend"}]
    BY DEF Locked, Alone, NextUser, ContentInv
  <1>2. \A u \in users : u.id \in Nat /\ u.id < NextUser.id
    BY <1>1 DEF ContentInv
  <1>h. users' = users \/ users' = users \cup {NextUser}
    OBVIOUS
  <1> HIDE DEF NextUser
  <1>3. Copied(users)' = Copied(users) /\ Copied(problems)' = Copied(problems)
    BY <1>1, <1>h DEF Copied
  <1>4. /\ user_seq' \in Nat
        /\ users' \subseteq [id : Nat, from : {"copy", "backend"}]
        /\ \A u \in users' : u.id <= user_seq'
    BY <1>1, <1>2, <1>h DEF ContentInv
  <1>5. \A u, v \in users' : u.id = v.id => u = v
    BY <1>1, <1>2, <1>h DEF ContentInv
  <1>6. tool # "done" => \A u \in users' : u.from # "copy"
    BY <1>1, <1>h DEF ContentInv
  <1>7. tool = "done" => /\ user_seq' >= LastId(SourceUsers)
                         /\ \A u \in users' : u.from # "copy" => u.id > LastId(SourceUsers)
    BY <1>1, <1>h, LastOfSource DEF ContentInv
  <1>8. QED
    BY <1>1, <1>3, <1>4, <1>5, <1>6, <1>7 DEF ContentInv, Alone

\* The ids of the copied rows are those of the source.
LEMMA CopiedIds ==
    ASSUME NEW S PROVE Copied({[id |-> i, from |-> "copy"] : i \in S}) = S
  <1> DEFINE rows == {[id |-> i, from |-> "copy"] : i \in S}
  <1>1. {r \in rows : r.from = "copy"} = rows
    OBVIOUS
  <1>2. \A r \in rows : r.id \in S
    OBVIOUS
  <1>3. \A i \in S : [id |-> i, from |-> "copy"] \in rows
    OBVIOUS
  <1>4. \A i \in S : [id |-> i, from |-> "copy"].id = i
    OBVIOUS
  <1> HIDE DEF rows
  <1>5. {r.id : r \in rows} = S
    BY <1>2, <1>3, <1>4, Zenon
  <1>6. Copied(rows) = S
    BY <1>1, <1>5 DEF Copied
  <1>7. QED
    BY <1>6 DEF rows

\* COMMIT makes exactly the rows of the source visible.
LEMMA CommitKeepsContent ==
    ASSUME ContentInv, CommitTransfer PROVE ContentInv'
  <1>1. /\ users' = {[id |-> i, from |-> "copy"] : i \in SourceUsers}
        /\ problems' = {[id |-> p, from |-> "copy"] : p \in SourceProblems}
        /\ tool' = "done"
        /\ user_seq' = LastId(SourceUsers) /\ user_seq' \in Nat
    BY DEF CommitTransfer, ContentInv
  <1>2. \A u \in users' : u \in [id : Nat, from : {"copy", "backend"}]
                          /\ u.id <= LastId(SourceUsers) /\ u.from = "copy"
    BY <1>1, LastOfSource
  <1>3. Copied(users)' = SourceUsers /\ Copied(problems)' = SourceProblems
    <2>1. Copied(users)' = Copied(users') /\ Copied(problems)' = Copied(problems')
      BY DEF Copied
    <2>2. QED
      BY <1>1, <2>1, CopiedIds
  <1>4. /\ \A u, v \in users' : u.id = v.id => u = v
        /\ \A p, q \in problems' : p.id = q.id => p = q
    BY <1>1
  <1>5. QED
    BY <1>1, <1>2, <1>3, <1>4 DEF ContentInv

\* Seeding adds problems that are not there.
LEMMA SeedsKeepContent ==
    ASSUME ContentInv, tool \notin Alone, UNCHANGED <<users, user_seq, tool>>,
           problems' = problems \cup {[id |-> p, from |-> "seed"] : p \in Missing}
    PROVE  ContentInv'
  <1>1. \A p \in problems' \ problems : p.from = "seed" /\ p.id \in Missing
    OBVIOUS
  <1>2. \A p \in problems : p.id \notin Missing
    BY DEF Missing
  <1>3. \A p, q \in problems' \ problems : p.id = q.id => p = q
    OBVIOUS
  <1>4. \A p, q \in problems' : p.id = q.id => p = q
    BY <1>1, <1>2, <1>3 DEF ContentInv
  <1>5. problems \subseteq problems'
    OBVIOUS
  <1>6. Copied(users)' = Copied(users) /\ Copied(problems)' = Copied(problems)
    BY <1>1, <1>5 DEF Copied
  <1>7. QED
    BY <1>1, <1>4, <1>6 DEF ContentInv, Alone

\* The content changes by inserted rows, by seeds and by the transfer only.
LEMMA ContentStep ==
    MigrationTypes /\ QuietInv /\ ContentInv /\ [StartUpNext]_vars => ContentInv'
  <1> SUFFICES ASSUME MigrationTypes, QuietInv, ContentInv, [StartUpNext]_vars PROVE ContentInv'
    OBVIOUS
  <1>1. CASE UNCHANGED <<content, tool>>
    BY <1>1 DEF ContentInv, Copied, content
  <1>2. ASSUME NEW b \in Backends, CommitSeeds(b) PROVE ContentInv'
    <2>1. tool \notin Alone
      BY <1>2 DEF CommitSeeds, Goes, QuietInv, HasProblems
    <2>2. QED
      BY <1>2, <2>1, SeedsKeepContent DEF CommitSeeds
  <1>3. ASSUME NEW b \in Backends, EnsureAdmin(b) PROVE ContentInv'
    BY <1>3, InsertKeepsContent DEF EnsureAdmin
  <1>4. ASSUME NEW b \in Backends, Register(b) PROVE ContentInv'
    BY <1>4, InsertKeepsContent DEF Register
  <1>5. ASSUME NEW b \in Backends,
               \/ Begin(b) \/ LockMigrations(b) \/ SkipMigration(b) \/ RunMigration(b)
               \/ CommitMigration(b) \/ UnlockMigrations(b) \/ SeedProblem(b) \/ SeedTests(b)
               \/ FailStart(b) \/ Crash(b) \/ FinishMigration(b)
               \/ OpenSubmissions(b) \/ OpenAuth(b)
        PROVE  ContentInv'
    BY <1>5, <1>1 DEF Begin, LockMigrations, SkipMigration, RunMigration, CommitMigration,
       UnlockMigrations, SeedProblem, SeedTests, FailStart, Crash, FinishMigration,
       OpenSubmissions, OpenAuth, Probes
  <1>6. CASE Psql
    BY <1>6, <1>1 DEF Psql
  <1>7. CASE CommitTransfer
    BY <1>7, CommitKeepsContent
  <1>8. CASE RepairSequences
    BY <1>8, LastOfSource DEF RepairSequences, ContentInv, Copied
  <1>9. CASE LockTests \/ LockRest \/ DeadlockVictim \/ CheckEmpty \/ Copy \/ TransferFails
    <2>1. UNCHANGED content /\ tool # "done" /\ tool' \notin {"done", "repaired"}
      BY <1>9 DEF LockTests, LockRest, DeadlockVictim, CheckEmpty, Copy, TransferFails
    <2>2. tool' \in {"copying", "copied"} => users = {} /\ problems = {}
      BY <1>9 DEF LockTests, LockRest, DeadlockVictim, CheckEmpty, Copy, TransferFails, ContentInv
    <2>3. QED
      BY <2>1, <2>2 DEF ContentInv, content
  <1>10. CASE UNCHANGED vars
    BY <1>10, <1>1 DEF vars
  <1>11. QED
    BY <1>2, <1>3, <1>4, <1>5, <1>6, <1>7, <1>8, <1>9, <1>10 DEF StartUpNext, Step, Transfer

\* The transfer copies all or nothing, into empty tables only, and leaves the
\* identity column beyond the copied ids, beside any number of backends that
\* seed, register users, fail and die (its locks, its check and setval).
THEOREM TransferIsComplete == StartUpSpec => []TransferIsWhole
  <1>1. StartUpInit => QuietInv /\ ContentInv
    BY DEF StartUpInit, QuietInv, ContentInv, Alone
  <1>2. ContentInv => TransferIsWhole
    <2> SUFFICES ASSUME ContentInv PROVE TransferIsWhole
      OBVIOUS
    <2>1. CASE tool = "done"
      BY <2>1, LastOfSource DEF ContentInv, TransferIsWhole
    <2>2. CASE tool # "done"
      <3>1. Copied(users) = {} /\ Copied(problems) = {}
        BY <2>2 DEF ContentInv, Copied
      <3>2. QED
        BY <3>1 DEF ContentInv, TransferIsWhole
    <2>3. QED
      BY <2>1, <2>2
  <1>3. MigrationInv => MigrationTypes
    BY DEF MigrationInv
  <1>4. QED
    BY <1>1, <1>2, <1>3, MigrationInit, MigrationStep, QuietStep, ContentStep, PTL DEF StartUpSpec

=============================================================================
