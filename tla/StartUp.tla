------------------------------- MODULE StartUp ------------------------------
(***************************************************************************)
(* Backends that start against one PostgreSQL database, and the tool that  *)
(* fills it from SQLite.                                                   *)
(*                                                                         *)
(* A backend applies the migrations that are not recorded, one transaction *)
(* each, under an advisory lock of its session; opens its repositories,    *)
(* which look for the record of the first one; seeds the default problems  *)
(* that are missing, with their tests, in a transaction; makes the         *)
(* administrator; and serves.                                              *)
(* The tool works in one transaction with every table locked, in the order *)
(* problem_tests, problems, users. Seeding writes problems before          *)
(* problem_tests, and a migration builds indexes on users before           *)
(* problem_tests: both can meet the tool in a circle.                      *)
(* The identity column of users stands for the five the database has.      *)
(***************************************************************************)
EXTENDS Integers, Sequences, FiniteSetsExt

CONSTANTS
    Backends,
    Versions,       \* migrations are numbered 1 .. Versions
    Defaults,       \* default_problems()
    SourceUsers,    \* ids of the users in the SQLite file
    SourceProblems, \* the problems in the SQLite file
    MaxUsers,       \* bound of the model: ids handed out to those who register
    MaxFaults       \* bound of the model: failing statements and crashes

Nobody == "nobody"

\* A table of the SQLite file is finite: it has a largest id or no row.
ASSUME StartUpAssumption ==
    /\ Versions \in Nat \ {0}
    /\ SourceUsers \subseteq Nat \ {0}
    /\ SourceUsers = {} \/ \E last \in SourceUsers : \A i \in SourceUsers : last >= i
    /\ MaxUsers \in Nat /\ MaxFaults \in Nat
    /\ Nobody \notin Backends

VARIABLES
    schema,     \* versions whose tables exist
    recorded,   \* schema_migrations
    applied,    \* history: the migrations committed by backends, in order
    migrating,  \* who holds the advisory lock 784512901
    pc, version,
    problems,   \* rows of problems: [id, from], from the "seed" or the "copy"
    users,      \* rows of users: [id, from], from a "backend" or the "copy"
    user_seq,   \* the last id handed out
    tool,       \* where the transfer is
    faults

database == <<schema, recorded, applied>>
content == <<problems, users, user_seq>>
vars == <<database, migrating, pc, version, content, tool, faults>>

\* Where a backend is that has applied the migrations.
Migrated == {"opening", "seeding", "tests", "committing", "auth", "admin"}

Starting == {"waiting", "migrating", "creating", "applied"} \cup Migrated

Goes(b, from, to) == pc[b] = from /\ pc' = [pc EXCEPT ![b] = to]

Fault == faults < MaxFaults /\ faults' = faults + 1

\* Where a backend's open transaction has locked problems, or users.
HasProblems == {"tests", "committing"}

HasUsers == {"creating", "applied"}

\* Tables the transfer has locked. A statement that needs one waits.
Locked(t) ==
    \/ tool \in {"checking", "copying", "copied", "repaired"}
    \/ tool = "locking" /\ t = "problem_tests"

----------------------------------------------------------------------------
\* Migrations.

\* main up to apply_migrations; the executor, which prepares its cgroup, and
\* the settings may be refused: FailStart.
Begin(b) ==
    /\ pc[b] \in {"stopped", "failed"} /\ pc' = [pc EXCEPT ![b] = "waiting"]
    /\ UNCHANGED <<database, migrating, version, content, tool, faults>>

LockMigrations(b) ==
    /\ migrating = Nobody /\ migrating' = b
    /\ Goes(b, "waiting", "migrating")
    /\ version' = [version EXCEPT ![b] = 1]
    /\ UNCHANGED <<database, content, tool, faults>>

AppliesUnrecorded(b) == TRUE

\* The next migration in the order of the file names, unless it is recorded.
Applies(b) == version[b] \notin recorded

SkipMigration(b) ==
    /\ pc[b] = "migrating" /\ version[b] <= Versions /\ ~Applies(b)
    /\ version' = [version EXCEPT ![b] = @ + 1]
    /\ UNCHANGED <<database, migrating, pc, content, tool, faults>>

\* BEGIN and the file's statements, not visible to others yet: users and its
\* index first, problem_tests and its index later.
RunMigration(b) ==
    /\ version[b] <= Versions /\ Applies(b) /\ ~Locked("users")
    /\ Goes(b, "migrating", "creating")
    /\ UNCHANGED <<database, migrating, version, content, tool, faults>>

FinishMigration(b) ==
    /\ ~Locked("problem_tests")
    /\ Goes(b, "creating", "applied")
    /\ UNCHANGED <<database, migrating, version, content, tool, faults>>

\* The record goes into the same transaction.
CommitMigration(b) ==
    /\ Goes(b, "applied", "migrating")
    /\ schema' = schema \cup {version[b]}
    /\ recorded' = recorded \cup {version[b]}
    /\ applied' = Append(applied, version[b])
    /\ version' = [version EXCEPT ![b] = @ + 1]
    /\ UNCHANGED <<migrating, content, tool, faults>>

UnlockMigrations(b) ==
    /\ version[b] > Versions
    /\ Goes(b, "migrating", "opening")
    /\ migrating' = Nobody
    /\ UNCHANGED <<database, version, content, tool, faults>>

----------------------------------------------------------------------------
\* Seeding, the administrator, and rows that come while serving.

\* "PostgreSQL schema is missing": there is no record of the first migration.
Probes(b, from, to) ==
    /\ Goes(b, from, IF 1 \in recorded THEN to ELSE "failed")
    /\ UNCHANGED <<database, migrating, version, content, tool, faults>>

OpenSubmissions(b) == Probes(b, "opening", "seeding")

Missing == Defaults \ {p.id : p \in problems}

\* ON CONFLICT DO NOTHING for every default problem, under the advisory lock
\* 784512902. The tests follow for those that were missing.
SeedProblem(b) ==
    /\ ~Locked("problems") /\ \A other \in Backends : pc[other] \notin HasProblems
    /\ Goes(b, "seeding", IF Missing = {} THEN "committing" ELSE "tests")
    /\ UNCHANGED <<database, migrating, version, content, tool, faults>>

SeedTests(b) ==
    /\ ~Locked("problem_tests")
    /\ Goes(b, "tests", "committing")
    /\ UNCHANGED <<database, migrating, version, content, tool, faults>>

CommitSeeds(b) ==
    /\ Goes(b, "committing", "auth")
    /\ problems' = problems \cup {[id |-> p, from |-> "seed"] : p \in Missing}
    /\ UNCHANGED <<database, migrating, version, users, user_seq, tool, faults>>

OpenAuth(b) == Probes(b, "auth", "admin")

\* A row with the next id of the identity column.
NextUser == [id |-> user_seq + 1, from |-> "backend"]

\* ON CONFLICT DO UPDATE: an account that has the configured name is made the
\* administrator, and the id is used up for nothing.
EnsureAdmin(b) ==
    /\ Goes(b, "admin", "serving") /\ ~Locked("users")
    /\ user_seq' = user_seq + 1
    /\ \/ users # {} /\ UNCHANGED users
       \/ users' = users \cup {NextUser}
    /\ UNCHANGED <<database, migrating, version, problems, tool, faults>>

Register(b) ==
    /\ pc[b] = "serving" /\ ~Locked("users")
    /\ user_seq < MaxUsers /\ user_seq' = user_seq + 1
    /\ users' = users \cup {NextUser}
    /\ UNCHANGED <<database, migrating, pc, version, problems, tool, faults>>

StopsKeepingLock(b, last) ==
    /\ pc' = [pc EXCEPT ![b] = last]
    /\ UNCHANGED migrating

\* Its connections end: the open transaction is rolled back and the lock of
\* the session released.
Stops(b, last) ==
    /\ pc' = [pc EXCEPT ![b] = last]
    /\ migrating' = IF migrating = b THEN Nobody ELSE migrating

FailStart(b) ==
    /\ pc[b] \in Starting /\ Fault /\ Stops(b, "failed")
    /\ UNCHANGED <<database, version, content, tool>>

Crash(b) ==
    /\ pc[b] \in Starting \cup {"serving"} /\ Fault /\ Stops(b, "stopped")
    /\ UNCHANGED <<database, version, content, tool>>

----------------------------------------------------------------------------
\* The transfer, and the schema an operator applies for it with psql.

Psql ==
    /\ 1 \notin schema /\ \A b \in Backends : pc[b] \notin HasUsers
    /\ schema' = schema \cup {1}
    /\ UNCHANGED <<recorded, applied, migrating, pc, version, content, tool, faults>>

backends == <<database, migrating, pc, version, faults>>

\* LOCK TABLE takes problem_tests, then problems and users, and waits at each
\* for the transactions that have written there.
LockTests ==
    /\ tool = "idle" /\ 1 \in schema
    /\ \A b \in Backends : pc[b] # "applied" /\ ~(pc[b] = "committing" /\ Missing # {})
    /\ tool' = "locking"
    /\ UNCHANGED <<backends, content>>

LockRest ==
    /\ tool = "locking"
    /\ \A b \in Backends : pc[b] \notin HasProblems \cup HasUsers
    /\ tool' = "checking"
    /\ UNCHANGED <<backends, content>>

\* PostgreSQL ends a wait in a circle by failing one of those who wait: the
\* transfer at problems or users, or the backend at problem_tests.
DeadlockVictim ==
    /\ tool = "locking"
    /\ \E b \in Backends :
          /\ pc[b] \in {"tests", "creating"}
          /\ \/ tool' = "failed" /\ UNCHANGED <<pc, migrating>>
             \/ Stops(b, "failed") /\ UNCHANGED tool
    /\ UNCHANGED <<database, version, content, faults>>

\* "Refusing transfer: PostgreSQL target is not empty."
CheckEmpty ==
    /\ tool = "checking"
    /\ tool' = IF users = {} /\ problems = {} THEN "copying" ELSE "failed"
    /\ UNCHANGED <<backends, content>>

Copy ==
    /\ tool = "copying" /\ tool' = "copied"
    /\ UNCHANGED <<backends, content>>

KeepSequences ==
    /\ tool = "copied" /\ tool' = "repaired"
    /\ UNCHANGED <<backends, content>>

\* setval(coalesce(max(id), 1), max(id) IS NOT NULL): the last id of the table,
\* or the first one next when it is empty.
LastId(ids) == IF ids = {} THEN 0 ELSE Max(ids)

\* It takes effect at once, and stays if the transaction is rolled back.
RepairSequences ==
    /\ tool = "copied" /\ tool' = "repaired"
    /\ user_seq' = LastId(SourceUsers)
    /\ UNCHANGED <<backends, problems, users>>

CommitTransfer ==
    /\ tool = "repaired" /\ tool' = "done"
    /\ users' = {[id |-> i, from |-> "copy"] : i \in SourceUsers}
    /\ problems' = {[id |-> p, from |-> "copy"] : p \in SourceProblems}
    /\ UNCHANGED <<backends, user_seq>>

\* A failing statement, or the death of the tool, rolls everything back.
TransferFails ==
    /\ tool \notin {"idle", "done", "failed"} /\ Fault
    /\ tool' = "failed"
    /\ UNCHANGED <<database, migrating, pc, version, content>>

Transfer ==
    \/ LockTests \/ LockRest \/ DeadlockVictim \/ CheckEmpty \/ Copy \/ RepairSequences
    \/ CommitTransfer

----------------------------------------------------------------------------

StartUpInit ==
    /\ schema = {} /\ recorded = {} /\ applied = << >>
    /\ migrating = Nobody
    /\ pc = [b \in Backends |-> "stopped"] /\ version = [b \in Backends |-> 1]
    /\ problems = {} /\ users = {} /\ user_seq = 0
    /\ tool = "idle" /\ faults = 0

Step(b) ==
    \/ LockMigrations(b) \/ SkipMigration(b) \/ RunMigration(b) \/ FinishMigration(b)
    \/ CommitMigration(b) \/ UnlockMigrations(b) \/ OpenSubmissions(b) \/ SeedProblem(b)
    \/ SeedTests(b) \/ CommitSeeds(b) \/ OpenAuth(b) \/ EnsureAdmin(b)

StartUpNext ==
    \/ \E b \in Backends : Begin(b) \/ Step(b) \/ Register(b) \/ FailStart(b) \/ Crash(b)
    \/ Psql \/ Transfer \/ TransferFails

StartUpSpec == StartUpInit /\ [][StartUpNext]_vars

\* The database serves waiting statements and the processes go on; nobody
\* has to start one.
StartUpFairSpec ==
    /\ StartUpSpec
    /\ WF_vars(LockRest \/ DeadlockVictim \/ CheckEmpty \/ Copy \/ RepairSequences \/ CommitTransfer)
    /\ \A b \in Backends : SF_vars(Step(b))

----------------------------------------------------------------------------

\* Migrations are committed once each and in order, by however many backends,
\* with whatever crashes between a migration and its record; and who has got
\* beyond them finds every table and the record open looks for
\* (apply_migrations, open).
MigratedOnceInOrder ==
    /\ \A i \in DOMAIN applied : applied[i] = i
    /\ recorded = {applied[i] : i \in DOMAIN applied} /\ recorded \subseteq schema
    /\ \A b \in Backends :
          pc[b] \in Migrated \cup {"serving"} => recorded = 1 .. Versions

Copied(rows) == {r.id : r \in {q \in rows : q.from = "copy"}}

\* The database has all that was in SQLite or none of it, never beside rows a
\* backend had written before: users have ids beyond the copied ones, and a
\* problem is seeded only where the copy has none. No identity column would
\* hand out an id that is taken (the transfer's locks, check and setval).
TransferIsWhole ==
    /\ <<Copied(users), Copied(problems)>> \in {<<{}, {}>>, <<SourceUsers, SourceProblems>>}
    /\ \A u \in users : u.from # "copy" => \A i \in Copied(users) : i < u.id
    /\ \A u \in users : u.id <= user_seq
    /\ \A u, v \in users : u.id = v.id => u = v
    /\ \A p, q \in problems : p.id = q.id => p = q

\* Whoever starts comes to an end, served or failed: a backend that fails or
\* dies while it migrates does not keep the others out, and the transfer on one
\* side and seeding or a migration on the other, which take their locks in
\* different orders, do not wait for each other for good.
StartsComeToAnEnd ==
    \A b \in Backends : pc[b] \in Starting ~> pc[b] \in {"serving", "failed", "stopped"}

=============================================================================
