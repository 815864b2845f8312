# Algorithm Trainer: TLA+ verification project

Algorithm Trainer is a practice site for programming problems. A C++ backend
accepts submissions over HTTP, stores them in PostgreSQL, and judges them in the
background inside an NsJail sandbox; a React frontend submits and polls. This
directory models the backend and the page's traffic with it, model-checks both with
TLC and proves the safety properties of all of them with TLAPS. Paths below are relative to the repository root.

## 1. The system

### Components, their state and their operations

| Component | State | Operations |
|---|---|---|
| Submission repository `backend/src/postgresql-submission-repository.cpp` | table `submissions` (status, owner, verdict, error type, retry link), the `submission.retry` records of `admin_audit_log` | `create`, `retry`, `claim_next`, `complete`, `fail`, `recover_running`; queries |
| PostgreSQL client `backend/src/postgresql-client.cpp` | one connection under a mutex | `execute`, `execute_locked` (BEGIN, advisory lock, statement, COMMIT), `apply_migrations` |
| Worker pool `backend/src/submission-worker.cpp` | `started_`, `stopping_`, threads, condition variable | `start`, `stop`, `notify`, `process_one`, `worker_loop` |
| Submission service `backend/src/submission-service.cpp` | none | `submit` = `create`, then `notify`; queries |
| HTTP layer `backend/src/main.cpp` | none of its own | `submit`, `admin_retry_submission`, problem administration, authentication, start-up |
| Problem judge `backend/src/problem-judge.cpp` | none | `run`: hidden tests one by one to a verdict |
| Judge worker process `backend/src/isolated-process-executor.cpp`, `judge-worker-main.cpp` | a child process and a socket per test | length-prefixed JSON request and response |
| Sandbox executor `backend/src/nsjail-python-executor.cpp` | child, two pipes, deadlines | compile, `run_isolated`: drain output, enforce limits, reap |
| Problem repository `backend/src/postgresql-problem-repository.cpp` | `problems`, `problem_tests` with revisions | seed, create, update, delete, read for judging |
| Authentication `backend/src/postgresql-auth-service.cpp` | `users`, `sessions` | register, login, current user, logout, ensure admin |
| Migration and transfer `postgresql-client.cpp`, `sqlite-to-postgresql.cpp` | schema version, copied tables | apply, copy |
| SQLite variants | the same state machine in SQLite | used by tests and by the transfer tool only |
| Frontend `frontend/src/App.tsx`, `AdminPanel.tsx` | session, problem, current submission, history | submit, poll, load history, logout |

### Interactions

`main` opens one connection per repository, starts the worker pool (which first
requeues every `running` row) and then serves HTTP. A handler inserts a row and
calls `notify()`; a worker thread claims the oldest row its limits allow, has it
judged (executor, judge worker, NsJail), and records a verdict or a failure. All
shared state between processes is in the database; inside a process the threads
share the connection (mutex), `stopping_` (mutex) and the condition variable.

### What is hard

* Statements of several connections interleave at READ COMMITTED; only the
  advisory locks order the counting ones.
* A process can die or lose its connection between claiming and recording, or
  after COMMIT and before the answer.
* `notify()` and `stop()` signal without the sleeper's cooperation, so signals
  can be missed.
* A start requeues rows another process may be judging.
* Limits of time and output are enforced by a polling loop that races the child.
* Two threads of one process fork judge workers while each has a channel open.
* An administrator edits what a browser loaded earlier; the handler looks the
  session up twice, before and after the change, and audits in a third call.
* A problem can change or vanish between submitting and judging, and between the
  two queries that read it.
* The page sends calls with the cookie of one moment and applies answers at another.
* Backends and the transfer tool can start together and die at any step.

`PROJECT.json` lists these as `hazards`, each at its line with the properties
that would catch it.

### What makes each component correct

* Repository: limits never exceeded, a user's submissions judged in order,
  finished rows never changed, one retry per row with its audit record.
* Client: a locked call is atomic and returns.
* Worker pool: one worker per submission, no row forgotten, stop returns and
  leaves no thread behind.
* Judge and executor: a verdict follows from the first test that decides it, a
  run is bounded in time and output, the child is always reaped.
* Problem repository: no lost update; a submission is judged by the tests of one
  instant.
* Authentication: a session belongs to the account whose password opened it and
  ends at its expiry or at logout; only a start changes passwords and rights.
* Administration: an edit replaces what its sender saw, and is audited truthfully.
* Page: what is shown belongs to the selected problem and the signed-in user, and
  polling ends.
* Start-up and transfer: migrations run once, in order; a copied database is whole;
  nobody waits for ever.

## 2. Modules

| Module | Models |
|---|---|
| `SubmissionTable` | the repository's statements, each one atomic action on the committed rows: the abstract specification `TableSpec` |
| `LockedStatements` | the same statements as PostgreSQL transactions of several connections |
| `SubmissionQueue` | processes, worker threads, condition variable, failing calls, crash and restart over the table; implements `TableSpec` |
| `Supervisor` | the loop of `run_isolated` against NsJail and the program in the jail |
| `JudgeContract` | what `ProblemJudge` promises: the abstract specification of a judgement |
| `JudgeRun` | `ProblemJudge::run` with its reads, channels and judge worker processes; implements `JudgeContract` (`INSTANCE ... WITH`) |
| `Problems` | tables `problems`, `problem_tests` and the statements that change them |
| `Accounts` | tables `users`, `sessions` and the statements of `PostgreSQLAuthService` |
| `AdminSite` | the handlers for accounts and problem administration, and the browsers, over `Accounts` and `Problems` |
| `Frontend` | one tab of the page with its effects and polls, and the handlers it calls |
| `StartUp` | migrations, seeding and the administrator in several backends, and the transfer from SQLite |
| `Tables` | helpers: a table as a function from keys to rows |
| `SubmissionTableProofs`, `LockedStatementsProofs`, `SubmissionQueueProofs`, `SupervisorProofs`, `JudgeRunProofs`, `AdminSiteProofs`, `StartUpProofs`, `FrontendProofs` | theorems and proofs |
| `MCSubmissionTable`, `MCSubmissionQueue`, `MCJudgeRun`, `MCAdminSite` | instances for TLC; the other modules are checked as they are |

Composition: `SubmissionQueue` and `LockedStatements` extend `SubmissionTable`;
`JudgeRun` and `AdminSite` extend `Problems`. What a module takes from another as a
result rather than as state is named where it is used: `SubmissionQueue` uses the
outcomes of `JudgeRun`, `JudgeRun` those of `Supervisor`, `Frontend` the queue's
promise that submissions are finished.

### SubmissionTable

`rows[id]` is a committed row; `audit` the pairs (original, retry) of the audit
log. `create`, `retry`, `claim_next`, `complete`, `fail` and `recover_running`
have the SQL statement's WHERE clause as guard and its SET or VALUES as effect. A
statement that matches no row changes nothing and is a stuttering step. The
problem id, language, source text and timestamps of a row never influence these
statements and are left out; users are account ids plus one value for the rows
whose `user_id` is NULL, which `IS NOT DISTINCT FROM` counts as one user. The four
verdicts are reduced to the distinction the code makes: Runtime Error (retryable,
has an error type) or not.

### LockedStatements

One action per command of `execute_locked`: `Begin`, `Lock`, `Execute`, `Commit`,
with `Abort` for every failing command and for a lost connection. `Execute` reads
the rows committed at that moment (a READ COMMITTED statement takes its snapshot
when it begins, after the lock) and its writes become visible at `Commit`. An
identity value is used up even by a transaction that is rolled back. `complete`
and `fail` update one row under its row lock and are one action; `recover_running`
updates many rows and is split into its snapshot and its writes, which re-check
each row. PostgreSQL's advisory locks, row locks (`SKIP LOCKED`) and re-check are
external: they are modelled from how the statements use them. The count `create`
makes after a refusal only chooses the wording of the refusal and is left out.

`SubmissionTable` treats `recover_running` as requeuing all running rows at one
instant. In `LockedStatements` a row claimed by another process after the
snapshot stays running; the properties are checked with that behaviour too.

### SubmissionQueue

`pool[i]` stands for `started_` and `stopping_` of process `i` (`joining` is the
part of `stop()` after `notify_all`), `link[i]` for its connection, `pending[i]` for
handlers between their INSERT and their `notify()`. `pc[w]` is the place of a
thread in `worker_loop` and `process_one`:

    check -> claim -> judge -> complete -> check
                  \         \-> fail ----^
                   \-> idle -> wait -> woken -> check | off

`complete -> fail` is the "Result Persistence Error" fallback. Every database call
succeeds, fails without effect, or takes effect while its answer is lost with the
connection (`Succeeds`, `Fails`, `AnswerLost`); a lost connection stays lost until
the process restarts, because nothing in the code reopens it. `Sleep` and `Check`
are separate steps, and `Notify` and `NotifyAll` reach only threads that are
waiting at that moment, which is how a signal is missed. `Judge` stands for
`judge_.run`: a verdict, a runtime error, a judge error or an exception. `Crash`
takes all threads of a process at any moment and leaves the table as it is.

### Supervisor

`pc` follows one call of `run_isolated`:

    launch -> poll -> stdout -> stderr -> limits -> reap -> poll ... -> result -> done
          \-> done (the input, a pipe or the fork failed)

At `stdout` and `stderr` one `Reads` is one `read(2)` of `drain`, which repeats until
the pipe is empty (`ReadsNothing`) or at its end (`ReadsEndOfFile`); `Limits` is the
output and deadline check with SIGTERM and SIGKILL, `Reap` the `waitpid` with
WNOHANG, `Result` the error or exit code. `deadline` and `force_kill` hold the time
left, moved by `Tick` at any point of the call. `asked` (time since SIGTERM) and
`stray` (signals sent to a pid that was already reaped) are history variables.

NsJail, the program and the kernel's pipes are external. NsJail can fail to start or
to set up the jail (`fault`), end with its program, or die of a signal, in which case
the jail follows a moment later. `held` is the set of pipes a process of the jail has
open: it writes whenever such a pipe has room, and may close either at any time
(`Closes`), so an end of file says nothing about who is alive (`WriteEndOpen`). A
program that has closed both is waited for by nothing but `waitpid` on NsJail: when
NsJail had to be killed, `run_isolated` can return while the jail is still dying.
`NothingSurvives` says that this is the only way anything is left behind. A count of output is kept up to `OutputLimit + 1`, since the code tells apart
no more. The branch at lines 520-522 cannot be taken, because the loop has reaped the
child by then, and errors of `read` and `waitpid` that a valid descriptor and an own
child do not give are left out. The pid of a reaped child is used again only by
`kill(SIGTERM)` when a limit is met after the reaping: recorded in `stray`.

### JudgeContract and JudgeRun

The contract knows no reads, processes or channels. A judgement takes the enabled
tests of one instant, in the order of positions; a run is added while all so far
passed; the answer follows from the first that does not pass, or from a full pass of
at least one test, or is the error, which is the one the executor named if a run failed. When two outputs are the same answer is defined
without normalising either: the same characters and line ends up to the last one that
is not blank (`SameAnswer`). `JudgeRun` normalises both (`normalize_output`, character
by character like the code) and compares.

`pc[h]` of a thread follows `ProblemJudge::run` and, per test,
`IsolatedProcessExecutor::run`:

    idle -> tests -> test -> fork -> send -> receive -> wait -> verdict -> test | done

and `worker[h]` the child:

    forked -> receiving -> setup -> closure -> root -> files -> compiling -> compiled
           -> running -> answering -> leaving -> exited

where the steps from `setup` (the temporary directory) to `running` are the calls of
`NsJailPythonExecutor::run`, each of which may fail and is then the answer; a Python
program goes from `files` to `running`. Descriptors are explicit (`open` of the backend,
`held[h]` of a child), because a fork in one thread copies the channel another thread
has open, and a `read` sees the end of the file only when the last copy is closed.
Calls of the operating system and the database fail, children are killed, the backend
dies, and administrators edit the problem with the statements of `Problems`. The
refinement maps `began` to the threads that have read their tests and `taken` to
`hidden`.

### Problems, Accounts, AdminSite

`Problems` and `Accounts` hold the tables as functions of their keys; a statement that
matches no row or breaks a constraint is not enabled. Everything an administrator can
write is one value, the number of the change, so two versions never look alike. A
password is compared as a value; a token is the number of its session.

`AdminSite` splits a write the way the handler does: `require_admin` (session looked
up), the repository call, `authenticated_admin_id` (looked up again), and
`audit_admin_change`. Registration and login are two statements each. `loaded[x]` is
what the editor of browser `x` shows, from `admin_get_problem` (two queries) or from
the answer to the last write (`save`, `HiddenTests`). A database call may fail with or
without effect; the clock may pass a session's expiry; the backend may die and start,
which seeds missing default problems and makes the administrator. `log` and `entry`
are history variables that tie an audit row to the change it is about.

The tables begin empty or with what a transfer may have left: accounts, some of them
administrators, and sessions whose tokens browsers hold. Every start may have another
administrator's name and password in its settings, so `ensure_admin` makes an account,
promotes one that exists or changes its password; its sessions stay, and an earlier
administrator stays one. `given[n]` is the history of what account `n` was given, and a
session's `version` the entry that was valid when it was opened; `SessionsProved` is
stated with them. One backend runs at a time.

### Frontend

The effects of `App.tsx` run in the action that changed what they depend on
(`Renders`): an effect that runs again aborts its earlier fetch, so its set of loads is
replaced, while `submit` and `pollSubmission` abort nothing. Requests carry the session
of the moment they are sent, are served later, and answered later still. Rendering,
the list of problems and its filter, starter code and the lists of the administrator's
views are left out. The model has one tab: the cookie changes only by its own calls.

### StartUp

Per backend: waiting for the advisory lock, migrating (each file is a transaction with
its record), seeding problems and tests in a transaction, the administrator, serving.
Seeding adds each default problem that is missing, with its tests, also beside problems
that were copied. Making the administrator uses up an id of the identity column even
when the account exists. `Psql` is the operator who applies the first file by hand, as
the transfer's instructions say. The transfer's `LOCK TABLE` takes problem_tests before
problems and users; seeding locks problems before problem_tests and a migration users
before problem_tests (`creating`, `applied`), and `DeadlockVictim` is PostgreSQL's
answer to either circle. Sequences are moved by `setval` at once, before the COMMIT and
also without it; that of an empty table starts again at 1.

## 3. Runs

| Run | Instance | Shows |
|---|---|---|
| `table` | 2 users, 4 rows, limits 3 / 2 / 1 | admission limits, order, row shape, retry lineage, finality of atomic statements |
| `locked` | 2 connections, 1 user, 4 identity values, limits 2 / 2 / 1, fairness | the same and the running limit, of the committed rows, statement by statement; every call returns |
| `one_pool` | 1 process, 2 threads, 2 users, 2 rows, 2 starts, 1 failing call, fairness | ownership of rows, no stranded row without a failing call, quiet after stop, refinement of `TableSpec`; queued work finishes and `stop()` returns |
| `overlap` | 2 processes of 1 thread, 2 rows, 2 starts | expected violation, see the findings |
| `supervisor` | time limit 2, grace 2, output limit 3, read buffer 2, pipe 3, fairness and NsJail's time limit | output accounted for, nothing left running but a killed jail without pipes, the kill last, stops reported, `run_isolated` returns |
| `wall_limit` | 1, 1, 1, 2, 2, without NsJail's time limit | expected violation, see the findings |
| `judge` | 2 threads (Python, C++), 2 tests and room for one more, 1 edit, 1 fault; constraint `EditOrFaultOrAlone` | refinement of `JudgeContract`; no verdict is lost, no run hangs and nothing is left behind by interleaved forks |
| `admin` | 2 browsers, 2 names, 2 passwords, 2 sessions, 1 problem, 2 test ids, 3 changes, 1 fault; one account and its session may be copied; constraint `AccountsOrEdits` | optimistic locking, the audit log, sessions and accounts through starts with other settings |
| `revision_reuse` | as `admin` with one password, 4 changes and no fault | expected violation, see the findings |
| `frontend` | 2 users, 2 problems, 1 submission, 1 failing call, fairness | problem and profile shown are the right ones, polling ends |
| `history_mix` | the same without a failing call | expected violation, see the findings |
| `startup` | 2 backends, 2 migrations, 2 default problems, a source with users 1 and 3, one default problem and one of its own, 5 ids, 2 faults, fairness | migrations, the transfer, and that starts come to an end |

Bounds. Two users tell "same user" from "other user". Four rows of two users reach
the global limit 3 and the per-user limit 2 with a retry among them; in `locked` one
user is enough, since the limits and the order that two connections race for are a
user's own, and four identity values leave room for one that a rollback used up. Two
threads, connections, browsers or backends are enough for every race between two
actors; a third adds no new kind of conflict because each lock and each row has at
most one holder. Two starts give a crash and the restart after it; one failing call
gives a failing or lost `complete` whose fallback is tried (that nothing worse follows
from more of them is theorem `QueueImplementsTable`). For the supervisor an odd output
limit over a read buffer of 2 makes a read straddle the limit, a pipe larger than the
buffer takes several reads to drain, and two units of time let a limit pass before,
during and after the grace period. In `judge` one edit falls before, between or after
the two reads of each thread; both it and the fault happen in one behaviour while at most
one thread is judging (`EditOrFaultOrAlone`; the theorems have no such limit); the third
test is one that does not fit into a request; the outputs have CR LF, blank lines and
trailing blanks. In `admin` the seed is one of
three changes, so two edits race, or a delete races an edit; a deletion, a new creation
and a stale edit need a fourth and are run `revision_reuse`. A lifetime and a clock of
1 let a session end between any two steps of a handler. Two names and two passwords give
a copied account that is promoted while its session lives, two administrators one after the other, and a password that is changed under a
live session. The statements on problems do not look at passwords, and only an
administrator gets to them, so the constraint `AccountsOrEdits` of the run lets accounts,
settings and copied tables vary only as long as nobody edits, and edits are made with the
account of one administrator; both together are left to the theorems. In `startup` the
ids 1 and 3 leave a gap below the largest, and one of two default problems is missing
after the transfer; an empty source is left to the theorem.
`MaxRows`, `MaxStarts`, `MaxFaults`, `MaxTests`, `MaxEdits`, `MaxChanges`, `MaxSessions`,
`MaxCopied`, `MaxTime`, `MaxSubmissions` and `MaxUsers` are bounds of the model and occur only in
guards and assumptions. Deadlock is not checked where the system may stop: the queue,
the site and the backends with their starts, changes or faults used up and the process
down, a call of `run_isolated` or a judgement that is done. Symmetry (users of `table`,
browsers of `admin`) is used in runs without liveness only.

Fairness. A thread that is not blocked runs, `wait_for` returns after the poll
interval and `judge_.run` returns because the executor bounds a run: weak fairness
of `WorkerStep`. `stop()` is never abandoned by its caller: weak fairness of
`NotifyAll` and `Join`. PostgreSQL serves lock waiters in turn: strong fairness of
`Lock`. Nothing is assumed of starts, crashes, faults, handlers or `notify()`. The
supervisor is scheduled, time passes, and a killed NsJail dies with its jail; the
program itself owes nothing. Threads and children of `JudgeRun` are scheduled and a run
of the sandbox ends (`RunEnds`). In `Frontend` submissions are judged (`QueueDrains`),
timers expire and polls are answered; nothing is assumed of the user or of the other
calls. In `StartUp` processes go on and PostgreSQL grants locks that are free again and
again (strong fairness of a backend's `Step`); nobody has to start anything. `Backstop` is NsJail's `--time_limit`, which the command
line always sets (wall limit plus two seconds) and which ends every program.

### Findings

`overlap`: `docs/database.md:108` says that claiming "prevents concurrent workers
from processing the same submission", and line 191 that "multiple backend workers
or instances cannot claim the same row". `recover_running` requeues every running
row, so the start of a second instance lets its worker claim what the first is
judging. The status guards keep the table sound (theorem `QueueImplementsTable`), and
with one process the statement holds (theorem `SingleProcessOwnership`).

`wall_limit`: `docs/sandbox.md:15` lists "a 2-second backend wall limit and 4-second
NsJail backstop". `drain` (`nsjail-python-executor.cpp:255`) reads until the pipe is
empty and `run_isolated` looks at the clock only after it returned, so a program that
fills its pipe as fast as it is read can keep the supervisor from both the deadline and
the output limit. Then only the backstop ends the run, which `supervisor` shows.

`revision_reuse`: `docs/database.md:187` says that updates "must send the revision they
loaded and receive HTTP 409 after a concurrent edit". A problem that was deleted and
made again, by an administrator or by the next start, has revision 1 again, so an
editor that shows the old one at revision 1 overwrites the new one unseen. Tests are
not affected: their ids are not used twice.

`history_mix`: the page shows the list below a problem as "Your submission history" and an
empty one as "No submissions for this problem yet." (`App.tsx:735`, `741`), and
`docs/database.md:120` says that "records belonging to another account or problem are
excluded by the database query". `submit` and `pollSubmission` (`App.tsx:437`, `474`) put their
answer into whatever list is there when it arrives, so a submission appears under a
problem selected meanwhile until that list is loaded.

Noticed without a run: `docs/database.md:149` says the built-in catalog is "used only to
seed missing rows on first startup", while `open` seeds at every start, so a default
problem that was deleted comes back; a history answer served before a submission was
finished can arrive after the poll that showed the result and set the entry back.

## 4. Proofs

All theorems hold for every value of the constants that satisfies the named
assumptions: the limits and bounds are natural numbers, `runtime_error` is a verdict,
NULL is neither a verdict nor an error type, `PoolOf` maps threads to processes, the
SQLite file has a largest user id or no user, the built-in catalog is finite and each of its
problems has a test (`problem.cpp` defines both), and the name for "no connection" or
"no account" is not one of them.

`SubmissionTableProofs`, for `TableSpec`:

* `TableTypeCorrect`: the type invariant, from the effect of each statement on the
  sequence of rows.
* `LimitsHold`: `AdmissionLimits` and `RunningLimit`. Both are inductive with the
  type; the argument is that each statement adds at most one element to the counted
  set, after having counted it, and that all others shrink it.
* `JudgedInOrder`: inductive together with `RunningLimit`, which turns "claimable"
  into "no row of the user is running"; with the choice of the oldest claimable row
  every earlier row of the user is then finished.
* `RowsKeepShape`, `LineageHolds`: inductive with the type; lineage also uses that
  a finished row keeps its status.
* `FinishedIsFinal`: the action property, from the type and the guards.

`LockedStatementsProofs`, for `LockedSpec`, with any connections: `AdmissionUnderLocks`,
`RunningUnderLocks`, `OrderUnderLocks`, `LineageUnderLocks` and `FinalUnderLocks` state
of the committed rows what the table promises, when nothing is atomic but a snapshot, a
commit and the update of a row. None of these is inductive by itself, because a
transaction acts on what it counted some steps ago. `LockedInv` adds what the locks give:

* a transaction past `pg_advisory_xact_lock` holds its lock (`LockInv`), so two that
  insert, or two that claim, are never past it together (`Exclusion`);
* a row about to be inserted is still admitted, has the latest id, and what it retries
  is still finished and not retried (`MayAdd`); a row about to be started is still
  claimable, and its user's earlier rows are finished (`MayStart`).

The proof is that every other step leaves these alone: `complete`, `fail` and
`recover_running` shrink what was counted and touch running rows only (`SettlesReady`),
a claim stays counted by admission (`StartsReady`), a new row has a later id than any
that is being claimed (`AddsReady`). A row that SKIP LOCKED passes over is never one that
a claim should have taken, since only claims lock rows that exist (`ClaimsKeeps`).

`SubmissionQueueProofs`, for `Spec` of `SubmissionQueue`:

* `TypeCorrect`: `TypeOK` has the ranges of the variables and `ResultOK` (a thread about
  to call `complete` holds a judgement, one about to call `fail` a worker error),
  because the recorded result is written into a row later.
* `QueueImplementsTable`: `Spec => TableSpec` for any number of processes, threads,
  faults and crashes; each step is a statement or leaves the table unchanged. It
  needs `ResultOK` to know that what is recorded is a `Judgement`.
* `QueueIsSafe`: all properties of the table, for the queue.
* `SingleProcessOwnership`: with one process, `ExclusiveProcessing`,
  `HeldRowIsRunning` and `StoppedMeansQuiet`, from the invariant that a thread that
  is processing holds an existing row, alone, which is running until the thread has
  called `complete`, and that a stopped process has no thread.
* `OnlyFaultsOrphan`: without faults every running row is held by a thread while a
  process is up. The invariant adds that connections of running processes work.

`SupervisorProofs`, for `SupervisorSpec`, with limits, buffer and pipe capacity any
natural numbers (all but the output limit positive):

* `SupervisorTypes`, `OutputIsAccounted`: as long as no read has crossed the limit,
  what was written to a pipe is stored or still in it; once one has, more was written
  than the limit allows. At the end both read ends are closed, and a read end is closed
  only when its pipe is empty and no writer is left (`ClosedInv`).
* `NothingIsLeft`: from `LifeInv`, `ClosedInv` (a read end is closed only when nobody has
  that pipe open for writing) and `JailInv` (a jail outlives its NsJail only when that was
  killed); the loop's condition on the read ends says nothing about a jail that has closed
  its own.
* `KillIsLast`: the invariant is that time since SIGTERM and time left until SIGKILL
  make up at least the grace period.
* `StopsAreReported`: a failed set-up has written nothing, so no output limit hides it,
  and a request to end always has a reason and a signal.

`JudgeRunProofs`, for `JudgeSpec`, with any threads, tests, faults and edits:

* `JudgeLeavesNothingBehind`: `NothingLeftBehind` needs to know of every moment who has
  which end of which channel open (`DescriptorInv`) and when a thread has a child and a
  child a directory (`ChildInv`).
* `GivesUpOnlyWithACause`: as long as nothing has failed, a child that is gone has
  answered, and its answer is in the channel or with the thread (`CleanInv`). With
  `DescriptorInv` neither a send nor a receive can then fail, whatever copies of
  descriptors other children hold. `ReadInv` and `UneditedInv` say that without an edit
  the tests that were read are not empty.
* `JudgeKeepsItsContract`: the refinement, action by action. `ReadTests` is the contract's
  `Take`, because the ranks of the enabled tests by position are 1, 2, ... (`Ranks`,
  `TestsAreInOrder`; `CatalogInv` keeps positions apart under edits); `Reap` with a
  response is its `Run`; an answer is its `Answer`, because a thread that has not answered
  has passed every run but the one it looks at (`ProgressInv`); everything else is
  invisible. The proof assumes of the constants that a failing program or compiler does
  not exit with 0, which is what failing means to `run`.
* `NormalizationDecides`: `normalize_output` agrees with `SameAnswer` for all outputs. One
  function satisfies all rounds of the loop (`OneLoop`, by the least round at which two
  would differ), and the text made of the characters that stay is such a function
  (`LoopText`); trimming cuts it behind the last that is not blank (`TrimmedText`).

`AdminSiteProofs`, for `SiteSpec`, with any browsers, accounts, problems and tests. The
invariant `SiteInv` follows a request through its four steps:

* `SiteTypes`: rows, sessions and handlers keep their types and references (`CatalogInv`,
  `AccountInv`).
* `SessionsAreProved`: what an account has is what it was given last, and all but the first
  of these it was given by a start (`GivenInv`). A handler between the two statements of a
  sign-in holds the password the account has, since a start finds no handler under way
  (`HandlerOK`). The settings of the starts, and the copied tables, are arbitrary.
* `AuditIsComplete`: the session a handler was let in with had the user it works for, a
  token is never given to another, and a change between its commit and its audit row has
  a handler that carries it (`HandlerOK`, `AuditInv`); a session that has ended does not
  come back.
* `EditsAreGuarded`: what an editor shows at a revision is what the row held at that
  revision, unless the row has moved on or was made again since (`ViewOK`,
  `ProblemSeen`, `TestSeen`). Every statement moves the revision on or makes the row anew
  (`Evolves`), so an update that finds its revision finds that content.

Refusals use ENABLED, and the proofs need nothing of them but that they change nothing.

`StartUpProofs`, for `StartUpSpec`, with any backends, migrations and source ids:

* `MigrationsAreOrdered`: a backend between two migrations holds the lock (`LockInv`),
  the record is an initial segment, the holder's version is at most one beyond it, and
  whoever is past the migrations saw the whole of it (`ProgressInv`). Without the lock
  invariant two backends could be at the same version.
* `TransferIsComplete`: while the transfer holds its locks nobody is in the middle of
  seeding (`QuietInv`), so the tables found empty stay empty until COMMIT, and the
  identity column stands at the last copied id before the rows become visible
  (`ContentInv`). Seeding after the transfer adds only what the copy has not, so copied
  rows stay (`SeedsKeepContent`). The source may be empty.

`FrontendProofs`, for `FrontendSpec`, with any users and problems:

* `SelectedIsShown`: a fetch that was not aborted is for the selected problem.
* `ProfileBelongs`: while a user is signed in on the page the cookie is that user's or
  dead, because only a logout can be in flight then (`SessionInv`); so a profile that is
  still awaited is that user's or an error (`ProfileInv`).

Left to TLC: liveness, which the prover does not reach (`QueueDrains`, `StopReturns`,
`CallsReturn`, `RunEnds`, `JudgingEnds`, `PollsEnd`, `StartsComeToAnEnd`).

## 5. Not modelled

* The SQLite repositories and SQLite authentication: `main` uses PostgreSQL only; they
  serve regression tests and as the source of the transfer.
* Request validation (`submission.cpp`, `pg_validate`, the shape checks of
  `parse_admin_problem`): pure checks of one value. The models' requests pass them.
* Queries that change nothing and nothing depends on (lists, `progress`,
  `admin_submissions`, the count that words a refusal), JSON, wording, logs.
* Password hashing and tokens (libsodium), the NsJail command line, the seccomp policy
  and what the cgroup delegation sets up (its failure is a failing start): configuration
  handed to external programs.
* The texts of the built-in problems; rendering and styling of the page; its tag filter.
* Scripts and deployment files: shell around one process.

## 6. Plan

Done: all modules above, their runs, and as theorems the safety properties of every
component and both refinements.
