-------------------------- MODULE SubmissionTable --------------------------
(***************************************************************************)
(* The submissions table and the statements PostgreSQLSubmissionRepository *)
(* runs against it, each as one atomic action on the committed rows.       *)
(* LockedStatements shows what makes create, retry and claim_next atomic.  *)
(*                                                                         *)
(* TableSpec is the abstract specification of the queue: whatever backend  *)
(* processes, worker threads, crashes and lost connections there are, the  *)
(* rows only ever change by one of these statements.                       *)
(***************************************************************************)
EXTENDS Integers, Sequences, FiniteSets

CONSTANTS
    Users,              \* account ids, and one value for the shared NULL bucket
    Verdicts,           \* the verdicts a judge run may reach
    RuntimeErrors,      \* the error types classify_runtime_error may name
    MaxActive,          \* maximum_active_submissions
    MaxActivePerUser,   \* maximum_active_submissions_per_user
    MaxRunningPerUser,  \* maximum_running_submissions_per_user
    MaxRows             \* bound of the model: rows ever inserted

ASSUME LimitsAssumption ==
    /\ MaxActive \in Nat /\ MaxActivePerUser \in Nat /\ MaxRunningPerUser \in Nat
    /\ MaxRows \in Nat

Null == "NULL"

ASSUME VerdictsAssumption == "runtime_error" \in Verdicts /\ Null \notin Verdicts

\* The error types a worker writes with fail: Sandbox Error, Worker Error and
\* Result Persistence Error.
WorkerErrors == {"sandbox_error", "worker_error", "result_persistence_error"}

ASSUME ErrorsAssumption == Null \notin RuntimeErrors

ErrorTypes == RuntimeErrors \cup WorkerErrors

VARIABLES
    rows,   \* rows[id] is the committed row with that id; ids are dense
    audit   \* the 'submission.retry' rows of admin_audit_log: <<original, retry>>

table == <<rows, audit>>

Pending  == {"queued", "running"}
Terminal == {"completed", "failed"}

Row == [status   : Pending \cup Terminal,
        owner    : Users,
        verdict  : Verdicts \cup {Null},
        error    : ErrorTypes \cup {Null},
        retry_of : Nat]                         \* 0 stands for NULL

TableTypeOK ==
    /\ rows \in Seq(Row)
    /\ audit \subseteq Nat \X Nat

----------------------------------------------------------------------------
\* What the statements count and select.

Ids == DOMAIN rows

Active == {s \in Ids : rows[s].status \in Pending}

ActiveOf(u) == {s \in Active : rows[s].owner = u}

RunningOf(u) == {s \in Ids : rows[s].status = "running" /\ rows[s].owner = u}

Retries(s) == {r \in Ids : rows[r].retry_of = s}

AdmitsIgnoringUser(u) == Cardinality(Active) < MaxActive

Admits(u) ==
    /\ Cardinality(Active) < MaxActive
    /\ Cardinality(ActiveOf(u)) < MaxActivePerUser

RetryableAgain(s) ==
    rows[s].status = "failed" \/ rows[s].verdict = "runtime_error"

Retryable(s) ==
    /\ rows[s].status = "failed" \/ rows[s].verdict = "runtime_error"
    /\ Retries(s) = {}

Claimable(s) ==
    /\ rows[s].status = "queued"
    /\ Cardinality(RunningOf(rows[s].owner)) < MaxRunningPerUser

NewestClaimable(s) ==
    /\ Claimable(s)
    /\ \A t \in Ids : Claimable(t) => t <= s

OldestClaimable(s) ==
    /\ Claimable(s)
    /\ \A t \in Ids : Claimable(t) => s <= t

----------------------------------------------------------------------------
\* The statements.

NewRowWithoutStatus(u, original) ==
    [status |-> Null, owner |-> u, verdict |-> Null, error |-> Null,
     retry_of |-> original]

NewRow(u, original) ==
    [status |-> "queued", owner |-> u, verdict |-> Null, error |-> Null,
     retry_of |-> original]

Insert(u, original) ==
    /\ Len(rows) < MaxRows
    /\ rows' = Append(rows, NewRow(u, original))

create(u) ==
    /\ Admits(u)
    /\ Insert(u, 0)
    /\ UNCHANGED audit

retry(s) ==
    /\ Retryable(s)
    /\ Admits(rows[s].owner)
    /\ Insert(rows[s].owner, s)
    /\ audit' = audit \cup {<<s, Len(rows) + 1>>}

claim_next(s) ==
    /\ OldestClaimable(s)
    /\ rows' = [rows EXCEPT ![s] = [@ EXCEPT !.status = "running"]]
    /\ UNCHANGED audit

complete(s, v, e) ==
    /\ rows[s].status = "running"
    /\ rows' = [rows EXCEPT ![s] = [@ EXCEPT !.status = "completed", !.verdict = v, !.error = e]]
    /\ UNCHANGED audit

failUnguarded(s, e) ==
    /\ rows' = [rows EXCEPT ![s] = [@ EXCEPT !.status = "failed", !.error = e]]
    /\ UNCHANGED audit

fail(s, e) ==
    /\ rows[s].status = "running"
    /\ rows' = [rows EXCEPT ![s] = [@ EXCEPT !.status = "failed", !.error = e]]
    /\ UNCHANGED audit

RequeuedEverything ==
    [s \in Ids |-> [rows[s] EXCEPT !.status = "queued"]]

Requeued ==
    [s \in Ids |-> IF rows[s].status = "running"
                   THEN [rows[s] EXCEPT !.status = "queued"]
                   ELSE rows[s]]

recover_running ==
    /\ rows' = Requeued
    /\ UNCHANGED audit

----------------------------------------------------------------------------

TableInit == rows = << >> /\ audit = {}

\* What the judge can have a worker record: RuntimeError carries its type, the
\* other verdicts carry none.
Judgement == {j \in [verdict : Verdicts, error : RuntimeErrors \cup {Null}] :
                 j.verdict = "runtime_error" <=> j.error # Null}

TableNext ==
    \/ \E u \in Users : create(u)
    \/ \E s \in Ids : retry(s)
    \/ \E s \in Ids : claim_next(s)
    \/ \E s \in Ids, j \in Judgement : complete(s, j.verdict, j.error)
    \/ \E s \in Ids, e \in WorkerErrors : fail(s, e)
    \/ recover_running

TableSpec == TableInit /\ [][TableNext]_table

----------------------------------------------------------------------------
\* Properties.

\* Admission control: create and retry together never let more than MaxActive
\* submissions be queued or running, nor more than MaxActivePerUser of one
\* user (anonymous submissions count as one user), requeued rows included.
AdmissionLimits ==
    /\ Cardinality(Active) <= MaxActive
    /\ \A u \in Users : Cardinality(ActiveOf(u)) <= MaxActivePerUser

\* "At most one submission from the same user runs at a time"
\* (docs/database.md), for any limit: claim_next never exceeds it, even while
\* recover_running, complete and fail change the set it counts.
RunningLimit ==
    \A u \in Users : Cardinality(RunningOf(u)) <= MaxRunningPerUser

\* A user's submissions are judged in the order they were accepted: with the
\* default limit of one running submission per user, claim_next starts a row
\* only when every earlier row of its user has reached its final state, and
\* recover_running cannot undo that.
InOrderPerUser ==
    MaxRunningPerUser = 1 =>
        \A s, t \in Ids :
            (s < t /\ rows[s].owner = rows[t].owner /\ rows[t].status # "queued")
                => rows[s].status \in Terminal

\* The row-level CHECK of the schema extended to error_type: a pending row has
\* neither verdict nor error, a completed row has a verdict, with an error type
\* exactly when it is Runtime Error, a failed row has an error type only.
RowShape ==
    \A s \in Ids :
        /\ rows[s].status \in Pending => rows[s].verdict = Null /\ rows[s].error = Null
        /\ rows[s].status = "completed" =>
              /\ rows[s].verdict # Null
              /\ rows[s].verdict = "runtime_error" <=> rows[s].error # Null
        /\ rows[s].status = "failed" =>
              rows[s].verdict = Null /\ rows[s].error \in WorkerErrors

\* A retry is a later row of the same user, of an original that ended failed or
\* with Runtime Error; an original is retried at most once; and the audit log
\* holds exactly one record for each retry that exists.
RetryLineage ==
    /\ \A r \in Ids : rows[r].retry_of # 0 =>
          /\ rows[r].retry_of \in 1 .. (r - 1)
          /\ rows[rows[r].retry_of].owner = rows[r].owner
          /\ \/ rows[rows[r].retry_of].status = "failed"
             \/ rows[rows[r].retry_of].verdict = "runtime_error"
    /\ \A r, q \in Ids : rows[r].retry_of = rows[q].retry_of /\ rows[r].retry_of # 0
          => r = q
    /\ audit = {<<rows[r].retry_of, r>> : r \in {q \in Ids : rows[q].retry_of # 0}}

\* "Database constraints and guarded SQL updates prevent completed or failed
\* submissions from being transitioned again" (docs/database.md): no step of
\* any actor changes a finished row, removes a row, or changes whose it is.
FinishedRowsStay ==
    [][\A s \in Ids :
          /\ s \in DOMAIN rows'
          /\ rows'[s].owner = rows[s].owner /\ rows'[s].retry_of = rows[s].retry_of
          /\ rows[s].status \in Terminal => rows'[s] = rows[s]]_rows

=============================================================================
