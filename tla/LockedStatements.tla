-------------------------- MODULE LockedStatements --------------------------
(***************************************************************************)
(* The statements of SubmissionTable as PostgreSQL runs them for several   *)
(* connections at once, at the isolation level READ COMMITTED.             *)
(*                                                                         *)
(* Connection::execute_locked wraps create, retry and claim_next in BEGIN, *)
(* pg_advisory_xact_lock, the statement and COMMIT. The statement counts   *)
(* and selects in a snapshot taken when it begins, after the lock, and     *)
(* what it writes is seen by others only after COMMIT. complete, fail and  *)
(* recover_running run without the lock, between any two of these steps.   *)
(*                                                                         *)
(* rows holds the committed rows only. An identity value is used up by the *)
(* INSERT even when its transaction is rolled back, so that here the       *)
(* domain of rows may have gaps.                                           *)
(***************************************************************************)
EXTENDS SubmissionTable, Tables

CONSTANTS
    Connections,
    None            \* no connection

ASSUME NoneAssumption == None \notin Connections

VARIABLES
    step,       \* step[c]: how far connection c is in its transaction
    call,       \* call[c]: the call that began it
    write,      \* write[c]: the rows its statement has written, not yet committed
    seen,       \* seen[c]: the running rows in the snapshot of recover_running
    lock,       \* lock[k]: the connection that holds advisory lock k
    sequence    \* the last identity value handed out

session == <<step, call, write, seen>>
vars    == <<rows, audit, step, call, write, seen, lock, sequence>>

Keys == {"admission", "claim"}      \* 784512903 and 784512904

NoCall == [op |-> "none", user |-> None, id |-> 0]

Calls ==
    [op : {"create"}, user : Users, id : {0}]
        \cup [op : {"retry"}, user : {None}, id : 1 .. MaxRows]
        \cup {[NoCall EXCEPT !.op = "claim_next"]}

KeyOfRetryApart(op) ==
    IF op = "create" THEN "admission" ELSE "claim"

KeyOf(op) == IF op = "claim_next" THEN "claim" ELSE "admission"

NoRows == << >>

\* Rows another transaction has written and not committed are locked.
RowLocked(c) == UNION {DOMAIN write[d] : d \in Connections \ {c}}

----------------------------------------------------------------------------
\* execute_locked.

\* MaxRows leaves an identity value for every INSERT that is under way.
Room ==
    sequence + Cardinality({c \in Connections : /\ step[c] \in {"begun", "locked"}
                                                /\ call[c].op # "claim_next"}) < MaxRows

Begin(c) ==
    /\ step[c] = "idle"
    /\ \E k \in Calls :
          /\ k.op = "retry" => k.id \in Ids
          /\ k.op # "claim_next" => Room
          /\ call' = [call EXCEPT ![c] = k]
    /\ step' = [step EXCEPT ![c] = "begun"]
    /\ UNCHANGED <<table, write, seen, lock, sequence>>

LockNotWaiting(c) ==
    /\ step[c] = "begun"
    /\ lock' = [lock EXCEPT ![KeyOf(call[c].op)] = c]
    /\ step' = [step EXCEPT ![c] = "locked"]
    /\ UNCHANGED <<table, call, write, seen, sequence>>

LockUnlessClaim(c) ==
    /\ step[c] = "begun"
    /\ call[c].op # "claim_next" => lock[KeyOf(call[c].op)] = None
    /\ lock' = [lock EXCEPT ![KeyOf(call[c].op)] = c]
    /\ step' = [step EXCEPT ![c] = "locked"]
    /\ UNCHANGED <<table, call, write, seen, sequence>>

Lock(c) ==
    /\ step[c] = "begun"
    /\ lock[KeyOf(call[c].op)] = None
    /\ lock' = [lock EXCEPT ![KeyOf(call[c].op)] = c]
    /\ step' = [step EXCEPT ![c] = "locked"]
    /\ UNCHANGED <<table, call, write, seen, sequence>>

Inserts(c, u, original) ==
    /\ sequence' = sequence + 1
    /\ write' = [write EXCEPT ![c] = With(NoRows, sequence + 1, NewRow(u, original))]

WritesNothing == UNCHANGED <<write, sequence>>

Creates(c) ==
    LET u == call[c].user
    IN IF Admits(u) THEN Inserts(c, u, 0) ELSE WritesNothing

Retried(c) ==
    LET s == call[c].id
    IN IF Retryable(s) /\ Admits(rows[s].owner)
       THEN Inserts(c, rows[s].owner, s)
       ELSE WritesNothing

\* FOR UPDATE OF queued SKIP LOCKED LIMIT 1, in the order of the ids.
Candidates(c) == {s \in Ids : Claimable(s) /\ s \notin RowLocked(c)}

Claims(c) ==
    IF Candidates(c) = {} THEN WritesNothing
    ELSE \E s \in Candidates(c) :
            /\ \A t \in Candidates(c) : s <= t
            /\ write' = [write EXCEPT ![c] = With(NoRows, s, [rows[s] EXCEPT !.status = "running"])]
            /\ UNCHANGED sequence

Execute(c) ==
    /\ step[c] = "locked"
    /\ \/ call[c].op = "create" /\ Creates(c)
       \/ call[c].op = "retry" /\ Retried(c)
       \/ call[c].op = "claim_next" /\ Claims(c)
    /\ step' = [step EXCEPT ![c] = "executed"]
    /\ UNCHANGED <<table, call, seen, lock>>

ReleasesRowsOnly(c) ==
    /\ step' = [step EXCEPT ![c] = "idle"]
    /\ call' = [call EXCEPT ![c] = NoCall]
    /\ write' = [write EXCEPT ![c] = NoRows]
    /\ seen' = [seen EXCEPT ![c] = {}]
    /\ UNCHANGED lock

\* The end of a transaction gives back its row locks and its advisory lock.
Releases(c) ==
    /\ step' = [step EXCEPT ![c] = "idle"]
    /\ call' = [call EXCEPT ![c] = NoCall]
    /\ write' = [write EXCEPT ![c] = NoRows]
    /\ seen' = [seen EXCEPT ![c] = {}]
    /\ lock' = [k \in Keys |-> IF lock[k] = c THEN None ELSE lock[k]]

\* The retry and its audit record are one statement, hence one commit.
Commit(c) ==
    /\ step[c] = "executed"
    /\ rows' = Joined(write[c], rows)
    /\ audit' = audit \cup {<<write[c][s].retry_of, s>> :
                               s \in {t \in DOMAIN write[c] : write[c][t].retry_of # 0}}
    /\ Releases(c)
    /\ UNCHANGED sequence

AbortAfterAudit(c) ==
    /\ step[c] # "idle"
    /\ Releases(c)
    /\ audit' = audit \cup {<<write[c][s].retry_of, s>> :
                               s \in {t \in DOMAIN write[c] : write[c][t].retry_of # 0}}
    /\ UNCHANGED <<rows, sequence>>

\* A command fails and is followed by ROLLBACK, or the connection is lost and
\* the server rolls back.
Abort(c) ==
    /\ step[c] # "idle"
    /\ Releases(c)
    /\ UNCHANGED <<table, sequence>>

----------------------------------------------------------------------------
\* The statements that take no advisory lock.

\* complete and fail update one row, under its row lock, if it is 'running'.
\* Which error fail records makes no difference to any statement.
Finish(c) ==
    /\ step[c] = "idle"
    /\ \E s \in Ids :
          \/ \E j \in Judgement : complete(s, j.verdict, j.error)
          \/ fail(s, "worker_error")
    /\ UNCHANGED <<session, lock, sequence>>

RecoverReads(c) ==
    /\ step[c] = "idle"
    /\ step' = [step EXCEPT ![c] = "recovering"]
    /\ seen' = [seen EXCEPT ![c] = {s \in Ids : rows[s].status = "running"}]
    /\ UNCHANGED <<table, call, write, lock, sequence>>

RecoverWritesUnchecked(c) ==
    /\ step[c] = "recovering"
    /\ rows' = [s \in Ids |-> IF s \in seen[c] THEN [rows[s] EXCEPT !.status = "queued"]
                              ELSE rows[s]]
    /\ Releases(c)
    /\ UNCHANGED <<audit, sequence>>

\* PostgreSQL evaluates the WHERE clause again on a row that has changed since
\* the snapshot; a row that was not in it is passed over.
RecoverWrites(c) ==
    /\ step[c] = "recovering"
    /\ rows' = [s \in Ids |-> IF s \in seen[c] THEN Requeued[s] ELSE rows[s]]
    /\ Releases(c)
    /\ UNCHANGED <<audit, sequence>>

----------------------------------------------------------------------------

LockedInit ==
    /\ TableInit
    /\ step = [c \in Connections |-> "idle"]
    /\ call = [c \in Connections |-> NoCall]
    /\ write = [c \in Connections |-> NoRows]
    /\ seen = [c \in Connections |-> {}]
    /\ lock = [k \in Keys |-> None]
    /\ sequence = 0

LockedNext ==
    \E c \in Connections :
        \/ Begin(c) \/ Lock(c) \/ Execute(c) \/ Commit(c) \/ Abort(c)
        \/ Finish(c) \/ RecoverReads(c) \/ RecoverWrites(c)

LockedSpec == LockedInit /\ [][LockedNext]_vars

\* A connection goes on with the transaction it has begun, and PostgreSQL's
\* lock queue serves a waiting connection in its turn.
LockedFairness ==
    \A c \in Connections :
        /\ SF_vars(Lock(c))
        /\ WF_vars(Execute(c) \/ Commit(c) \/ RecoverWrites(c))

LockedFairSpec == LockedSpec /\ LockedFairness

----------------------------------------------------------------------------
\* Properties, beside those of SubmissionTable: AdmissionLimits, RunningLimit,
\* InOrderPerUser, RetryLineage and FinishedRowsStay of the committed rows.

\* Every call of execute_locked returns, whoever else crashes, rolls back or
\* waits: an advisory lock does not outlive the transaction that took it.
CallsReturn ==
    \A c \in Connections :
        step[c] # "idle" ~> step[c] = "idle"

=============================================================================
