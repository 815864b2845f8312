-------------------------- MODULE SubmissionQueue --------------------------
(***************************************************************************)
(* Backend processes working on one submissions table: the HTTP handlers   *)
(* that insert rows (SubmissionService::submit, admin_retry_submission),   *)
(* the threads of each SubmissionWorkerPool, the condition variable they   *)
(* sleep on, the start, stop and crash of a process, and database calls    *)
(* that fail.                                                              *)
(*                                                                         *)
(* Every process has one connection for all its submission statements,     *)
(* guarded by a mutex and never reopened: once lost, every call fails      *)
(* until the process restarts.                                             *)
(***************************************************************************)
EXTENDS SubmissionTable

CONSTANTS
    Instances,   \* backend processes that share the database
    Workers,     \* worker threads
    PoolOf,      \* PoolOf[w] is the process thread w belongs to
    MaxStarts,   \* bound of the model: process starts
    MaxFaults    \* bound of the model: failing database calls

ASSUME PoolAssumption ==
    /\ PoolOf \in [Workers -> Instances]
    /\ MaxStarts \in Nat /\ MaxFaults \in Nat

VARIABLES
    pool,      \* pool[i]: where process i is in its life (started_, stopping_)
    link,      \* link[i]: its connection works
    pending,   \* pending[i]: handlers that have inserted a row and not yet notified
    pc,        \* pc[w]: where thread w is in worker_loop and process_one
    job,       \* job[w]: the id process_one has claimed, 0 when none
    result,    \* result[w]: what it is about to record for that job
    starts, faults

pools   == <<pool, link, pending>>
threads == <<pc, job, result>>
bounds  == <<starts, faults>>
vars    == <<rows, audit, pool, link, pending, pc, job, result, starts, faults>>

NoResult == [verdict |-> Null, error |-> Null]

Steps == {"off", "check", "claim", "judge", "complete", "fail", "idle", "wait", "woken"}

\* Holding a claimed submission: between claim_next and the call that records
\* its outcome.
Processing == {"judge", "complete", "fail"}

VariableTypes ==
    /\ TableTypeOK
    /\ pool \in [Instances -> {"down", "up", "stopping", "joining"}]
    /\ link \in [Instances -> BOOLEAN]
    /\ pending \in [Instances -> Nat]
    /\ pc \in [Workers -> Steps]
    /\ job \in [Workers -> Nat]
    /\ result \in [Workers -> [verdict : Verdicts \cup {Null}, error : ErrorTypes \cup {Null}]]
    /\ starts \in Nat /\ faults \in Nat

\* What a thread is about to record is what the judge or the fallback named.
ResultOK ==
    \A w \in Workers :
        /\ pc[w] \in Processing => job[w] \in Ids
        /\ pc[w] = "complete" => result[w] \in Judgement
        /\ pc[w] = "fail" => result[w].error \in WorkerErrors

\* The types, and those of the arguments a thread has ready for complete and fail:
\* a verdict of the judge, with an error type if it is a runtime error, and one of
\* the three errors of the worker (process_one).
TypeOK == VariableTypes /\ ResultOK

WorkersOf(i) == {w \in Workers : PoolOf[w] = i}

Stopping(i) == pool[i] \in {"stopping", "joining"}

----------------------------------------------------------------------------
\* The outcome of one database call of process i. A call that fails leaves
\* the table alone, or (AnswerLost) has been committed when the connection
\* breaks, and the caller is told of a failure all the same.

Succeeds(i) == link[i] /\ UNCHANGED <<link, faults>>

Fault == faults < MaxFaults /\ faults' = faults + 1

Fails(i) ==
    \/ ~link[i] /\ UNCHANGED <<link, faults>>
    \/ link[i] /\ Fault /\ link' \in {link, [link EXCEPT ![i] = FALSE]}

AnswerLost(i) == link[i] /\ Fault /\ link' = [link EXCEPT ![i] = FALSE]

----------------------------------------------------------------------------
\* HTTP handlers. A rejected or failed call changes nothing and notifies no one.

NotifyLater(i) == pending' = [pending EXCEPT ![i] = @ + 1]

Submit(i, u) ==
    /\ pool[i] = "up"
    /\ create(u)
    /\ \/ Succeeds(i) /\ NotifyLater(i)
       \/ AnswerLost(i) /\ UNCHANGED pending
    /\ UNCHANGED <<pool, threads, starts>>

Retry(i, s) ==
    /\ pool[i] = "up"
    /\ retry(s)
    /\ \/ Succeeds(i) /\ NotifyLater(i)
       \/ AnswerLost(i) /\ UNCHANGED pending
    /\ UNCHANGED <<pool, threads, starts>>

Waiting(i) == {w \in WorkersOf(i) : pc[w] = "wait"}

\* notify(): notify_one without the mutex; it reaches a thread that is waiting
\* at this moment, or no thread at all.
Notify(i) ==
    /\ pending[i] > 0
    /\ pending' = [pending EXCEPT ![i] = @ - 1]
    /\ IF Waiting(i) = {} THEN UNCHANGED pc
       ELSE \E w \in Waiting(i) : pc' = [pc EXCEPT ![w] = "woken"]
    /\ UNCHANGED <<table, pool, link, job, result, bounds>>

----------------------------------------------------------------------------
\* worker_loop and process_one.

Goto(w, step) == pc' = [pc EXCEPT ![w] = step]

Check(w) ==
    /\ pc[w] = "check"
    /\ Goto(w, IF Stopping(PoolOf[w]) THEN "off" ELSE "claim")
    /\ UNCHANGED <<table, pools, job, result, bounds>>

Claim(w) ==
    /\ pc[w] = "claim"
    /\ \/ \E s \in Ids :
             /\ claim_next(s)
             /\ \/ /\ Succeeds(PoolOf[w])
                   /\ Goto(w, "judge")
                   /\ job' = [job EXCEPT ![w] = s]
                \/ /\ AnswerLost(PoolOf[w])
                   /\ Goto(w, "idle")
                   /\ UNCHANGED job
       \/ /\ \A s \in Ids : ~Claimable(s)
          /\ Succeeds(PoolOf[w])
          /\ Goto(w, "idle")
          /\ UNCHANGED <<table, job>>
       \/ /\ Fails(PoolOf[w])
          /\ Goto(w, "idle")
          /\ UNCHANGED <<table, job>>
    /\ UNCHANGED <<pool, pending, result, starts>>

\* judge_.run returns a verdict, a runtime error or a judge error, or throws.
Judge(w) ==
    /\ pc[w] = "judge"
    /\ \/ \E j \in Judgement :
             /\ Goto(w, "complete")
             /\ result' = [result EXCEPT ![w] = j]
       \/ \E e \in {"sandbox_error", "worker_error"} :
             /\ Goto(w, "fail")
             /\ result' = [result EXCEPT ![w] = [NoResult EXCEPT !.error = e]]
    /\ UNCHANGED <<table, pools, job, bounds>>

FinishJob(w) ==
    /\ Goto(w, "check")
    /\ job' = [job EXCEPT ![w] = 0]
    /\ result' = [result EXCEPT ![w] = NoResult]

FallBackWithErrorType(w) ==
    /\ Goto(w, "fail")
    /\ result' = [result EXCEPT ![w].verdict = Null]
    /\ UNCHANGED job

\* The lambda's fallback: fail(id, "Result Persistence Error").
FallBack(w) ==
    /\ Goto(w, "fail")
    /\ result' = [result EXCEPT ![w] = [NoResult EXCEPT !.error = "result_persistence_error"]]
    /\ UNCHANGED job

Complete(w) ==
    /\ pc[w] = "complete"
    /\ \/ /\ complete(job[w], result[w].verdict, result[w].error)
          /\ Succeeds(PoolOf[w]) /\ FinishJob(w)
       \/ /\ complete(job[w], result[w].verdict, result[w].error)
          /\ AnswerLost(PoolOf[w]) /\ FallBack(w)
       \/ /\ rows[job[w]].status # "running"
          /\ UNCHANGED table
          /\ Succeeds(PoolOf[w]) /\ FallBack(w)
       \/ /\ UNCHANGED table
          /\ Fails(PoolOf[w]) /\ FallBack(w)
    /\ UNCHANGED <<pool, pending, starts>>

\* The outcome of fail is ignored.
Fail(w) ==
    /\ pc[w] = "fail"
    /\ \/ fail(job[w], result[w].error) /\ (Succeeds(PoolOf[w]) \/ AnswerLost(PoolOf[w]))
       \/ rows[job[w]].status # "running" /\ UNCHANGED table /\ Succeeds(PoolOf[w])
       \/ UNCHANGED table /\ Fails(PoolOf[w])
    /\ FinishJob(w)
    /\ UNCHANGED <<pool, pending, starts>>

\* Taking the mutex and going to sleep in wait_for. stopping_ is not looked at
\* before, so whatever was signalled since the last look is missed.
Sleep(w) ==
    /\ pc[w] = "idle"
    /\ Goto(w, "wait")
    /\ UNCHANGED <<table, pools, job, result, bounds>>

WaitForever(w) == FALSE

\* idle_poll_interval_ has passed (or the wake-up is spurious).
Wake(w) ==
    /\ pc[w] = "wait"
    /\ Goto(w, "woken")
    /\ UNCHANGED <<table, pools, job, result, bounds>>

Resume(w) ==
    /\ pc[w] = "woken"
    /\ Goto(w, IF Stopping(PoolOf[w]) THEN "off" ELSE "check")
    /\ UNCHANGED <<table, pools, job, result, bounds>>

WorkerStep(w) ==
    \/ Check(w) \/ Claim(w) \/ Judge(w) \/ Complete(w) \/ Fail(w)
    \/ Sleep(w) \/ Wake(w) \/ Resume(w)

----------------------------------------------------------------------------
\* The life of a process.

SetThreads(i, step) ==
    /\ pc' = [w \in Workers |-> IF PoolOf[w] = i THEN step ELSE pc[w]]
    /\ job' = [w \in Workers |-> IF PoolOf[w] = i THEN 0 ELSE job[w]]
    /\ result' = [w \in Workers |-> IF PoolOf[w] = i THEN NoResult ELSE result[w]]

StartWithoutRecovery(i) ==
    /\ pool[i] = "down" /\ starts < MaxStarts
    /\ UNCHANGED table
    /\ pool' = [pool EXCEPT ![i] = "up"]
    /\ link' = [link EXCEPT ![i] = TRUE]
    /\ SetThreads(i, "check")
    /\ starts' = starts + 1
    /\ UNCHANGED <<pending, faults>>

StartAgain(i) ==
    /\ pool[i] \in {"down", "up"} /\ starts < MaxStarts
    /\ recover_running
    /\ pool' = [pool EXCEPT ![i] = "up"]
    /\ link' = [link EXCEPT ![i] = TRUE]
    /\ IF pool[i] = "down" THEN SetThreads(i, "check") ELSE UNCHANGED threads
    /\ starts' = starts + 1
    /\ UNCHANGED <<pending, faults>>

StartRequeuingAll(i) ==
    /\ pool[i] = "down" /\ starts < MaxStarts
    /\ rows' = RequeuedEverything /\ UNCHANGED audit
    /\ pool' = [pool EXCEPT ![i] = "up"]
    /\ link' = [link EXCEPT ![i] = TRUE]
    /\ SetThreads(i, "check")
    /\ starts' = starts + 1
    /\ UNCHANGED <<pending, faults>>

\* main opens the connection and calls start(), which requeues every running
\* row of the table and starts the threads.
Start(i) ==
    /\ pool[i] = "down" /\ starts < MaxStarts
    /\ recover_running
    /\ pool' = [pool EXCEPT ![i] = "up"]
    /\ link' = [link EXCEPT ![i] = TRUE]
    /\ SetThreads(i, "check")
    /\ starts' = starts + 1
    /\ UNCHANGED <<pending, faults>>

\* recover_running reports an error, after or before its effect, and main
\* returns.
StartFails(i) ==
    /\ pool[i] = "down" /\ starts < MaxStarts
    /\ recover_running \/ UNCHANGED table
    /\ Fault
    /\ starts' = starts + 1
    /\ UNCHANGED <<pools, threads>>

\* The destructor's stop(), first part: stopping_ is set under the mutex.
Stop(i) ==
    /\ pool[i] = "up"
    /\ pool' = [pool EXCEPT ![i] = "stopping"]
    /\ UNCHANGED <<table, link, pending, threads, bounds>>

NotifyAll(i) ==
    /\ pool[i] = "stopping"
    /\ pool' = [pool EXCEPT ![i] = "joining"]
    /\ pc' = [w \in Workers |-> IF w \in Waiting(i) THEN "woken" ELSE pc[w]]
    /\ UNCHANGED <<table, link, pending, job, result, bounds>>

JoinEarly(i) ==
    /\ pool[i] = "joining"
    /\ pool' = [pool EXCEPT ![i] = "down"]
    /\ pending' = [pending EXCEPT ![i] = 0]
    /\ UNCHANGED <<table, link, threads, bounds>>

Join(i) ==
    /\ pool[i] = "joining"
    /\ \A w \in WorkersOf(i) : pc[w] = "off"
    /\ pool' = [pool EXCEPT ![i] = "down"]
    /\ pending' = [pending EXCEPT ![i] = 0]
    /\ UNCHANGED <<table, link, threads, bounds>>

Crash(i) ==
    /\ pool[i] # "down"
    /\ pool' = [pool EXCEPT ![i] = "down"]
    /\ pending' = [pending EXCEPT ![i] = 0]
    /\ SetThreads(i, "off")
    /\ UNCHANGED <<table, link, bounds>>

----------------------------------------------------------------------------

Init ==
    /\ TableInit
    /\ pool = [i \in Instances |-> "down"]
    /\ link = [i \in Instances |-> FALSE]
    /\ pending = [i \in Instances |-> 0]
    /\ pc = [w \in Workers |-> "off"]
    /\ job = [w \in Workers |-> 0]
    /\ result = [w \in Workers |-> NoResult]
    /\ starts = 0 /\ faults = 0

Next ==
    \/ \E i \in Instances :
          \/ Start(i) \/ StartFails(i) \/ Stop(i) \/ NotifyAll(i) \/ Join(i) \/ Crash(i)
          \/ Notify(i)
          \/ \E u \in Users : Submit(i, u)
          \/ \E s \in Ids : Retry(i, s)
    \/ \E w \in Workers : WorkerStep(w)

Spec == Init /\ [][Next]_vars

\* A thread that is not blocked runs, wait_for returns after the poll interval,
\* and judge_.run returns because the executor bounds every run; stop() itself
\* is never abandoned. Nothing promises that a process is started, stopped or
\* used, and notify() may never come.
Fairness ==
    /\ \A w \in Workers : WF_vars(WorkerStep(w))
    /\ \A i \in Instances : WF_vars(NotifyAll(i)) /\ WF_vars(Join(i))

FairSpec == Spec /\ Fairness

----------------------------------------------------------------------------
\* Properties.

Holds(w, s) == pc[w] \in Processing /\ job[w] = s

\* "Workers atomically claim the oldest queued row, which prevents concurrent
\* workers from processing the same submission" (docs/database.md): no two
\* threads are between claim_next and the last recording call for one row.
ExclusiveProcessing ==
    \A w, x \in Workers :
        pc[w] \in Processing /\ pc[x] \in Processing /\ w # x => job[w] # job[x]

\* A thread that is judging or about to call complete has a row that is still
\* 'running', so the status guard never refuses a verdict: nobody else has
\* finished or requeued the row meanwhile.
HeldRowIsRunning ==
    \A w \in Workers : pc[w] \in {"judge", "complete"} =>
        job[w] \in Ids /\ rows[job[w]].status = "running"

Orphan(s) == rows[s].status = "running" /\ \A w \in Workers : ~Holds(w, s)

\* While no database call has failed, a running process leaves no row stranded
\* in 'running': each one is in the hands of a thread. (A crash strands rows,
\* and the recover_running of the next start takes them back.)
NoOrphanWithoutFault ==
    faults = 0 /\ (\E i \in Instances : pool[i] = "up") => \A s \in Ids : ~Orphan(s)

Serving == \E i \in Instances : pool[i] = "up" /\ link[i]

\* Work survives restarts and lost wake-ups: if from some time on a process
\* stays up with a working connection, every submission it has queued, or that
\* an earlier process left running when it crashed, reaches a verdict or a
\* failure, unless a failed database call has stranded a row of the same user.
QueueDrains ==
    <>[]Serving =>
        \A s \in 1 .. MaxRows :
            (s \in Ids /\ rows[s].status \in Pending)
                ~> (s \in Ids /\ (rows[s].status \in Terminal
                                  \/ /\ faults > 0
                                     /\ \E t \in Ids : rows[t].owner = rows[s].owner /\ Orphan(t)))

\* stop() returns: every thread sees stopping_ and is joined, whatever it was
\* doing and although the notify_all can be missed.
StopReturns == \A i \in Instances : Stopping(i) ~> pool[i] = "down"

\* join() has waited for the thread's last database call: once stop() has
\* returned, or after a crash, no thread of that process works on a row.
StoppedMeansQuiet ==
    \A i \in Instances : pool[i] = "down" => \A w \in WorkersOf(i) : pc[w] = "off"

=============================================================================
