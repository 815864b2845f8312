----------------------- MODULE SubmissionQueueProofs -----------------------
(* Proofs about SubmissionQueue, for any number of processes, threads and  *)
(* users: the queue implements SubmissionTable's TableSpec, and the threads *)
(* of a single process never work on one row together.                     *)
EXTENDS SubmissionQueue, SubmissionTableProofs

----------------------------------------------------------------------------
\* Every statement of the model is one of the table's.

LEMMA StepIsTableStep ==
    ASSUME ResultOK, [Next]_vars
    PROVE  [TableNext]_table
  <1>1. CASE UNCHANGED vars
    BY <1>1 DEF vars, table
  <1>2. ASSUME NEW i \in Instances,
               Stop(i) \/ NotifyAll(i) \/ Join(i) \/ Crash(i) \/ Notify(i)
        PROVE  UNCHANGED table
    BY <1>2 DEF Stop, NotifyAll, Join, Crash, Notify, table
  <1>3. ASSUME NEW i \in Instances, Start(i) \/ StartFails(i) PROVE [TableNext]_table
    BY <1>3 DEF Start, StartFails, TableNext
  <1>4. ASSUME NEW i \in Instances, NEW u \in Users, Submit(i, u) PROVE TableNext
    BY <1>4 DEF Submit, TableNext
  <1>5. ASSUME NEW i \in Instances, NEW s \in Ids, Retry(i, s) PROVE TableNext
    BY <1>5 DEF Retry, TableNext
  <1>6. ASSUME NEW w \in Workers,
               Check(w) \/ Judge(w) \/ Sleep(w) \/ Wake(w) \/ Resume(w)
        PROVE  UNCHANGED table
    BY <1>6 DEF Check, Judge, Sleep, Wake, Resume, table
  <1>7. ASSUME NEW w \in Workers, Claim(w) PROVE [TableNext]_table
    BY <1>7 DEF Claim, TableNext
  <1>8. ASSUME NEW w \in Workers, Complete(w) PROVE [TableNext]_table
    <2>1. job[w] \in Ids /\ result[w] \in Judgement
      BY <1>8 DEF Complete, ResultOK, Processing
    <2>2. CASE UNCHANGED table
      BY <2>2
    <2>3. CASE complete(job[w], result[w].verdict, result[w].error)
      BY <2>1, <2>3 DEF TableNext
    <2>4. QED
      BY <1>8, <2>2, <2>3 DEF Complete
  <1>9. ASSUME NEW w \in Workers, Fail(w) PROVE [TableNext]_table
    <2>1. job[w] \in Ids /\ result[w].error \in WorkerErrors
      BY <1>9 DEF Fail, ResultOK, Processing
    <2>2. CASE UNCHANGED table
      BY <2>2
    <2>3. CASE fail(job[w], result[w].error)
      BY <2>1, <2>3 DEF TableNext
    <2>4. QED
      BY <1>9, <2>2, <2>3 DEF Fail
  <1>10. QED
    BY <1>1, <1>2, <1>3, <1>4, <1>5, <1>6, <1>7, <1>8, <1>9 DEF Next, WorkerStep

----------------------------------------------------------------------------
\* Types.

LEMMA CallTypes ==
    ASSUME VariableTypes, NEW i \in Instances, Succeeds(i) \/ Fails(i) \/ AnswerLost(i)
    PROVE  link' \in [Instances -> BOOLEAN] /\ faults' \in Nat
  <1>1. link \in [Instances -> BOOLEAN] /\ [link EXCEPT ![i] = FALSE] \in [Instances -> BOOLEAN]
    BY DEF VariableTypes
  <1>2. /\ link' = link \/ link' = [link EXCEPT ![i] = FALSE]
        /\ faults' = faults \/ faults' = faults + 1
    <2>1. CASE Succeeds(i)
      BY <2>1 DEF Succeeds
    <2>2. CASE Fails(i)
      BY <2>2, Zenon DEF Fails, Fault
    <2>3. CASE AnswerLost(i)
      BY <2>3 DEF AnswerLost, Fault
    <2>4. QED
      BY <2>1, <2>2, <2>3
  <1>3. link' \in [Instances -> BOOLEAN]
    BY <1>1, <1>2, Zenon
  <1>4. faults' \in Nat
    BY <1>2 DEF VariableTypes
  <1>5. QED
    BY <1>3, <1>4

LEMMA JudgementType ==
    ASSUME NEW j \in Judgement
    PROVE  j \in [verdict : Verdicts \cup {Null}, error : ErrorTypes \cup {Null}]
  <1>1. j \in [verdict : Verdicts, error : RuntimeErrors \cup {Null}]
    BY DEF Judgement
  <1>2. QED
    BY <1>1 DEF ErrorTypes

LEMMA NoResultType ==
    /\ NoResult \in [verdict : Verdicts \cup {Null}, error : ErrorTypes \cup {Null}]
    /\ \A e \in WorkerErrors :
          /\ [NoResult EXCEPT !.error = e]
                \in [verdict : Verdicts \cup {Null}, error : ErrorTypes \cup {Null}]
          /\ [NoResult EXCEPT !.error = e].error = e
  BY DEF NoResult, ErrorTypes

ThreadsTypeOK ==
    /\ pc \in [Workers -> Steps]
    /\ job \in [Workers -> Nat]
    /\ result \in [Workers -> [verdict : Verdicts \cup {Null}, error : ErrorTypes \cup {Null}]]

LEMMA FinishJobType ==
    ASSUME ThreadsTypeOK, NEW w \in Workers, FinishJob(w)
    PROVE  ThreadsTypeOK'
  BY NoResultType DEF ThreadsTypeOK, FinishJob, Goto, Steps

LEMMA FallBackType ==
    ASSUME ThreadsTypeOK, NEW w \in Workers, FallBack(w)
    PROVE  ThreadsTypeOK'
  <1>1. [NoResult EXCEPT !.error = "result_persistence_error"]
            \in [verdict : Verdicts \cup {Null}, error : ErrorTypes \cup {Null}]
    BY NoResultType DEF WorkerErrors
  <1>2. QED
    BY <1>1 DEF ThreadsTypeOK, FallBack, Goto, Steps

LEMMA SetThreadsType ==
    ASSUME ThreadsTypeOK, NEW i, NEW step \in Steps, SetThreads(i, step)
    PROVE  ThreadsTypeOK'
  <1>1. pc' \in [Workers -> Steps]
    BY DEF ThreadsTypeOK, SetThreads
  <1>2. job' \in [Workers -> Nat]
    BY DEF ThreadsTypeOK, SetThreads
  <1>3. result' \in [Workers -> [verdict : Verdicts \cup {Null}, error : ErrorTypes \cup {Null}]]
    BY NoResultType DEF ThreadsTypeOK, SetThreads
  <1>4. QED
    BY <1>1, <1>2, <1>3 DEF ThreadsTypeOK

PoolsTypeOK ==
    /\ pool \in [Instances -> {"down", "up", "stopping", "joining"}]
    /\ link \in [Instances -> BOOLEAN]
    /\ pending \in [Instances -> Nat]
    /\ starts \in Nat /\ faults \in Nat

LEMMA TypeStep == VariableTypes /\ ResultOK /\ [Next]_vars => VariableTypes'
  <1> SUFFICES ASSUME VariableTypes, ResultOK, [Next]_vars PROVE VariableTypes'
    OBVIOUS
  <1> USE PoolAssumption
  <1>1. TableTypeOK /\ ThreadsTypeOK /\ PoolsTypeOK
    BY DEF VariableTypes, ThreadsTypeOK, PoolsTypeOK
  <1>2. TableTypeOK'
    BY <1>1, StepIsTableStep, RowsGrow
  <1>3. ThreadsTypeOK' /\ PoolsTypeOK'
    <2>1. CASE UNCHANGED vars
      BY <1>1, <2>1 DEF vars, ThreadsTypeOK, PoolsTypeOK
    <2>2. ASSUME NEW i \in Instances, Stop(i) \/ Join(i)
          PROVE  ThreadsTypeOK' /\ PoolsTypeOK'
      BY <1>1, <2>2 DEF Stop, Join, threads, bounds, ThreadsTypeOK, PoolsTypeOK
    <2>3. ASSUME NEW i \in Instances, NotifyAll(i) PROVE ThreadsTypeOK' /\ PoolsTypeOK'
      BY <1>1, <2>3 DEF NotifyAll, bounds, Steps, ThreadsTypeOK, PoolsTypeOK
    <2>4. ASSUME NEW i \in Instances, Notify(i) PROVE ThreadsTypeOK' /\ PoolsTypeOK'
      <3>1. PoolsTypeOK'
        <4>1. pending' \in [Instances -> Nat]
          BY <1>1, <2>4 DEF Notify, PoolsTypeOK
        <4>2. QED
          BY <1>1, <2>4, <4>1 DEF Notify, bounds, PoolsTypeOK
      <3>2. pc' = pc \/ \E w \in Workers : pc' = [pc EXCEPT ![w] = "woken"]
        BY <2>4, Zenon DEF Notify, Waiting, WorkersOf
      <3>3. pc' \in [Workers -> Steps]
        BY <1>1, <3>2 DEF ThreadsTypeOK, Steps
      <3>4. QED
        BY <1>1, <2>4, <3>1, <3>3 DEF Notify, ThreadsTypeOK
    <2>5. ASSUME NEW i \in Instances, Crash(i) PROVE ThreadsTypeOK' /\ PoolsTypeOK'
      <3>1. ThreadsTypeOK'
        BY <1>1, <2>5, SetThreadsType DEF Crash, Steps
      <3>2. PoolsTypeOK'
        BY <1>1, <2>5 DEF Crash, bounds, PoolsTypeOK
      <3>3. QED
        BY <3>1, <3>2
    <2>6. ASSUME NEW i \in Instances, Start(i) PROVE ThreadsTypeOK' /\ PoolsTypeOK'
      <3>1. ThreadsTypeOK'
        BY <1>1, <2>6, SetThreadsType DEF Start, Steps
      <3>2. PoolsTypeOK'
        BY <1>1, <2>6 DEF Start, PoolsTypeOK
      <3>3. QED
        BY <3>1, <3>2
    <2>7. ASSUME NEW i \in Instances, StartFails(i) PROVE ThreadsTypeOK' /\ PoolsTypeOK'
      BY <1>1, <2>7 DEF StartFails, Fault, threads, pools, ThreadsTypeOK, PoolsTypeOK
    <2>8. ASSUME NEW i \in Instances, NEW u \in Users, Submit(i, u)
          PROVE  ThreadsTypeOK' /\ PoolsTypeOK'
      BY <1>1, <2>8, CallTypes DEF Submit, NotifyLater, threads, ThreadsTypeOK, PoolsTypeOK
    <2>9. ASSUME NEW i \in Instances, NEW s \in Ids, Retry(i, s)
          PROVE  ThreadsTypeOK' /\ PoolsTypeOK'
      BY <1>1, <2>9, CallTypes DEF Retry, NotifyLater, threads, ThreadsTypeOK, PoolsTypeOK
    <2>10. ASSUME NEW w \in Workers, Check(w) \/ Sleep(w) \/ Wake(w) \/ Resume(w)
           PROVE  ThreadsTypeOK' /\ PoolsTypeOK'
      BY <1>1, <2>10 DEF Check, Sleep, Wake, Resume, Goto, Steps, pools, bounds,
                         ThreadsTypeOK, PoolsTypeOK
    <2>11. ASSUME NEW w \in Workers, Judge(w) PROVE ThreadsTypeOK' /\ PoolsTypeOK'
      <3>1. PoolsTypeOK' /\ pc' \in [Workers -> Steps] /\ job' \in [Workers -> Nat]
        BY <1>1, <2>11 DEF Judge, Goto, Steps, pools, bounds, ThreadsTypeOK, PoolsTypeOK
      <3>2. PICK v \in [verdict : Verdicts \cup {Null}, error : ErrorTypes \cup {Null}] :
                result' = [result EXCEPT ![w] = v]
        BY <2>11, JudgementType, NoResultType DEF Judge, WorkerErrors
      <3>3. QED
        BY <1>1, <3>1, <3>2 DEF ThreadsTypeOK
    <2>12. ASSUME NEW w \in Workers, Claim(w) PROVE ThreadsTypeOK' /\ PoolsTypeOK'
      <3>1. link' \in [Instances -> BOOLEAN] /\ faults' \in Nat
        BY <2>12, CallTypes DEF Claim
      <3>2. \A s \in Ids : s \in Nat
        BY <1>1, RowFacts
      <3>3. QED
        BY <1>1, <2>12, <3>1, <3>2 DEF Claim, Goto, Steps, ThreadsTypeOK, PoolsTypeOK
    <2>13. ASSUME NEW w \in Workers, Complete(w) PROVE ThreadsTypeOK' /\ PoolsTypeOK'
      <3>1. link' \in [Instances -> BOOLEAN] /\ faults' \in Nat
        BY <2>13, CallTypes DEF Complete
      <3>2. ThreadsTypeOK'
        BY <1>1, <2>13, FinishJobType, FallBackType DEF Complete
      <3>3. QED
        BY <1>1, <2>13, <3>1, <3>2 DEF Complete, PoolsTypeOK
    <2>14. ASSUME NEW w \in Workers, Fail(w) PROVE ThreadsTypeOK' /\ PoolsTypeOK'
      <3>1. link' \in [Instances -> BOOLEAN] /\ faults' \in Nat
        BY <2>14, CallTypes DEF Fail
      <3>2. ThreadsTypeOK'
        BY <1>1, <2>14, FinishJobType DEF Fail
      <3>3. QED
        BY <1>1, <2>14, <3>1, <3>2 DEF Fail, PoolsTypeOK
    <2>15. QED
      BY <2>1, <2>2, <2>3, <2>4, <2>5, <2>6, <2>7, <2>8, <2>9, <2>10, <2>11, <2>12,
         <2>13, <2>14 DEF Next, WorkerStep
  <1>4. QED
    BY <1>2, <1>3 DEF VariableTypes, ThreadsTypeOK, PoolsTypeOK

LEMMA ResultStep == VariableTypes /\ ResultOK /\ [Next]_vars => ResultOK'
  <1> SUFFICES ASSUME VariableTypes, ResultOK, [Next]_vars PROVE ResultOK'
    OBVIOUS
  <1>1. Ids \subseteq Ids'
    BY StepIsTableStep, RowsGrow DEF VariableTypes
  <1>2. ASSUME NEW x \in Workers,
               pc'[x] \in Processing => pc'[x] = pc[x],
               job'[x] = job[x], result'[x] = result[x]
        PROVE  /\ pc'[x] \in Processing => job'[x] \in Ids'
               /\ pc'[x] = "complete" => result'[x] \in Judgement
               /\ pc'[x] = "fail" => result'[x].error \in WorkerErrors
    BY <1>1, <1>2 DEF ResultOK, Processing
  <1>3. CASE UNCHANGED threads
    BY <1>2, <1>3 DEF threads, ResultOK
  <1>4. ASSUME NEW i \in Instances, Stop(i) \/ Join(i) \/ StartFails(i) PROVE UNCHANGED threads
    BY <1>4 DEF Stop, Join, StartFails
  <1>5. ASSUME NEW i \in Instances, NEW u \in Users, Submit(i, u) PROVE UNCHANGED threads
    BY <1>5 DEF Submit
  <1>6. ASSUME NEW i \in Instances, NEW s \in Ids, Retry(i, s) PROVE UNCHANGED threads
    BY <1>6 DEF Retry
  <1>7. ASSUME NEW i \in Instances, NotifyAll(i) PROVE ResultOK'
    <2>1. \A x \in Workers : pc'[x] \in Processing => pc'[x] = pc[x]
      BY <1>7 DEF NotifyAll, Processing
    <2>2. QED
      BY <1>2, <1>7, <2>1 DEF NotifyAll, ResultOK
  <1>8. ASSUME NEW i \in Instances, Notify(i) PROVE ResultOK'
    <2>1. pc' = pc \/ \E w \in Workers : pc' = [pc EXCEPT ![w] = "woken"]
      BY <1>8, Zenon DEF Notify, Waiting, WorkersOf
    <2>2. \A x \in Workers : pc'[x] \in Processing => pc'[x] = pc[x]
      BY <2>1 DEF VariableTypes, Processing
    <2>3. QED
      BY <1>2, <1>8, <2>2 DEF Notify, ResultOK
  <1>9. ASSUME NEW i \in Instances, NEW step \in {"off", "check"}, SetThreads(i, step)
        PROVE  ResultOK'
    <2>1. ASSUME NEW x \in Workers
          PROVE  /\ pc'[x] \in Processing => job'[x] \in Ids'
                 /\ pc'[x] = "complete" => result'[x] \in Judgement
                 /\ pc'[x] = "fail" => result'[x].error \in WorkerErrors
      <3>1. CASE PoolOf[x] = i
        BY <1>9, <3>1 DEF SetThreads, Processing
      <3>2. CASE PoolOf[x] # i
        BY <1>2, <1>9, <3>2 DEF SetThreads
      <3>3. QED
        BY <3>1, <3>2
    <2>2. QED
      BY <2>1 DEF ResultOK
  <1>10. ASSUME NEW w \in Workers, Check(w) \/ Sleep(w) \/ Wake(w) \/ Resume(w)
         PROVE  ResultOK'
    <2>1. PICK step \in Steps \ Processing : pc' = [pc EXCEPT ![w] = step]
      BY <1>10 DEF Check, Sleep, Wake, Resume, Goto, Steps, Processing
    <2>2. \A x \in Workers : pc'[x] \in Processing => pc'[x] = pc[x]
      BY <2>1 DEF VariableTypes
    <2>3. UNCHANGED <<job, result>>
      BY <1>10 DEF Check, Sleep, Wake, Resume
    <2>4. QED
      BY <1>2, <2>2, <2>3 DEF ResultOK
  <1>11. ASSUME NEW w \in Workers, Claim(w) PROVE ResultOK'
    <2>1. ASSUME NEW x \in Workers, x # w
          PROVE  pc'[x] = pc[x] /\ job'[x] = job[x] /\ result'[x] = result[x]
      BY <1>11, <2>1 DEF Claim, Goto, VariableTypes
    <2>2. pc'[w] \in {"judge", "idle"} /\ (pc'[w] = "judge" => job'[w] \in Ids)
      BY <1>11 DEF Claim, Goto, VariableTypes
    <2>3. QED
      BY <1>1, <1>2, <2>1, <2>2 DEF ResultOK, Processing
  <1>12. ASSUME NEW w \in Workers, Judge(w) PROVE ResultOK'
    <2>1. ASSUME NEW x \in Workers, x # w
          PROVE  pc'[x] = pc[x] /\ job'[x] = job[x] /\ result'[x] = result[x]
      BY <1>12, <2>1 DEF Judge, Goto, VariableTypes
    <2>2. job'[w] \in Ids'
      BY <1>1, <1>12 DEF Judge, ResultOK, Processing
    <2>3. \/ pc'[w] = "complete" /\ result'[w] \in Judgement
          \/ pc'[w] = "fail" /\ result'[w].error \in WorkerErrors
      <3>1. CASE \E j \in Judgement : Goto(w, "complete") /\ result' = [result EXCEPT ![w] = j]
        BY <3>1 DEF Goto, VariableTypes
      <3>2. CASE \E e \in {"sandbox_error", "worker_error"} :
                    /\ Goto(w, "fail")
                    /\ result' = [result EXCEPT ![w] = [NoResult EXCEPT !.error = e]]
        <4>1. PICK e \in WorkerErrors :
                    /\ pc' = [pc EXCEPT ![w] = "fail"]
                    /\ result' = [result EXCEPT ![w] = [NoResult EXCEPT !.error = e]]
          BY <3>2 DEF Goto, WorkerErrors
        <4>2. result'[w] = [NoResult EXCEPT !.error = e] /\ pc'[w] = "fail"
          BY <4>1 DEF VariableTypes
        <4>3. QED
          BY <4>2, NoResultType
      <3>3. QED
        BY <1>12, <3>1, <3>2 DEF Judge
    <2>4. QED
      BY <1>2, <2>1, <2>2, <2>3 DEF ResultOK
  <1>13. ASSUME NEW w \in Workers, FinishJob(w) PROVE ResultOK'
    <2>1. ASSUME NEW x \in Workers, x # w
          PROVE  pc'[x] = pc[x] /\ job'[x] = job[x] /\ result'[x] = result[x]
      BY <1>13, <2>1 DEF FinishJob, Goto, VariableTypes
    <2>2. pc'[w] = "check"
      BY <1>13 DEF FinishJob, Goto, VariableTypes
    <2>3. QED
      BY <1>2, <2>1, <2>2 DEF ResultOK, Processing
  <1>14. ASSUME NEW w \in Workers, FallBack(w), pc[w] = "complete" PROVE ResultOK'
    <2>1. ASSUME NEW x \in Workers, x # w
          PROVE  pc'[x] = pc[x] /\ job'[x] = job[x] /\ result'[x] = result[x]
      BY <1>14, <2>1 DEF FallBack, Goto, VariableTypes
    <2>2. pc'[w] = "fail" /\ job'[w] \in Ids'
      BY <1>1, <1>14 DEF FallBack, Goto, VariableTypes, ResultOK, Processing
    <2>3. result'[w].error \in WorkerErrors
      <3>1. result'[w] = [NoResult EXCEPT !.error = "result_persistence_error"]
        BY <1>14 DEF FallBack, VariableTypes
      <3>2. QED
        BY <3>1, NoResultType DEF WorkerErrors
    <2>4. QED
      BY <1>2, <2>1, <2>2, <2>3 DEF ResultOK
  <1>15. QED
    <2>1. ASSUME NEW w \in Workers, Complete(w) \/ Fail(w) PROVE ResultOK'
      BY <2>1, <1>13, <1>14 DEF Complete, Fail
    <2>2. ASSUME NEW i \in Instances, Start(i) \/ Crash(i) PROVE ResultOK'
      BY <2>2, <1>9 DEF Start, Crash
    <2>3. CASE UNCHANGED vars
      BY <2>3, <1>3 DEF vars, threads
    <2>4. QED
      BY <1>3, <1>4, <1>5, <1>6, <1>7, <1>8, <1>10, <1>11, <1>12, <2>1, <2>2, <2>3
         DEF Next, WorkerStep

\* The types and what the threads have ready are inductive together.
LEMMA TypesHold == Spec => [](VariableTypes /\ ResultOK)
  <1>1. Init => VariableTypes /\ ResultOK
    BY NoResultType DEF Init, TableInit, VariableTypes, TableTypeOK, ResultOK, Steps, Processing
  <1>2. QED
    BY <1>1, TypeStep, ResultStep, PTL DEF Spec

\* The variables of the queue keep their types, and a thread only ever records
\* for a row that exists what the judge or the fallback named.
THEOREM TypeCorrect == Spec => []TypeOK
  BY TypesHold, PTL DEF TypeOK

\* The queue implements the table: whatever the processes, threads, crashes and
\* failing calls, the rows change only by the repository's guarded statements.
THEOREM QueueImplementsTable == Spec => TableSpec
  <1>1. Init => TableInit
    BY DEF Init
  <1>2. VariableTypes /\ ResultOK /\ [Next]_vars => [TableNext]_table
    BY StepIsTableStep
  <1>3. QED
    BY <1>1, <1>2, TypesHold, PTL DEF Spec, TableSpec

\* Hence every property of the table holds of the running system.
THEOREM QueueIsSafe ==
    Spec => /\ [](AdmissionLimits /\ RunningLimit /\ InOrderPerUser /\ RowShape /\ RetryLineage)
            /\ FinishedRowsStay
  BY QueueImplementsTable, LimitsHold, JudgedInOrder, RowsKeepShape, LineageHolds,
     FinishedIsFinal, PTL

----------------------------------------------------------------------------
(***************************************************************************)
(* One process. Neither property of the threads is inductive alone:        *)
(* claim_next is safe because no thread holds a queued row, which needs    *)
(* that a thread on its way to fail() does not either, and                 *)
(* recover_running is safe because a process that is down has no thread.   *)
(***************************************************************************)

SingleProcess == \A i, j \in Instances : i = j

OwnershipInv ==
    /\ ExclusiveProcessing
    /\ HeldRowIsRunning
    /\ \A w \in Workers : pc[w] = "fail" => rows[job[w]].status # "queued"
    /\ StoppedMeansQuiet

\* A step that leaves held rows and their holders alone keeps the ownership.
LEMMA KeepOwnership ==
    ASSUME OwnershipInv, ResultOK, Ids \subseteq Ids', StoppedMeansQuiet',
           \A x \in Workers : pc'[x] \in Processing =>
               pc'[x] = pc[x] /\ job'[x] = job[x] /\ rows'[job[x]] = rows[job[x]]
    PROVE  OwnershipInv'
  <1>1. ExclusiveProcessing'
    BY DEF OwnershipInv, ExclusiveProcessing
  <1>2. HeldRowIsRunning'
    BY DEF OwnershipInv, HeldRowIsRunning, Processing
  <1>3. \A w \in Workers : pc'[w] = "fail" => rows'[job'[w]].status # "queued"
    BY DEF OwnershipInv, Processing
  <1>4. QED
    BY <1>1, <1>2, <1>3 DEF OwnershipInv

\* A thread's own step: nobody else moves, and the process was not down.
LEMMA QuietAfterThreadStep ==
    ASSUME StoppedMeansQuiet, pool' = pool, NEW w \in Workers, pc[w] # "off",
           \A x \in Workers : x # w => pc'[x] = pc[x]
    PROVE  StoppedMeansQuiet'
  BY PoolAssumption DEF StoppedMeansQuiet, WorkersOf

LEMMA OwnershipStep ==
    ASSUME SingleProcess, VariableTypes, ResultOK, OwnershipInv, [Next]_vars
    PROVE  OwnershipInv'
  <1> USE PoolAssumption
  <1>1. Ids \subseteq Ids' /\ TableTypeOK
    BY StepIsTableStep, RowsGrow DEF VariableTypes
  <1>2. \A x \in Workers : pc[x] \in Processing => job[x] \in Ids
    BY DEF ResultOK
  <1>3. CASE UNCHANGED vars
    <2>1. StoppedMeansQuiet'
      BY <1>3 DEF vars, OwnershipInv, StoppedMeansQuiet, WorkersOf
    <2>2. QED
      BY <1>1, <1>3, <2>1, KeepOwnership DEF vars
  <1>4. ASSUME NEW i \in Instances, NEW u \in Users, Submit(i, u) PROVE OwnershipInv'
    <2>1. StoppedMeansQuiet' /\ pc' = pc /\ job' = job
      BY <1>4 DEF Submit, threads, OwnershipInv, StoppedMeansQuiet, WorkersOf
    <2>2. \A t \in Ids : rows'[t] = rows[t]
      BY <1>1, <1>4, InsertType DEF Submit, create
    <2>3. QED
      BY <1>1, <1>2, <2>1, <2>2, KeepOwnership
  <1>5. ASSUME NEW i \in Instances, NEW s \in Ids, Retry(i, s) PROVE OwnershipInv'
    <2>1. StoppedMeansQuiet' /\ pc' = pc /\ job' = job
      BY <1>5 DEF Retry, threads, OwnershipInv, StoppedMeansQuiet, WorkersOf
    <2>2. \A t \in Ids : rows'[t] = rows[t]
      BY <1>1, <1>5, RowFacts, InsertType DEF Retry, retry
    <2>3. QED
      BY <1>1, <1>2, <2>1, <2>2, KeepOwnership
  <1>6. ASSUME NEW i \in Instances, Notify(i) PROVE OwnershipInv'
    <2>1. pc' = pc \/ \E w \in Waiting(i) : pc' = [pc EXCEPT ![w] = "woken"]
      BY <1>6, Zenon DEF Notify
    <2>2. \A x \in Workers : /\ pc'[x] \in Processing => pc'[x] = pc[x]
                             /\ pc[x] = "off" => pc'[x] = "off"
      BY <2>1 DEF VariableTypes, Processing, Waiting, WorkersOf
    <2>3. StoppedMeansQuiet'
      BY <1>6, <2>2 DEF Notify, OwnershipInv, StoppedMeansQuiet, WorkersOf
    <2>4. QED
      BY <1>1, <1>6, <2>2, <2>3, KeepOwnership DEF Notify, table
  <1>7. ASSUME NEW i \in Instances, Stop(i) \/ NotifyAll(i) PROVE OwnershipInv'
    <2>1. \A x \in Workers : pc'[x] \in Processing => pc'[x] = pc[x]
      BY <1>7 DEF Stop, NotifyAll, threads, Processing
    <2>2. StoppedMeansQuiet'
      BY <1>7 DEF SingleProcess, Stop, NotifyAll, VariableTypes, StoppedMeansQuiet
    <2>3. QED
      BY <1>1, <1>7, <2>1, <2>2, KeepOwnership DEF Stop, NotifyAll, table, threads
  <1>8. ASSUME NEW i \in Instances, Join(i) PROVE OwnershipInv'
    <2>1. StoppedMeansQuiet'
      BY <1>8 DEF SingleProcess, Join, threads, StoppedMeansQuiet, WorkersOf
    <2>2. QED
      BY <1>1, <1>8, <2>1, KeepOwnership DEF Join, table, threads
  <1>9. ASSUME NEW i \in Instances, Crash(i) PROVE OwnershipInv'
    <2>1. \A x \in Workers : pc'[x] = "off"
      BY <1>9 DEF Crash, SetThreads, SingleProcess
    <2>2. QED
      BY <2>1 DEF OwnershipInv, ExclusiveProcessing, HeldRowIsRunning, StoppedMeansQuiet,
                  WorkersOf, Processing
  <1>10. ASSUME NEW i \in Instances, Start(i) PROVE OwnershipInv'
    <2>1. \A x \in Workers : pc'[x] = "check"
      BY <1>10 DEF Start, SetThreads, SingleProcess
    <2>2. StoppedMeansQuiet'
      BY <1>10 DEF Start, SingleProcess, StoppedMeansQuiet, VariableTypes
    <2>3. QED
      BY <2>1, <2>2 DEF OwnershipInv, ExclusiveProcessing, HeldRowIsRunning, Processing
  <1>11. ASSUME NEW i \in Instances, StartFails(i) PROVE OwnershipInv'
    <2>1. \A x \in Workers : pc'[x] = "off"
      BY <1>11 DEF StartFails, threads, SingleProcess, OwnershipInv, StoppedMeansQuiet, WorkersOf
    <2>2. QED
      BY <2>1 DEF OwnershipInv, ExclusiveProcessing, HeldRowIsRunning, StoppedMeansQuiet,
                  WorkersOf, Processing
  <1>12. ASSUME NEW w \in Workers, Check(w) \/ Sleep(w) \/ Wake(w) \/ Resume(w)
         PROVE  OwnershipInv'
    <2>1. PICK step \in Steps \ Processing : pc' = [pc EXCEPT ![w] = step]
      BY <1>12 DEF Check, Sleep, Wake, Resume, Goto, Steps, Processing
    <2>2. \A x \in Workers : /\ pc'[x] \in Processing => pc'[x] = pc[x]
                             /\ x # w => pc'[x] = pc[x]
      BY <2>1 DEF VariableTypes
    <2>3. UNCHANGED <<table, pools, job>> /\ pc[w] # "off"
      BY <1>12 DEF Check, Sleep, Wake, Resume
    <2>4. StoppedMeansQuiet'
      BY <2>2, <2>3, QuietAfterThreadStep DEF OwnershipInv, pools
    <2>5. QED
      BY <1>1, <2>2, <2>3, <2>4, KeepOwnership DEF table
  <1>13. ASSUME NEW w \in Workers, Judge(w) PROVE OwnershipInv'
    <2>1. /\ \A x \in Workers : x # w => pc'[x] = pc[x]
          /\ pc'[w] \in {"complete", "fail"} /\ pc[w] = "judge"
          /\ job' = job /\ rows' = rows /\ pool' = pool
      BY <1>13 DEF Judge, Goto, VariableTypes, table, pools
    <2>2. StoppedMeansQuiet'
      BY <2>1, QuietAfterThreadStep DEF OwnershipInv
    <2>3. QED
      BY <2>1, <2>2 DEF OwnershipInv, ExclusiveProcessing, HeldRowIsRunning, Processing, Ids
  <1>14. ASSUME NEW w \in Workers, Claim(w) PROVE OwnershipInv'
    <2>1. /\ \A x \in Workers : x # w => pc'[x] = pc[x] /\ job'[x] = job[x]
          /\ pc'[w] \in {"judge", "idle"} /\ pc[w] = "claim" /\ pool' = pool
      BY <1>14 DEF Claim, Goto, VariableTypes
    <2>2. StoppedMeansQuiet'
      BY <2>1, QuietAfterThreadStep DEF OwnershipInv
    <2>3. CASE UNCHANGED table
      <3>1. pc'[w] = "idle"
        BY <1>1, <1>14, <2>3, ClaimEffect DEF Claim, Goto, VariableTypes, table
      <3>2. QED
        BY <1>1, <2>1, <2>2, <2>3, <3>1, KeepOwnership DEF Processing, table
    <2>4. ASSUME NEW s \in Ids, claim_next(s), pc'[w] = "judge" => job'[w] = s
          PROVE  OwnershipInv'
      <3>1. /\ Ids' = Ids /\ rows[s].status = "queued" /\ rows'[s].status = "running"
            /\ \A t \in Ids : t # s => rows'[t] = rows[t]
        BY <1>1, <2>4, ClaimEffect
      <3>2. \A x \in Workers : pc[x] \in Processing => job[x] # s
        BY <3>1 DEF OwnershipInv, HeldRowIsRunning, Processing
      <3>3. ExclusiveProcessing'
        BY <2>1, <2>4, <3>2 DEF OwnershipInv, ExclusiveProcessing, Processing
      <3>4. HeldRowIsRunning'
        BY <1>2, <2>1, <2>4, <3>1, <3>2 DEF OwnershipInv, HeldRowIsRunning, Processing
      <3>5. \A x \in Workers : pc'[x] = "fail" => rows'[job'[x]].status # "queued"
        BY <1>2, <2>1, <3>1, <3>2 DEF OwnershipInv, Processing
      <3>6. QED
        BY <2>2, <3>3, <3>4, <3>5 DEF OwnershipInv
    <2>5. QED
      BY <1>14, <2>3, <2>4 DEF Claim, Goto, VariableTypes
  <1>15. ASSUME NEW w \in Workers, Complete(w) \/ Fail(w) PROVE OwnershipInv'
    <2>1. /\ \A x \in Workers : x # w => pc'[x] = pc[x] /\ job'[x] = job[x]
          /\ pc[w] \in {"complete", "fail"} /\ pool' = pool
          /\ \/ pc'[w] = "check"
             \/ pc[w] = "complete" /\ pc'[w] = "fail" /\ job'[w] = job[w]
      BY <1>15 DEF Complete, Fail, FinishJob, FallBack, Goto, VariableTypes
    <2>2. StoppedMeansQuiet'
      BY <2>1, QuietAfterThreadStep DEF OwnershipInv
    <2>3. /\ job[w] \in Ids
          /\ \A x \in Workers : x # w /\ pc[x] \in Processing => job[x] # job[w]
      BY <1>2, <2>1 DEF OwnershipInv, ExclusiveProcessing, Processing
    <2>4. /\ Ids' = Ids
          /\ \A t \in Ids : t # job[w] => rows'[t] = rows[t]
          /\ rows'[job[w]] = rows[job[w]] \/ rows'[job[w]].status \in Terminal
      <3>1. CASE UNCHANGED table
        BY <3>1 DEF table, Ids
      <3>2. CASE complete(job[w], result[w].verdict, result[w].error) /\ pc[w] = "complete"
        BY <1>1, <2>3, <3>2, CompleteEffect DEF ResultOK, Terminal
      <3>3. CASE fail(job[w], result[w].error) /\ pc[w] = "fail"
        BY <1>1, <2>3, <3>3, FailEffect DEF ResultOK, Terminal
      <3>4. QED
        BY <1>15, <3>1, <3>2, <3>3 DEF Complete, Fail
    <2>5. \A x \in Workers : x # w /\ pc[x] \in Processing => rows'[job[x]] = rows[job[x]]
      BY <1>2, <2>3, <2>4
    <2>6. ExclusiveProcessing'
      BY <2>1 DEF OwnershipInv, ExclusiveProcessing, Processing
    <2>7. HeldRowIsRunning'
      BY <2>1, <2>4, <2>5 DEF OwnershipInv, HeldRowIsRunning, Processing
    <2>8. \A x \in Workers : pc'[x] = "fail" => rows'[job'[x]].status # "queued"
      <3>1. ASSUME NEW x \in Workers, x # w, pc'[x] = "fail"
            PROVE  rows'[job'[x]].status # "queued"
        BY <2>1, <2>5, <3>1 DEF OwnershipInv, Processing
      <3>2. ASSUME pc'[w] = "fail" PROVE rows'[job'[w]].status # "queued"
        BY <2>1, <2>4, <3>2 DEF OwnershipInv, HeldRowIsRunning, Terminal
      <3>3. QED
        BY <3>1, <3>2
    <2>9. QED
      BY <2>2, <2>6, <2>7, <2>8 DEF OwnershipInv
  <1>16. QED
    BY <1>3, <1>4, <1>5, <1>6, <1>7, <1>8, <1>9, <1>10, <1>11, <1>12, <1>13, <1>14, <1>15
       DEF Next, WorkerStep

\* In a single process no two threads work on one submission, a verdict is
\* never refused by the status guard, and a stopped process has no thread left
\* at work: through crashes, restarts, failing calls and lost answers.
THEOREM SingleProcessOwnership ==
    ASSUME SingleProcess
    PROVE  Spec => [](ExclusiveProcessing /\ HeldRowIsRunning /\ StoppedMeansQuiet)
  <1>1. Init => OwnershipInv
    BY PoolAssumption DEF Init, OwnershipInv, ExclusiveProcessing, HeldRowIsRunning,
                          StoppedMeansQuiet, WorkersOf, Processing
  <1>2. VariableTypes /\ ResultOK /\ OwnershipInv /\ [Next]_vars => OwnershipInv'
    BY OwnershipStep
  <1>3. OwnershipInv => ExclusiveProcessing /\ HeldRowIsRunning /\ StoppedMeansQuiet
    BY DEF OwnershipInv
  <1>4. QED
    BY <1>1, <1>2, <1>3, TypesHold, PTL DEF Spec

----------------------------------------------------------------------------
\* While no call has failed, the process has its connection and every running
\* row has a thread.

HeldInv ==
    faults = 0 => \A i \in Instances : pool[i] # "down" =>
        /\ link[i]
        /\ \A s \in Ids : rows[s].status = "running" => \E w \in Workers : Holds(w, s)

\* A step that makes no row running, takes no row from its holder and breaks no
\* connection keeps the rows held.
LEMMA KeepHeld ==
    ASSUME VariableTypes, HeldInv, faults' = faults, link' = link,
           \A i \in Instances : pool'[i] # "down" => pool[i] # "down",
           \A s \in Ids' : rows'[s].status = "running" => s \in Ids /\ rows[s].status = "running",
           \A w \in Workers, s \in Ids :
               Holds(w, s) /\ rows'[s].status = "running" => Holds(w, s)'
    PROVE  HeldInv'
  <1> SUFFICES ASSUME faults = 0, NEW i \in Instances, pool'[i] # "down"
               PROVE  /\ link'[i]
                      /\ \A s \in Ids' : rows'[s].status = "running" =>
                            \E w \in Workers : Holds(w, s)'
    BY DEF HeldInv
  <1>1. /\ link[i]
        /\ \A s \in Ids : rows[s].status = "running" => \E w \in Workers : Holds(w, s)
    BY DEF HeldInv
  <1>2. QED
    BY <1>1

\* A call that fails is counted, unless the connection was gone before.
LEMMA NoFaultMeansSuccess ==
    ASSUME VariableTypes, NEW i \in Instances, Succeeds(i) \/ Fails(i) \/ AnswerLost(i),
           link[i], faults' = 0
    PROVE  Succeeds(i) /\ link' = link /\ faults = 0 /\ ~Fails(i) /\ ~AnswerLost(i)
  <1>1. faults' # faults + 1
    BY DEF VariableTypes
  <1>2. ~Fails(i) /\ ~AnswerLost(i)
    BY <1>1, Zenon DEF Fails, AnswerLost, Fault
  <1>3. QED
    BY <1>2 DEF Succeeds

LEMMA HeldStep ==
    ASSUME SingleProcess, VariableTypes, ResultOK, OwnershipInv, HeldInv, [Next]_vars
    PROVE  HeldInv'
  <1> SUFFICES ASSUME faults' = 0 PROVE HeldInv'
    BY DEF HeldInv
  <1> USE PoolAssumption
  <1>1. TableTypeOK /\ faults' # faults + 1 /\ faults \in Nat
    BY DEF VariableTypes
  <1>2. CASE UNCHANGED <<rows, pc, job, pool, link, faults>>
    BY <1>2, KeepHeld DEF Holds, Ids
  <1>3. ASSUME NEW i \in Instances, Stop(i) \/ NotifyAll(i) PROVE HeldInv'
    <2>1. \A w \in Workers : pc[w] \in Processing => pc'[w] = pc[w]
      BY <1>3 DEF Stop, NotifyAll, threads, Waiting, Processing
    <2>2. UNCHANGED <<rows, job, link, faults>>
      BY <1>3 DEF Stop, NotifyAll, threads, bounds, table
    <2>3. \A k \in Instances : pool'[k] # "down" => pool[k] # "down"
      BY <1>3 DEF Stop, NotifyAll, VariableTypes
    <2>4. QED
      BY <2>1, <2>2, <2>3, KeepHeld DEF Holds, Ids
  <1>4. ASSUME NEW i \in Instances, Join(i) \/ Crash(i) PROVE HeldInv'
    <2>1. \A k \in Instances : pool'[k] = "down"
      BY <1>4 DEF Join, Crash, SingleProcess, VariableTypes
    <2>2. QED
      BY <2>1 DEF HeldInv
  <1>5. ASSUME NEW i \in Instances, Start(i) PROVE HeldInv'
    <2>1. \A k \in Instances : link'[k]
      BY <1>5 DEF Start, SingleProcess, VariableTypes
    <2>2. \A s \in Ids' : rows'[s].status # "running"
      BY <1>1, <1>5, RecoverEffect DEF Start
    <2>3. QED
      BY <2>1, <2>2 DEF HeldInv
  <1>6. ASSUME NEW i \in Instances, StartFails(i) PROVE FALSE
    BY <1>1, <1>6 DEF StartFails, Fault
  <1>7. ASSUME NEW i \in Instances, Notify(i) PROVE HeldInv'
    <2>1. pc' = pc \/ \E w \in Waiting(i) : pc' = [pc EXCEPT ![w] = "woken"]
      BY <1>7, Zenon DEF Notify
    <2>2. \A w \in Workers : pc[w] \in Processing => pc'[w] = pc[w]
      BY <2>1 DEF VariableTypes, Processing, Waiting, WorkersOf
    <2>3. UNCHANGED <<rows, job, pool, link, faults>>
      BY <1>7 DEF Notify, bounds, table
    <2>4. QED
      BY <2>2, <2>3, KeepHeld DEF Holds, Ids
  <1>8. ASSUME NEW i \in Instances, NEW u \in Users, NEW o \in Nat, Insert(u, o),
               pool[i] = "up", UNCHANGED <<pool, pc, job>>,
               Succeeds(i) \/ AnswerLost(i)
        PROVE  HeldInv'
    <2>1. link' = link /\ faults' = faults
      BY <1>1, <1>8 DEF Succeeds, AnswerLost, Fault
    <2>2. \A s \in Ids : rows'[s] = rows[s]
      BY <1>1, <1>8, InsertType
    <2>3. rows'[Len(rows) + 1] = NewRow(u, o) /\ Ids' = Ids \cup {Len(rows) + 1}
      BY <1>1, <1>8, InsertType
    <2>4. rows'[Len(rows) + 1].status = "queued"
      BY <2>3 DEF NewRow
    <2>5. QED
      BY <1>8, <2>1, <2>2, <2>3, <2>4, KeepHeld DEF Holds
  <1>9. ASSUME NEW i \in Instances, NEW u \in Users, Submit(i, u) PROVE HeldInv'
    BY <1>8, <1>9 DEF Submit, create, threads
  <1>10. ASSUME NEW i \in Instances, NEW s \in Ids, Retry(i, s) PROVE HeldInv'
    <2>1. s \in Nat /\ rows[s].owner \in Users
      BY <1>1, RowFacts
    <2>2. QED
      BY <1>8, <1>10, <2>1 DEF Retry, retry, threads
  <1>11. ASSUME NEW w \in Workers, Check(w) \/ Sleep(w) \/ Wake(w) \/ Resume(w) \/ Judge(w)
         PROVE  HeldInv'
    <2>1. \A x \in Workers : pc[x] \in Processing => pc'[x] \in Processing
      BY <1>11 DEF Check, Sleep, Wake, Resume, Judge, Goto, Processing, VariableTypes
    <2>2. UNCHANGED <<rows, job, pool, link, faults>>
      BY <1>11 DEF Check, Sleep, Wake, Resume, Judge, table, pools, bounds
    <2>3. QED
      BY <2>1, <2>2, KeepHeld DEF Holds, Ids
  <1>12. ASSUME NEW w \in Workers, pc[w] # "off" PROVE pool[PoolOf[w]] # "down"
    BY <1>12 DEF OwnershipInv, StoppedMeansQuiet, WorkersOf
  <1>13. ASSUME NEW w \in Workers, pc[w] # "off", faults = 0 PROVE link[PoolOf[w]]
    BY <1>12, <1>13 DEF HeldInv
  <1>14. ASSUME NEW w \in Workers, pc[w] # "off",
                Succeeds(PoolOf[w]) \/ Fails(PoolOf[w]) \/ AnswerLost(PoolOf[w])
         PROVE  /\ Succeeds(PoolOf[w]) /\ link' = link /\ faults' = faults
                /\ ~Fails(PoolOf[w]) /\ ~AnswerLost(PoolOf[w])
    <2>1. faults = 0
      <3>1. CASE Succeeds(PoolOf[w])
        BY <3>1 DEF Succeeds
      <3>2. CASE Fails(PoolOf[w])
        <4>1. faults' = faults \/ faults' = faults + 1
          BY <3>2, Zenon DEF Fails, Fault
        <4>2. QED
          BY <1>1, <4>1
      <3>3. CASE AnswerLost(PoolOf[w])
        BY <1>1, <3>3 DEF AnswerLost, Fault
      <3>4. QED
        BY <1>14, <3>1, <3>2, <3>3
    <2>2. link[PoolOf[w]]
      BY <1>13, <1>14, <2>1
    <2>3. QED
      BY <1>14, <2>1, <2>2, NoFaultMeansSuccess
  <1>15. ASSUME NEW w \in Workers, Claim(w) PROVE HeldInv'
    <2>1. /\ pc[w] = "claim" /\ pool' = pool
          /\ Succeeds(PoolOf[w]) \/ Fails(PoolOf[w]) \/ AnswerLost(PoolOf[w])
      BY <1>15 DEF Claim
    <2>2. /\ link' = link /\ faults' = faults
          /\ ~Fails(PoolOf[w]) /\ ~AnswerLost(PoolOf[w])
      BY <1>14, <2>1
    <2>3. \A x \in Workers : x # w => pc'[x] = pc[x] /\ job'[x] = job[x]
      BY <1>15 DEF Claim, Goto, VariableTypes
    <2>4. CASE UNCHANGED table
      BY <2>1, <2>2, <2>3, <2>4, KeepHeld DEF Holds, Processing, table, Ids
    <2>5. ASSUME NEW s \in Ids, claim_next(s), Goto(w, "judge"), job' = [job EXCEPT ![w] = s]
          PROVE  HeldInv'
      <3>1. /\ Ids' = Ids /\ rows'[s].status = "running"
            /\ \A t \in Ids : t # s => rows'[t] = rows[t]
        BY <1>1, <2>5, ClaimEffect
      <3>2. Holds(w, s)'
        BY <2>5 DEF Holds, Goto, VariableTypes, Processing
      <3>3. \A x \in Workers, t \in Ids : Holds(x, t) => Holds(x, t)'
        BY <2>1, <2>3 DEF Holds, Processing
      <3>4. QED
        BY <2>1, <2>2, <3>1, <3>2, <3>3 DEF HeldInv
    <2>6. QED
      BY <1>15, <2>2, <2>4, <2>5 DEF Claim
  <1>16. ASSUME NEW w \in Workers, Complete(w) \/ Fail(w) PROVE HeldInv'
    <2>1. /\ pc[w] \in {"complete", "fail"} /\ pool' = pool
          /\ Succeeds(PoolOf[w]) \/ Fails(PoolOf[w]) \/ AnswerLost(PoolOf[w])
      BY <1>16 DEF Complete, Fail
    <2>2. /\ link' = link /\ faults' = faults
          /\ ~Fails(PoolOf[w]) /\ ~AnswerLost(PoolOf[w])
      BY <1>14, <2>1
    <2>3. \A x \in Workers : x # w => pc'[x] = pc[x] /\ job'[x] = job[x]
      BY <1>16 DEF Complete, Fail, FinishJob, FallBack, Goto, VariableTypes
    <2>4. job[w] \in Ids
      BY <2>1 DEF ResultOK, Processing
    <2>5. /\ Ids' = Ids /\ rows'[job[w]].status # "running"
          /\ \A t \in Ids : t # job[w] => rows'[t] = rows[t]
      <3>1. CASE complete(job[w], result[w].verdict, result[w].error) /\ pc[w] = "complete"
        BY <1>1, <2>4, <3>1, CompleteEffect DEF ResultOK
      <3>2. CASE fail(job[w], result[w].error) /\ pc[w] = "fail"
        BY <1>1, <2>4, <3>2, FailEffect DEF ResultOK
      <3>3. CASE rows[job[w]].status # "running" /\ UNCHANGED table
        BY <3>3 DEF table, Ids
      <3>4. QED
        BY <1>16, <2>2, <3>1, <3>2, <3>3 DEF Complete, Fail
    <2>6. QED
      BY <2>1, <2>2, <2>3, <2>5, KeepHeld DEF Holds
  <1>17. QED
    BY <1>2, <1>3, <1>4, <1>5, <1>6, <1>7, <1>9, <1>10, <1>11, <1>15, <1>16
       DEF Next, WorkerStep, vars

\* In a single process, only a failing database call can leave a submission
\* running with no thread to finish it.
THEOREM OnlyFaultsOrphan ==
    ASSUME SingleProcess
    PROVE  Spec => []NoOrphanWithoutFault
  <1>1. Init => OwnershipInv /\ HeldInv
    BY PoolAssumption DEF Init, OwnershipInv, ExclusiveProcessing, HeldRowIsRunning,
                          StoppedMeansQuiet, WorkersOf, Processing, HeldInv
  <1>2. VariableTypes /\ ResultOK /\ OwnershipInv /\ HeldInv /\ [Next]_vars => OwnershipInv' /\ HeldInv'
    BY OwnershipStep, HeldStep
  <1>3. OwnershipInv /\ HeldInv => NoOrphanWithoutFault
    BY DEF HeldInv, NoOrphanWithoutFault, Orphan
  <1>4. QED
    BY <1>1, <1>2, <1>3, TypesHold, PTL DEF Spec

=============================================================================
