--------------------------- MODULE JudgeRunProofs ---------------------------
(* The judge and its children, for any number of threads, languages, tests, *)
(* failing calls and edits.                                                *)
EXTENDS JudgeRun, FiniteSetTheorems, TLAPS

----------------------------------------------------------------------------
\* The inductive invariant.

Resting == {"idle", "tests", "unread", "test", "fork", "verdict", "done"}

ThreadStates == Resting \cup {"send", "receive", "wait"}

Gone == {"exited", "failed", "killed"}

RunTypes ==
    /\ up \in BOOLEAN
    /\ pc \in [Threads -> ThreadStates]
    /\ worker \in [Threads -> Live \cup Gone \cup {"none"}]
    /\ channel \in [Threads -> {"empty", "request", "response"}]
    /\ workspace \in [Threads -> BOOLEAN]
    /\ DOMAIN held = Threads /\ DOMAIN reply = Threads
    /\ DOMAIN hidden = Threads /\ DOMAIN results = Threads /\ DOMAIN outcome = Threads
    /\ edits \in Nat /\ faults \in Nat

\* Who has which end open. A child has its own, and between fork and execve
\* whatever else was open.
DescriptorInv ==
    /\ \A h \in Threads :
          /\ BackendEnd(h) \in open => up /\ pc[h] \in {"fork", "send", "receive"}
          /\ up /\ pc[h] \in {"fork", "send", "receive"} => BackendEnd(h) \in open
          /\ WorkerEnd(h) \in open => up /\ pc[h] \in {"fork", "send"}
          /\ up /\ pc[h] = "fork" => WorkerEnd(h) \in open
          /\ worker[h] \notin Live => held[h] = {}
          /\ worker[h] \in Live => WorkerEnd(h) \in held[h]
          /\ worker[h] \in Live \ {"forked"} => held[h] = {WorkerEnd(h)}

\* A thread has a child from fork to waitpid only, and nothing is in the
\* channel before it has sent the request.
ChildInv ==
    \A h \in Threads :
        /\ up /\ pc[h] \in Resting => worker[h] = "none" /\ channel[h] = "empty"
        /\ up /\ pc[h] = "send" =>
              worker[h] \in {"forked", "receiving", "failed", "killed"} /\ channel[h] = "empty"
        /\ workspace[h] => faults > 0 \/ worker[h] \in Executing \ {"setup"}

\* As long as no call has failed and nobody was killed, a child that has gone
\* has answered.
CleanInv ==
    faults = 0 =>
        /\ up
        /\ \A h \in Threads :
              /\ worker[h] \notin {"failed", "killed"}
              /\ pc[h] \in {"receive", "wait"} => worker[h] # "none"
              /\ worker[h] \in {"leaving", "exited"} <=> channel[h] = "response"
              /\ pc[h] = "wait" => worker[h] \in {"leaving", "exited"}
              /\ worker[h] \in {"answering", "leaving", "exited"} =>
                    reply[h].stage \in {"compile", "run"}

\* What a thread has read, and what it may still say of it.
ReadInv ==
    \A h \in Threads :
        /\ pc[h] \notin {"done", "unread"} => outcome[h].kind = "none"
        /\ pc[h] \in Unread => hidden[h] = << >>
        /\ pc[h] \notin Unread /\ edits = 0 => hidden[h] # << >>
        /\ pc[h] \in {"fork", "send"} => Len(results[h]) < Len(hidden[h])

\* What the threads find as long as nobody has edited the problem.
UneditedInv ==
    edits = 0 =>
        /\ DOMAIN problems = {Problem}
        /\ tests = [t \in 1 .. DefaultTests |-> NewTest(Problem, t - 1, TRUE, t)]

JudgeInv ==
    /\ RunTypes /\ DescriptorInv /\ ChildInv /\ CleanInv /\ ReadInv /\ UneditedInv
    /\ FailureNeedsACause

----------------------------------------------------------------------------

\* The two ends of a socket pair are two, and every thread has its own.
LEMMA EndsDiffer ==
    ASSUME NEW g, NEW h
    PROVE  /\ BackendEnd(g) # WorkerEnd(h)
           /\ BackendEnd(g) = BackendEnd(h) => g = h
           /\ WorkerEnd(g) = WorkerEnd(h) => g = h
  BY DEF BackendEnd, WorkerEnd

\* Before the first edit there is a test to read.
LEMMA UneditedTests ==
    ASSUME UneditedInv, edits = 0 PROVE TestsInOrder # << >>
  <1>1. DefaultTests \in Nat /\ DefaultTests > 0
    BY ProblemsAssumption, JudgeAssumption
  <1>2. tests = [t \in 1 .. DefaultTests |-> NewTest(Problem, t - 1, TRUE, t)]
    BY DEF UneditedInv
  <1>3. {t \in TestsOf(Problem) : tests[t].enabled} = 1 .. DefaultTests
    BY <1>2 DEF TestsOf, NewTest
  <1>4. Cardinality(1 .. DefaultTests) = DefaultTests
    BY <1>1, FS_Interval
  <1>5. DOMAIN TestsInOrder = 1 .. DefaultTests
    BY <1>3, <1>4 DEF TestsInOrder
  <1>6. DOMAIN TestsInOrder # {}
    BY <1>1, <1>5
  <1>7. QED
    BY <1>6

\* Nothing has been read or started.
LEMMA JudgeInvInit == JudgeInit => JudgeInv
  <1> SUFFICES ASSUME JudgeInit PROVE JudgeInv
    OBVIOUS
  <1>1. RunTypes
    BY DEF JudgeInit, RunTypes, ThreadStates, Resting
  <1>2. DescriptorInv
    BY DEF JudgeInit, DescriptorInv, Live, Executing
  <1>3. ChildInv /\ CleanInv
    BY DEF JudgeInit, ChildInv, CleanInv, Resting
  <1>4. ReadInv /\ UneditedInv /\ FailureNeedsACause
    BY DEF JudgeInit, ReadInv, UneditedInv, FailureNeedsACause, Unread
  <1>5. QED
    BY <1>1, <1>2, <1>3, <1>4 DEF JudgeInv

----------------------------------------------------------------------------
\* The thread.

\* A step of a thread that neither has a child nor opens or closes anything,
\* and reads, answers or goes on.
Thinks(h, to) ==
    /\ up /\ pc[h] \in Resting \ {"fork", "done", "unread"}
    /\ to \in Resting \ {"fork"} /\ pc' = [pc EXCEPT ![h] = to]
    /\ UNCHANGED <<catalog, up, results, open, child, wire, edits>>
    /\ faults' \in Nat /\ faults' >= faults
    /\ DOMAIN hidden' = Threads /\ \A g \in Threads \ {h} : hidden'[g] = hidden[g]
    /\ DOMAIN outcome' = Threads /\ \A g \in Threads \ {h} : outcome'[g] = outcome[g]
    /\ to \notin {"done", "unread"} => outcome'[h].kind = "none"
    /\ to \in Unread => hidden'[h] = << >>
    /\ to \notin Unread /\ edits = 0 => hidden'[h] # << >>
    /\ outcome'[h].kind = "judge_error" =>
          faults' > 0 \/ (edits > 0 /\ hidden'[h] = << >>)

\* Such a step disturbs only what the thread has read.
LEMMA ThinkingKeeps ==
    ASSUME JudgeInv, NEW h \in Threads, NEW to, Thinks(h, to) PROVE JudgeInv'
  <1> USE DEF JudgeInv, Thinks
  <1>1. RunTypes'
    BY DEF RunTypes, ThreadStates, Resting, child, wire
  <1>2. DescriptorInv'
    BY DEF RunTypes, DescriptorInv, Resting, child
  <1>a. faults \in Nat /\ (faults' = 0 => faults = 0) /\ (faults > 0 => faults' > 0)
    BY DEF RunTypes
  <1>b. \A g \in Threads : pc'[g] = IF g = h THEN to ELSE pc[g]
    BY DEF RunTypes
  <1>c. UNCHANGED <<worker, held, workspace, channel, reply, up, results>>
    BY DEF child, wire
  <1>3. ChildInv'
    BY <1>a, <1>b, <1>c DEF ChildInv, Resting
  <1>4. CleanInv'
    BY <1>a, <1>b, <1>c DEF CleanInv, Resting
  <1>5. ReadInv'
    BY <1>b, <1>c DEF ReadInv, Resting
  <1>6. UneditedInv'
    BY DEF UneditedInv, catalog
  <1>7. FailureNeedsACause'
    BY <1>a, <1>c DEF FailureNeedsACause
  <1>8. QED
    BY <1>1, <1>2, <1>3, <1>4, <1>5, <1>6, <1>7

\* ProblemJudge::run, between two runs of the executor.
LEMMA ThinkingStep ==
    ASSUME JudgeInv, NEW h \in Threads,
           Find(h) \/ ReadTests(h) \/ NoTestsLeft(h) \/ Verdict(h)
    PROVE  JudgeInv'
  <1>a. /\ faults \in Nat /\ edits \in Nat /\ DOMAIN pc = Threads
        /\ DOMAIN hidden = Threads /\ DOMAIN outcome = Threads
    BY DEF JudgeInv, RunTypes
  <1>b. /\ pc[h] \notin {"done", "unread"} => outcome[h].kind = "none"
        /\ pc[h] \in Unread => hidden[h] = << >>
        /\ pc[h] \notin Unread /\ edits = 0 => hidden[h] # << >>
    BY DEF JudgeInv, ReadInv
  <1>1. CASE Find(h)
    <2>1. UNCHANGED edits
      BY <1>1 DEF Find, Fault, counters
    <2>2. Problem \notin DOMAIN problems => edits > 0
      <3>1. edits = 0 => DOMAIN problems = {Problem}
        BY DEF JudgeInv, UneditedInv
      <3>2. QED
        BY <1>a, <3>1
    <2>3. UNCHANGED <<catalog, up, results, open, child, wire, edits>> /\ UNCHANGED hidden
      BY <1>1, <2>1 DEF Find
    <2>4. CASE Goes(h, "idle", "tests") /\ UNCHANGED <<outcome, counters>>
      <3>1. up /\ pc[h] = "idle" /\ pc' = [pc EXCEPT ![h] = "tests"]
        BY <2>4 DEF Goes
      <3>2. faults' = faults /\ outcome' = outcome
        BY <2>4 DEF counters
      <3>3. Thinks(h, "tests")
        BY <1>a, <1>b, <2>3, <3>1, <3>2 DEF Thinks, Unread, Resting
      <3>4. QED
        BY <3>3, ThinkingKeeps
    <2>5. CASE \E type : /\ Answers(h, "judge_error", type, "unread")
                         /\ up /\ pc[h] = "idle"
                         /\ faults' \in Nat /\ faults' >= faults
                         /\ faults' > 0 \/ edits > 0
      <3>1. PICK type : /\ outcome' = [outcome EXCEPT ![h] = [kind |-> "judge_error", type |-> type]]
                        /\ pc' = [pc EXCEPT ![h] = "unread"]
        BY <2>5 DEF Answers
      <3>2. Thinks(h, "unread")
        BY <1>a, <1>b, <2>3, <2>5, <3>1 DEF Thinks, Unread, Resting
      <3>3. QED
        BY <3>2, ThinkingKeeps
    <2>6. QED
      BY <1>1, <1>a, <2>2, <2>4, <2>5 DEF Find, Fault, counters
  <1>2. CASE ReadTests(h)
    <2>1. UNCHANGED <<catalog, up, results, open, child, wire, edits>>
      BY <1>2 DEF ReadTests, Fault, counters
    <2>2. up /\ pc[h] = "tests"
      BY <1>2 DEF ReadTests
    <2>3. CASE /\ Goes(h, "tests", "test") /\ hidden' = [hidden EXCEPT ![h] = TestsInOrder]
               /\ UNCHANGED <<outcome, counters>>
      <3>1. pc' = [pc EXCEPT ![h] = "test"] /\ faults' = faults /\ outcome' = outcome
        BY <2>3 DEF Goes, counters
      <3>2. edits = 0 => TestsInOrder # << >>
        BY UneditedTests DEF JudgeInv
      <3>3. /\ DOMAIN hidden' = Threads /\ hidden'[h] = TestsInOrder
            /\ \A g \in Threads \ {h} : hidden'[g] = hidden[g]
        BY <1>a, <2>3
      <3>4. Thinks(h, "test")
        BY <1>a, <1>b, <2>1, <2>2, <3>1, <3>2, <3>3 DEF Thinks, Unread, Resting
      <3>5. QED
        BY <3>4, ThinkingKeeps
    <2>4. CASE /\ Fault /\ UNCHANGED hidden
               /\ Answers(h, "judge_error", "could_not_retrieve_hidden_tests", "unread")
      <3>1. /\ outcome' = [outcome EXCEPT ![h] =
                  [kind |-> "judge_error", type |-> "could_not_retrieve_hidden_tests"]]
            /\ pc' = [pc EXCEPT ![h] = "unread"] /\ faults' = faults + 1
        BY <2>4 DEF Answers, Fault
      <3>2. Thinks(h, "unread")
        BY <1>a, <1>b, <2>1, <2>2, <2>4, <3>1 DEF Thinks, Unread, Resting
      <3>3. QED
        BY <3>2, ThinkingKeeps
    <2>5. QED
      BY <1>2, <2>3, <2>4 DEF ReadTests
  <1>3. CASE NoTestsLeft(h) \/ Verdict(h)
    <2>1. /\ UNCHANGED <<catalog, up, results, open, child, wire, edits>>
          /\ UNCHANGED <<hidden, faults>>
      BY <1>3 DEF NoTestsLeft, Verdict, counters
    <2>2. up /\ pc[h] \in {"test", "verdict"}
      BY <1>3 DEF NoTestsLeft, Verdict
    <2>3. CASE \E kind, type : /\ Answers(h, kind, type, "done")
                               /\ kind = "judge_error" => hidden[h] = << >>
      <3>1. PICK kind, type :
               /\ outcome' = [outcome EXCEPT ![h] = [kind |-> kind, type |-> type]]
               /\ pc' = [pc EXCEPT ![h] = "done"]
               /\ kind = "judge_error" => hidden[h] = << >>
        BY <2>3 DEF Answers
      <3>2. /\ DOMAIN outcome' = Threads /\ outcome'[h].kind = kind
            /\ \A g \in Threads \ {h} : outcome'[g] = outcome[g]
        BY <1>a, <3>1
      <3>3. hidden[h] = << >> => edits > 0
        BY <1>a, <1>b, <2>2 DEF Unread
      <3>4. Thinks(h, "done")
        BY <1>a, <1>b, <2>1, <2>2, <3>1, <3>2, <3>3 DEF Thinks, Unread, Resting
      <3>5. QED
        BY <3>4, ThinkingKeeps
    <2>4. CASE Goes(h, "verdict", "test") /\ UNCHANGED outcome
      <3>1. pc' = [pc EXCEPT ![h] = "test"]
        BY <2>4 DEF Goes
      <3>2. Thinks(h, "test")
        BY <1>a, <1>b, <2>1, <2>2, <2>4, <3>1 DEF Thinks, Unread, Resting
      <3>3. QED
        BY <3>2, ThinkingKeeps
    <2>5. CASE NoTestsLeft(h)
      BY <2>3, <2>5 DEF NoTestsLeft
    <2>6. CASE Verdict(h)
      BY <2>3, <2>4, <2>6 DEF Verdict
    <2>7. QED
      BY <1>3, <2>5, <2>6
  <1>4. QED
    BY <1>1, <1>2, <1>3

----------------------------------------------------------------------------

\* What is said of the judge alone stays when only processes take a step.
LEMMA JudgeUntouched ==
    ASSUME RunTypes, ReadInv, UneditedInv, FailureNeedsACause,
           UNCHANGED <<catalog, judge, edits>>, faults' \in Nat, faults' >= faults
    PROVE  ReadInv' /\ UneditedInv' /\ FailureNeedsACause'
  <1>1. UNCHANGED <<pc, hidden, results, outcome, edits, problems, tests>>
    BY DEF judge, catalog
  <1>2. faults > 0 => faults' > 0
    BY DEF RunTypes
  <1>3. ReadInv'
    BY <1>1 DEF ReadInv
  <1>4. UneditedInv'
    BY <1>1 DEF UneditedInv
  <1>5. FailureNeedsACause'
    BY <1>1, <1>2 DEF FailureNeedsACause
  <1>6. QED
    BY <1>3, <1>4, <1>5

\* A child at work: its state, its directory and its reply change.
Works(h, to) ==
    /\ worker[h] \in Executing /\ to \in Executing \cup {"answering"}
    /\ worker' = [worker EXCEPT ![h] = to]
    /\ UNCHANGED <<outside, held, channel, edits>>
    /\ faults' \in Nat /\ faults' >= faults
    /\ DOMAIN reply' = Threads /\ \A g \in Threads \ {h} : reply'[g] = reply[g]
    /\ faults' = 0 /\ to = "answering" => reply'[h].stage \in {"compile", "run"}
    /\ workspace' \in [Threads -> BOOLEAN]
    /\ \A g \in Threads \ {h} : workspace'[g] = workspace[g]
    /\ workspace'[h] => to \in Executing \ {"setup"}

\* Such a step disturbs only the child's own state.
LEMMA WorkingKeeps ==
    ASSUME JudgeInv, NEW h \in Threads, NEW to, Works(h, to) PROVE JudgeInv'
  <1> USE DEF JudgeInv
  <1>a. /\ faults \in Nat /\ (faults' = 0 => faults = 0) /\ (faults > 0 => faults' > 0)
        /\ DOMAIN worker = Threads
    BY DEF RunTypes, Works
  <1>b. /\ worker[h] \in Executing /\ to \in Executing \cup {"answering"}
        /\ \A g \in Threads : worker'[g] = IF g = h THEN to ELSE worker[g]
    BY <1>a DEF Works
  <1>c. UNCHANGED <<up, pc, open, held, channel>> /\ UNCHANGED <<catalog, judge, edits>>
    BY DEF Works, outside, judge
  <1>1. RunTypes'
    BY <1>c DEF RunTypes, Works, Live, outside, judge
  <1>2. DescriptorInv'
    BY <1>b, <1>c DEF DescriptorInv, Live, Executing
  <1>3. ChildInv'
    BY <1>a, <1>b, <1>c DEF ChildInv, Resting, Executing, Works
  <1>4. CleanInv'
    BY <1>a, <1>b, <1>c DEF CleanInv, Executing, Works
  <1>5. ReadInv' /\ UneditedInv' /\ FailureNeedsACause'
    BY <1>c, JudgeUntouched DEF Works
  <1>6. QED
    BY <1>1, <1>2, <1>3, <1>4, <1>5

\* A result that is no error, and an error after a call has failed.
LEMMA ReturningWorks ==
    ASSUME JudgeInv, NEW h \in Threads, worker[h] \in Executing, NEW r, Returns(h, r),
           UNCHANGED <<outside, held, channel, edits>>, faults' \in Nat, faults' >= faults,
           faults' = 0 => r.stage \in {"compile", "run"}
    PROVE  Works(h, "answering")
  <1>1. DOMAIN reply = Threads /\ workspace \in [Threads -> BOOLEAN]
    BY DEF JudgeInv, RunTypes
  <1>2. /\ DOMAIN reply' = Threads /\ reply'[h] = r
        /\ \A g \in Threads \ {h} : reply'[g] = reply[g]
    BY <1>1 DEF Returns
  <1>3. /\ workspace' \in [Threads -> BOOLEAN] /\ ~workspace'[h]
        /\ \A g \in Threads \ {h} : workspace'[g] = workspace[g]
    BY <1>1 DEF Returns
  <1>4. worker' = [worker EXCEPT ![h] = "answering"]
    BY DEF Returns
  <1>5. QED
    BY <1>2, <1>3, <1>4 DEF Works

\* An error of one of the calls is an answer.
LEMMA FailingWorks ==
    ASSUME JudgeInv, NEW h \in Threads, worker[h] \in Executing, Fault,
           Returns(h, ErrorReply), UNCHANGED <<outside, held, channel>>
    PROVE  Works(h, "answering")
  <1>1. faults \in Nat /\ faults' = faults + 1 /\ edits' = edits
    BY DEF JudgeInv, RunTypes, Fault
  <1>2. QED
    BY <1>1, ReturningWorks

\* A call of NsJailPythonExecutor::run that succeeds or fails.
LEMMA CallKeeps ==
    ASSUME JudgeInv, NEW h \in Threads, NEW from \in Executing, NEW to \in Executing \ {"setup"},
           Call(h, from, to)
    PROVE  JudgeInv'
  <1>1. CASE Becomes(h, from, to) /\ UNCHANGED <<workspace, reply, counters, outside, held, channel>>
    <2>1. /\ worker[h] \in Executing /\ worker' = [worker EXCEPT ![h] = to]
          /\ UNCHANGED <<outside, held, channel, edits>>
          /\ UNCHANGED <<workspace, reply, faults>>
      BY <1>1 DEF Becomes, counters
    <2>2. faults \in Nat /\ DOMAIN reply = Threads /\ workspace \in [Threads -> BOOLEAN]
      BY DEF JudgeInv, RunTypes
    <2>3. Works(h, to)
      BY <2>1, <2>2 DEF Works, Executing
    <2>4. QED
      BY <2>3, WorkingKeeps
  <1>2. CASE /\ worker[h] = from /\ Fault /\ Returns(h, ErrorReply)
             /\ UNCHANGED <<outside, held, channel>>
    BY <1>2, FailingWorks, WorkingKeeps
  <1>3. QED
    BY <1>1, <1>2 DEF Call

\* What a compiler and a program come to is a result, never an error.
LEMMA ResultStages ==
    /\ \A r \in CompileResults : r.stage = "compile"
    /\ \A r \in RunResults : r.stage = "run"
  BY DEF CompileResults, RunResults, Execution

\* TemporaryWorkspace::create makes the directory.
LEMMA SetupStep ==
    ASSUME JudgeInv, NEW h \in Threads, Setup(h) PROVE JudgeInv'
  <1>1. CASE /\ Becomes(h, "setup", "closure") /\ workspace' = [workspace EXCEPT ![h] = TRUE]
             /\ UNCHANGED <<reply, counters, outside, held, channel>>
    <2>1. /\ worker[h] = "setup" /\ worker' = [worker EXCEPT ![h] = "closure"]
          /\ UNCHANGED <<outside, held, channel, edits>> /\ UNCHANGED <<reply, faults>>
      BY <1>1 DEF Becomes, counters
    <2>2. faults \in Nat /\ DOMAIN reply = Threads /\ workspace \in [Threads -> BOOLEAN]
      BY DEF JudgeInv, RunTypes
    <2>3. Works(h, "closure")
      BY <1>1, <2>1, <2>2 DEF Works, Executing
    <2>4. QED
      BY <2>3, WorkingKeeps
  <1>2. CASE /\ worker[h] = "setup" /\ Fault /\ Returns(h, ErrorReply)
             /\ UNCHANGED <<outside, held, channel>>
    BY <1>2, FailingWorks, WorkingKeeps DEF Executing
  <1>3. QED
    BY <1>1, <1>2 DEF Setup

\* NsJailPythonExecutor::run, from the request to its result.
LEMMA WorkingStep ==
    ASSUME JudgeInv, NEW h \in Threads,
           \/ Setup(h) \/ read_runtime_closure(h) \/ prepare_root(h) \/ write_file(h)
           \/ Compile(h) \/ protect_compiled_executable(h) \/ Run(h)
    PROVE  JudgeInv'
  <1>1. CASE \E from \in Executing, to \in Executing \ {"setup"} : Call(h, from, to)
    BY <1>1, CallKeeps
  <1>2. CASE \E r \in CompileResults \cup RunResults :
                /\ worker[h] \in {"compiling", "running"} /\ Returns(h, r)
                /\ UNCHANGED <<outside, held, channel, counters>>
    <2>1. PICK r \in CompileResults \cup RunResults : Returns(h, r)
      BY <1>2
    <2>2. r.stage \in {"compile", "run"}
      BY ResultStages
    <2>3. faults \in Nat /\ UNCHANGED <<outside, held, channel, edits>> /\ faults' = faults
      BY <1>2 DEF JudgeInv, RunTypes, counters
    <2>4. Works(h, "answering")
      BY <1>2, <2>1, <2>2, <2>3, ReturningWorks DEF Executing
    <2>5. QED
      BY <2>4, WorkingKeeps
  <1>3. CASE Setup(h)
    BY <1>3, SetupStep
  <1>4. CASE read_runtime_closure(h) \/ prepare_root(h) \/ protect_compiled_executable(h)
    BY <1>1, <1>4 DEF read_runtime_closure, prepare_root, protect_compiled_executable, Executing
  <1>5. CASE write_file(h)
    BY <1>1, <1>5 DEF write_file, Executing
  <1>6. CASE Compile(h)
    BY <1>1, <1>2, <1>6 DEF Compile, Executing
  <1>7. CASE Run(h)
    <2>1. CASE Fault /\ Returns(h, ErrorReply) /\ UNCHANGED <<outside, held, channel>>
      BY <1>7, <2>1, FailingWorks, WorkingKeeps DEF Run, Executing
    <2>2. QED
      BY <1>2, <1>7, <2>1 DEF Run
  <1>8. QED
    BY <1>3, <1>4, <1>5, <1>6, <1>7

----------------------------------------------------------------------------
\* The executor: a child is begun, served and reaped.

\* The thread opens both ends of its channel.
LEMMA SocketpairStep ==
    ASSUME JudgeInv, NEW h \in Threads, Socketpair(h) PROVE JudgeInv'
  <1> USE DEF JudgeInv
  <1>1. CASE Goes(h, "test", "fork") /\ open' = open \cup {BackendEnd(h), WorkerEnd(h)}
             /\ UNCHANGED <<outcome, counters>>
    <2>a. /\ up /\ pc[h] = "test" /\ \A g \in Threads : pc'[g] = IF g = h THEN "fork" ELSE pc[g]
          /\ Len(results[h]) < Len(hidden[h])
      BY <1>1 DEF Socketpair, Goes, RunTypes
    <2>b. UNCHANGED <<up, worker, held, workspace, channel, reply, hidden, results,
                      outcome, edits, faults, problems, tests>>
      BY <1>1 DEF Socketpair, child, wire, catalog, counters
    <2>1. RunTypes'
      BY <1>1, <2>b DEF RunTypes, Goes, ThreadStates, Resting
    <2>2. DescriptorInv'
      BY <1>1, <2>a, <2>b, EndsDiffer DEF DescriptorInv
    <2>3. ChildInv' /\ CleanInv'
      BY <2>a, <2>b DEF ChildInv, CleanInv, Resting
    <2>4. ReadInv' /\ UneditedInv' /\ FailureNeedsACause'
      BY <2>a, <2>b DEF ReadInv, Unread, UneditedInv, FailureNeedsACause
    <2>5. QED
      BY <2>1, <2>2, <2>3, <2>4
  <1>2. CASE /\ Fault /\ Answers(h, "judge_error", "could_not_create_the_channel", "done")
             /\ UNCHANGED open
    <2>1. /\ outcome' = [outcome EXCEPT ![h] =
                [kind |-> "judge_error", type |-> "could_not_create_the_channel"]]
          /\ pc' = [pc EXCEPT ![h] = "done"] /\ faults' = faults + 1
          /\ up /\ pc[h] = "test"
          /\ UNCHANGED <<catalog, up, results, open, child, wire, edits>> /\ UNCHANGED hidden
      BY <1>2 DEF Socketpair, Answers, Fault
    <2>2. /\ faults \in Nat /\ DOMAIN outcome = Threads /\ DOMAIN hidden = Threads
          /\ edits = 0 => hidden[h] # << >>
      BY <2>1 DEF RunTypes, ReadInv, Unread
    <2>3. Thinks(h, "done")
      BY <2>1, <2>2 DEF Thinks, Resting, Unread
    <2>4. QED
      BY <2>3, ThinkingKeeps
  <1>3. QED
    BY <1>1, <1>2 DEF Socketpair

\* The child gets whatever descriptors the other threads have open.
LEMMA ForkStep ==
    ASSUME JudgeInv, NEW h \in Threads, Fork(h) PROVE JudgeInv'
  <1> USE DEF JudgeInv
  <1>a. /\ up /\ pc[h] = "fork" /\ worker[h] = "none" /\ channel[h] = "empty"
        /\ workspace[h] => faults > 0
    BY DEF Fork, ChildInv, Resting, Executing
  <1>b. UNCHANGED <<up, workspace, channel, reply, hidden, results, edits, problems, tests>>
    BY DEF Fork, wire, catalog, Fault, counters
  <1>1. CASE /\ Goes(h, "fork", "send") /\ worker' = [worker EXCEPT ![h] = "forked"]
             /\ held' = [held EXCEPT ![h] = open] /\ UNCHANGED <<outcome, open, counters>>
    <2>a. /\ \A g \in Threads : pc'[g] = IF g = h THEN "send" ELSE pc[g]
          /\ \A g \in Threads : worker'[g] = IF g = h THEN "forked" ELSE worker[g]
          /\ \A g \in Threads : held'[g] = IF g = h THEN open ELSE held[g]
          /\ UNCHANGED <<outcome, open, edits, faults>>
      BY <1>1 DEF Goes, RunTypes, counters
    <2>1. RunTypes'
      BY <1>1, <1>b, <2>a DEF RunTypes, Goes, ThreadStates, Live
    <2>2. DescriptorInv'
      BY <1>a, <1>b, <2>a DEF DescriptorInv, Live, Executing
    <2>3. ChildInv' /\ CleanInv'
      BY <1>a, <1>b, <2>a DEF ChildInv, CleanInv, Resting
    <2>4. ReadInv' /\ UneditedInv' /\ FailureNeedsACause'
      BY <1>a, <1>b, <2>a DEF ReadInv, Unread, UneditedInv, FailureNeedsACause
    <2>5. QED
      BY <2>1, <2>2, <2>3, <2>4
  <1>2. CASE /\ Fault /\ Answers(h, "judge_error", "could_not_launch_the_judge_worker", "done")
             /\ open' = open \ {BackendEnd(h), WorkerEnd(h)} /\ UNCHANGED <<worker, held>>
    <2>a. /\ \A g \in Threads : pc'[g] = IF g = h THEN "done" ELSE pc[g]
          /\ UNCHANGED <<worker, held, edits>> /\ faults' \in Nat /\ faults' > 0
          /\ \A g \in Threads \ {h} : outcome'[g] = outcome[g]
          /\ DOMAIN outcome' = Threads
      BY <1>2 DEF Answers, Fault, RunTypes
    <2>1. RunTypes'
      BY <1>2, <1>b, <2>a DEF RunTypes, Answers, ThreadStates, Resting
    <2>2. DescriptorInv'
      BY <1>2, <1>a, <1>b, <2>a, EndsDiffer DEF DescriptorInv
    <2>3. ChildInv' /\ CleanInv'
      BY <1>a, <1>b, <2>a DEF ChildInv, CleanInv, Resting
    <2>4. ReadInv' /\ UneditedInv' /\ FailureNeedsACause'
      BY <1>a, <1>b, <2>a DEF ReadInv, Unread, UneditedInv, FailureNeedsACause
    <2>5. QED
      BY <2>1, <2>2, <2>3, <2>4
  <1>3. QED
    BY <1>1, <1>2 DEF Fork

\* A request is refused only when it is too long or no process has the other
\* end; as long as nothing has failed, the child has it.
LEMMA SendStep ==
    ASSUME JudgeInv, NEW h \in Threads, Send(h) PROVE JudgeInv'
  <1> USE DEF JudgeInv
  <1>a. /\ up /\ pc[h] = "send" /\ channel[h] = "empty"
        /\ worker[h] \in {"forked", "receiving", "failed", "killed"}
        /\ workspace[h] => faults > 0
        /\ Len(results[h]) < Len(hidden[h])
    BY DEF Send, ChildInv, ReadInv, Executing
  <1>b. UNCHANGED <<up, workspace, reply, hidden, results, edits, faults, problems, tests>>
    BY DEF Send, catalog, counters
  <1>1. CASE /\ ~send_message(h)
             /\ Answers(h, "judge_error", "could_not_send_work_to_the_judge_worker", "done")
             /\ open' = open \ {BackendEnd(h), WorkerEnd(h)}
             /\ worker' = [worker EXCEPT ![h] = "none"] /\ held' = [held EXCEPT ![h] = {}]
             /\ UNCHANGED channel
    <2>a. /\ \A g \in Threads : pc'[g] = IF g = h THEN "done" ELSE pc[g]
          /\ \A g \in Threads : worker'[g] = IF g = h THEN "none" ELSE worker[g]
          /\ \A g \in Threads : held'[g] = IF g = h THEN {} ELSE held[g]
          /\ UNCHANGED channel
          /\ \A g \in Threads \ {h} : outcome'[g] = outcome[g]
      BY <1>1 DEF Answers, RunTypes
    <2>b. faults = 0 => hidden[h][Len(results[h]) + 1].content \in Oversized
      <3>1. faults = 0 => worker[h] \in Live
        BY <1>a DEF CleanInv, Live
      <3>2. faults = 0 => write_all(h)
        BY <3>1 DEF DescriptorInv, write_all
      <3>3. QED
        BY <1>1, <3>2 DEF send_message
    <2>1. RunTypes'
      BY <1>1, <1>b, <2>a DEF RunTypes, Answers, ThreadStates, Resting
    <2>2. DescriptorInv'
      BY <1>1, <1>a, <1>b, <2>a, EndsDiffer DEF DescriptorInv, Live, Executing
    <2>3. ChildInv' /\ CleanInv'
      BY <1>a, <1>b, <2>a DEF ChildInv, CleanInv, Resting
    <2>4. ReadInv' /\ UneditedInv'
      BY <1>a, <1>b, <2>a DEF ReadInv, Unread, UneditedInv
    <2>5. FailureNeedsACause'
      BY <1>a, <1>b, <2>a, <2>b DEF FailureNeedsACause, RunTypes
    <2>6. QED
      BY <2>1, <2>2, <2>3, <2>4, <2>5
  <1>2. CASE /\ Goes(h, "send", "receive") /\ open' = open \ {WorkerEnd(h)}
             /\ channel' = [channel EXCEPT ![h] = "request"]
             /\ UNCHANGED <<outcome, worker, held>>
    <2>a. /\ \A g \in Threads : pc'[g] = IF g = h THEN "receive" ELSE pc[g]
          /\ \A g \in Threads : channel'[g] = IF g = h THEN "request" ELSE channel[g]
          /\ UNCHANGED <<outcome, worker, held>>
      BY <1>2 DEF Goes, RunTypes
    <2>1. RunTypes'
      BY <1>2, <1>b, <2>a DEF RunTypes, Goes, ThreadStates
    <2>2. DescriptorInv'
      BY <1>2, <1>a, <1>b, <2>a, EndsDiffer DEF DescriptorInv
    <2>3. ChildInv'
      BY <1>a, <1>b, <2>a DEF ChildInv, Resting
    <2>4. CleanInv'
      BY <1>a, <1>b, <2>a DEF CleanInv
    <2>5. ReadInv' /\ UneditedInv' /\ FailureNeedsACause'
      BY <1>a, <1>b, <2>a DEF ReadInv, Unread, UneditedInv, FailureNeedsACause
    <2>6. QED
      BY <2>1, <2>2, <2>3, <2>4, <2>5
  <1>3. QED
    BY <1>1, <1>2 DEF Send

\* The end of the file is seen only when no process has the other end; as long
\* as nothing has failed, the child has it until it has answered.
LEMMA ReceiveStep ==
    ASSUME JudgeInv, NEW h \in Threads, Receive(h) PROVE JudgeInv'
  <1> USE DEF JudgeInv
  <1>a. /\ up /\ pc[h] = "receive"
        /\ \A g \in Threads : pc'[g] = IF g = h THEN "wait" ELSE pc[g]
        /\ open' = open \ {BackendEnd(h)}
        /\ \A g \in Threads : reply'[g] = IF g = h THEN receive_message(h) ELSE reply[g]
    BY DEF Receive, Goes, RunTypes
  <1>b. UNCHANGED <<up, worker, held, workspace, channel, hidden, results, outcome,
                    edits, faults, problems, tests>>
    BY DEF Receive, catalog, child, counters
  <1>c. faults = 0 => worker[h] \in {"leaving", "exited"} /\ channel[h] = "response"
    <2>1. SUFFICES ASSUME faults = 0
                   PROVE  worker[h] \in {"leaving", "exited"} /\ channel[h] = "response"
      OBVIOUS
    <2>2. worker[h] \in Live \cup {"exited"}
      BY <1>a, <2>1 DEF CleanInv, RunTypes, Gone
    <2>3. worker[h] \in Live => HeldBySome(WorkerEnd(h))
      BY DEF DescriptorInv, HeldBySome
    <2>4. channel[h] = "response"
      BY <2>1, <2>2, <2>3 DEF Receive, read_all, CleanInv
    <2>5. QED
      BY <1>a, <2>1, <2>2, <2>4 DEF CleanInv
  <1>1. RunTypes'
    BY <1>b DEF RunTypes, Receive, Goes, ThreadStates
  <1>2. DescriptorInv'
    BY <1>a, <1>b, EndsDiffer DEF DescriptorInv
  <1>3. ChildInv'
    BY <1>a, <1>b DEF ChildInv, Resting
  <1>4. CleanInv'
    BY <1>a, <1>b, <1>c DEF CleanInv, receive_message
  <1>5. ReadInv' /\ UneditedInv' /\ FailureNeedsACause'
    BY <1>a, <1>b DEF ReadInv, Unread, UneditedInv, FailureNeedsACause
  <1>6. QED
    BY <1>1, <1>2, <1>3, <1>4, <1>5

\* waitpid waits for the child to have gone; as long as nothing has failed it
\* has answered and exited, so that there is a result.
LEMMA ReapStep ==
    ASSUME JudgeInv, NEW h \in Threads, Reap(h) PROVE JudgeInv'
  <1> USE DEF JudgeInv
  <1>a. /\ up /\ pc[h] = "wait" /\ worker[h] \notin Live
        /\ \A g \in Threads : worker'[g] = IF g = h THEN "none" ELSE worker[g]
        /\ \A g \in Threads : channel'[g] = IF g = h THEN "empty" ELSE channel[g]
        /\ \A g \in Threads : reply'[g] = IF g = h THEN NoReply ELSE reply[g]
    BY DEF Reap, RunTypes
  <1>b. UNCHANGED <<up, open, held, workspace, hidden, edits, faults, problems, tests>>
    BY DEF Reap, catalog, counters
  <1>c. workspace[h] => faults > 0
    BY <1>a DEF ChildInv, Live
  <1>d. PICK to \in {"verdict", "done"} : pc' = [pc EXCEPT ![h] = to]
    BY DEF Reap, Goes, Answers
  <1>e. \A g \in Threads : pc'[g] = IF g = h THEN to ELSE pc[g]
    BY <1>d DEF RunTypes
  <1>f. \A g \in Threads \ {h} : outcome'[g] = outcome[g] /\ results'[g] = results[g]
    BY DEF Reap, Answers, RunTypes
  <1>g. /\ to = "verdict" => outcome'[h] = outcome[h]
        /\ outcome'[h] = outcome[h] \/ faults > 0
    <2>1. CASE reply[h].stage \in {"compile", "run"} /\ worker[h] = "exited"
      BY <2>1 DEF Reap
    <2>2. CASE ~(reply[h].stage \in {"compile", "run"} /\ worker[h] = "exited")
      <3>1. pc'[h] = "done"
        BY <2>2 DEF Reap, Answers, RunTypes
      <3>2. faults # 0
        BY <1>a, <2>2 DEF CleanInv, Live
      <3>3. QED
        BY <1>e, <3>1, <3>2 DEF RunTypes
    <2>3. QED
      BY <2>1, <2>2
  <1>1. RunTypes'
    <2>1. DOMAIN results' = Threads /\ DOMAIN outcome' = Threads
      BY DEF RunTypes, Reap, Answers
    <2>2. QED
      BY <1>b, <1>d, <2>1 DEF RunTypes, Reap, ThreadStates, Resting
  <1>2. DescriptorInv'
    BY <1>a, <1>b, <1>e DEF DescriptorInv, Live, Executing
  <1>3. ChildInv'
    BY <1>a, <1>b, <1>c, <1>e DEF ChildInv, Resting
  <1>4. CleanInv'
    BY <1>a, <1>b, <1>e DEF CleanInv
  <1>5. ReadInv' /\ UneditedInv'
    BY <1>a, <1>b, <1>e, <1>f, <1>g DEF ReadInv, Unread, UneditedInv
  <1>6. FailureNeedsACause'
    BY <1>a, <1>b, <1>f, <1>g DEF FailureNeedsACause, ReadInv
  <1>7. QED
    BY <1>1, <1>2, <1>3, <1>4, <1>5, <1>6

----------------------------------------------------------------------------
\* The child: what it receives, sends and closes, and how it ends.

\* A child that goes, exits or is killed; its directory stays only when a call
\* has failed.
Leaves(h, how) ==
    /\ worker[h] \in Live \cup Gone /\ how \in Gone \cup {"none"}
    /\ worker' = [worker EXCEPT ![h] = how]
    /\ DOMAIN held' = Threads /\ held'[h] = {}
    /\ \A g \in Threads \ {h} : held'[g] = held[g]
    /\ UNCHANGED <<outside, workspace, wire, edits>>
    /\ faults' \in Nat /\ faults' >= faults
    /\ faults' = 0 => worker[h] = "leaving" /\ how = "exited"
    /\ how = "exited" => worker[h] = "leaving"
    /\ how = "none" => ~up

\* A child that leaves closes what it had.
LEMMA LeavingKeeps ==
    ASSUME JudgeInv, NEW h \in Threads, NEW how, Leaves(h, how) PROVE JudgeInv'
  <1> USE DEF JudgeInv
  <1>a. /\ faults \in Nat /\ (faults' = 0 => faults = 0) /\ (faults > 0 => faults' > 0)
        /\ faults' = 0 \/ faults' > 0
    BY DEF RunTypes, Leaves
  <1>b. /\ worker[h] \in Live \cup Gone /\ how \in Gone \cup {"none"} /\ (how = "none" => ~up)
        /\ \A g \in Threads : worker'[g] = IF g = h THEN how ELSE worker[g]
        /\ \A g \in Threads : held'[g] = IF g = h THEN {} ELSE held[g]
        /\ faults' = 0 => worker[h] = "leaving" /\ how = "exited"
        /\ how = "exited" => worker[h] = "leaving"
    BY DEF Leaves, RunTypes
  <1>c. /\ UNCHANGED <<up, pc, open, workspace, channel, reply>>
        /\ UNCHANGED <<catalog, judge, edits>>
    BY DEF Leaves, outside, judge, wire
  <1>1. RunTypes'
    BY <1>c DEF RunTypes, Leaves, outside, judge
  <1>2. DescriptorInv'
    BY <1>b, <1>c DEF DescriptorInv, Live, Executing, Gone
  <1>3. ChildInv'
    BY <1>a, <1>b, <1>c DEF ChildInv, Resting, Live, Executing, Gone
  <1>4. CleanInv'
    BY <1>a, <1>b, <1>c DEF CleanInv
  <1>5. ReadInv' /\ UneditedInv' /\ FailureNeedsACause'
    BY <1>c, JudgeUntouched DEF Leaves
  <1>6. QED
    BY <1>1, <1>2, <1>3, <1>4, <1>5

\* The four ways in which one leaves.
LEMMA LeavesWithLeaves ==
    ASSUME JudgeInv, NEW h \in Threads, NEW from \in Live, NEW how \in Gone,
           LeavesWith(h, from, how), UNCHANGED <<outside, workspace, wire, edits>>,
           faults' \in Nat, faults' >= faults,
           faults' = 0 => from = "leaving" /\ how = "exited",
           how = "exited" => from = "leaving"
    PROVE  JudgeInv'
  <1>1. worker[h] = from /\ worker' = [worker EXCEPT ![h] = how]
    BY DEF LeavesWith, Becomes
  <1>2. /\ DOMAIN held' = Threads /\ held'[h] = {}
        /\ \A g \in Threads \ {h} : held'[g] = held[g]
    BY DEF JudgeInv, RunTypes, LeavesWith
  <1>3. Leaves(h, how)
    BY <1>1, <1>2 DEF Leaves, Gone
  <1>4. QED
    BY <1>3, LeavingKeeps

\* A step of a child that changes only what it holds and what is in its channel.
Talks(h, to) ==
    /\ worker[h] \in Live /\ to \in Live \ {"forked"}
    /\ worker' = [worker EXCEPT ![h] = to]
    /\ DOMAIN held' = Threads /\ held'[h] = {WorkerEnd(h)}
    /\ \A g \in Threads \ {h} : held'[g] = held[g]
    /\ channel' \in [Threads -> {"empty", "request", "response"}]
    /\ \A g \in Threads \ {h} : channel'[g] = channel[g]
    /\ UNCHANGED <<outside, workspace, reply, counters>>
    /\ up /\ pc[h] = "send" => to = "receiving" /\ channel'[h] = "empty"
    /\ workspace[h] => faults > 0
    /\ faults = 0 =>
          /\ to = "leaving" <=> channel'[h] = "response"
          /\ to \in {"answering", "leaving"} => reply[h].stage \in {"compile", "run"}
          /\ worker[h] # "leaving"

\* Such a step disturbs only the child and its channel.
LEMMA TalkingKeeps ==
    ASSUME JudgeInv, NEW h \in Threads, NEW to, Talks(h, to) PROVE JudgeInv'
  <1> USE DEF JudgeInv
  <1>a. /\ worker[h] \in Live /\ to \in Live \ {"forked"}
        /\ \A g \in Threads : worker'[g] = IF g = h THEN to ELSE worker[g]
        /\ \A g \in Threads : held'[g] = IF g = h THEN {WorkerEnd(h)} ELSE held[g]
    BY DEF Talks, RunTypes
  <1>b. /\ UNCHANGED <<up, pc, open, workspace, reply, faults>>
        /\ UNCHANGED <<catalog, judge, edits>>
    BY DEF Talks, outside, judge, counters
  <1>1. RunTypes'
    BY <1>b DEF RunTypes, Talks, outside, judge
  <1>2. DescriptorInv'
    BY <1>a, <1>b DEF DescriptorInv, Live, Executing
  <1>3. ChildInv'
    BY <1>a, <1>b DEF ChildInv, Talks, Resting, Live, Executing
  <1>4. CleanInv'
    BY <1>a, <1>b DEF CleanInv, Talks, Live, Executing
  <1>5. ReadInv' /\ UneditedInv' /\ FailureNeedsACause'
    BY <1>b, JudgeUntouched DEF RunTypes
  <1>6. QED
    BY <1>1, <1>2, <1>3, <1>4, <1>5

\* close_untrusted_descriptors leaves the child its own end.
LEMMA ExecStep ==
    ASSUME JudgeInv, NEW h \in Threads, Exec(h) PROVE JudgeInv'
  <1>1. CASE /\ Becomes(h, "forked", "receiving") /\ close_untrusted_descriptors(h)
             /\ UNCHANGED <<counters, outside, workspace, wire>>
    <2>1. worker[h] = "forked" /\ worker' = [worker EXCEPT ![h] = "receiving"]
      BY <1>1 DEF Becomes
    <2>2. /\ DOMAIN held' = Threads /\ held'[h] = {WorkerEnd(h)}
          /\ \A g \in Threads \ {h} : held'[g] = held[g]
      BY <1>1, <2>1 DEF JudgeInv, RunTypes, DescriptorInv, Live, close_untrusted_descriptors
    <2>3. UNCHANGED <<channel, reply>>
      BY <1>1 DEF wire
    <2>4. /\ channel \in [Threads -> {"empty", "request", "response"}]
          /\ up /\ pc[h] = "send" => channel[h] = "empty"
          /\ workspace[h] => faults > 0
          /\ faults = 0 => channel[h] # "response"
      BY <2>1 DEF JudgeInv, RunTypes, ChildInv, CleanInv, Executing
    <2>5. Talks(h, "receiving")
      BY <1>1, <2>1, <2>2, <2>3, <2>4 DEF Talks, Live
    <2>6. QED
      BY <2>5, TalkingKeeps
  <1>2. CASE Fault /\ LeavesWith(h, "forked", "failed") /\ UNCHANGED <<outside, workspace, wire>>
    <2>1. faults' \in Nat /\ faults' >= faults /\ faults' # 0 /\ edits' = edits
      BY <1>2 DEF JudgeInv, RunTypes, Fault
    <2>2. QED
      BY <1>2, <2>1, LeavesWithLeaves DEF Live, Gone
  <1>3. QED
    BY <1>1, <1>2 DEF Exec

\* The backend has its end open as long as it waits for the child: the child
\* finds it gone only after something has failed.
LEMMA BackendListens ==
    ASSUME JudgeInv, NEW h \in Threads, worker[h] \in Live \ {"leaving"}, ~transfer(h)
    PROVE  faults # 0
  <1>1. SUFFICES ASSUME faults = 0 PROVE FALSE
    OBVIOUS
  <1>2. up /\ (pc[h] = "wait" => worker[h] \in {"leaving", "exited"})
    BY <1>1 DEF JudgeInv, CleanInv
  <1>3. pc[h] \in {"send", "receive"}
    BY <1>2 DEF JudgeInv, RunTypes, ThreadStates, ChildInv, Live, Executing
  <1>4. BackendEnd(h) \in open
    BY <1>2, <1>3 DEF JudgeInv, DescriptorInv
  <1>5. QED
    BY <1>4 DEF transfer, HeldBySome

\* The child takes the request, or finds the backend gone.
LEMMA WorkerReceiveStep ==
    ASSUME JudgeInv, NEW h \in Threads, WorkerReceive(h) PROVE JudgeInv'
  <1>a. DOMAIN held = Threads /\ channel \in [Threads -> {"empty", "request", "response"}]
    BY DEF JudgeInv, RunTypes
  <1>1. CASE /\ Becomes(h, "receiving", "setup") /\ receive(h)
             /\ UNCHANGED <<held, outside, workspace, reply, counters>>
    <2>1. worker[h] = "receiving" /\ worker' = [worker EXCEPT ![h] = "setup"]
      BY <1>1 DEF Becomes
    <2>2. held[h] = {WorkerEnd(h)} /\ (workspace[h] => faults > 0)
      BY <2>1 DEF JudgeInv, DescriptorInv, ChildInv, Live, Executing
    <2>3. channel[h] = "request" /\ channel' = [channel EXCEPT ![h] = "empty"]
      BY <1>1 DEF receive
    <2>4. ~(up /\ pc[h] = "send")
      BY <2>3 DEF JudgeInv, ChildInv
    <2>5. Talks(h, "setup")
      BY <1>1, <1>a, <2>1, <2>2, <2>3, <2>4 DEF Talks, Live, Executing
    <2>6. QED
      BY <2>5, TalkingKeeps
  <1>2. CASE /\ LeavesWith(h, "receiving", "failed") /\ ~transfer(h)
             /\ UNCHANGED <<channel, outside, workspace, reply, counters>>
    <2>1. worker[h] = "receiving"
      BY <1>2 DEF LeavesWith, Becomes
    <2>2. faults # 0
      BY <1>2, <2>1, BackendListens DEF Live
    <2>3. faults' \in Nat /\ faults' >= faults /\ faults' # 0 /\ edits' = edits
      BY <1>2, <2>2 DEF JudgeInv, RunTypes, counters
    <2>4. QED
      BY <1>2, <2>3, LeavesWithLeaves DEF Live, Gone, wire
  <1>3. QED
    BY <1>1, <1>2 DEF WorkerReceive

\* The child answers, or finds the backend gone.
LEMMA RespondStep ==
    ASSUME JudgeInv, NEW h \in Threads, Respond(h) PROVE JudgeInv'
  <1>a. DOMAIN held = Threads /\ channel \in [Threads -> {"empty", "request", "response"}]
    BY DEF JudgeInv, RunTypes
  <1>1. CASE /\ Becomes(h, "answering", "leaving") /\ send(h)
             /\ UNCHANGED <<held, outside, workspace, reply, counters>>
    <2>1. worker[h] = "answering" /\ worker' = [worker EXCEPT ![h] = "leaving"]
      BY <1>1 DEF Becomes
    <2>2. held[h] = {WorkerEnd(h)} /\ (workspace[h] => faults > 0)
      BY <2>1 DEF JudgeInv, DescriptorInv, ChildInv, Live, Executing
    <2>3. channel' = [channel EXCEPT ![h] = "response"]
      BY <1>1 DEF send
    <2>4. ~(up /\ pc[h] = "send")
      BY <2>1 DEF JudgeInv, ChildInv
    <2>5. faults = 0 => reply[h].stage \in {"compile", "run"}
      BY <2>1 DEF JudgeInv, CleanInv
    <2>6. Talks(h, "leaving")
      BY <1>1, <1>a, <2>1, <2>2, <2>3, <2>4, <2>5 DEF Talks, Live
    <2>7. QED
      BY <2>6, TalkingKeeps
  <1>2. CASE /\ LeavesWith(h, "answering", "failed") /\ ~transfer(h)
             /\ UNCHANGED <<channel, outside, workspace, reply, counters>>
    <2>1. worker[h] = "answering"
      BY <1>2 DEF LeavesWith, Becomes
    <2>2. faults # 0
      BY <1>2, <2>1, BackendListens DEF Live
    <2>3. faults' \in Nat /\ faults' >= faults /\ faults' # 0 /\ edits' = edits
      BY <1>2, <2>2 DEF JudgeInv, RunTypes, counters
    <2>4. QED
      BY <1>2, <2>3, LeavesWithLeaves DEF Live, Gone, wire
  <1>3. QED
    BY <1>1, <1>2 DEF Respond

\* The child exits, is killed, or is reaped after the backend.
LEMMA EndingStep ==
    ASSUME JudgeInv, NEW h \in Threads, Exit(h) \/ Adopted(h) \/ KillWorker(h)
    PROVE  JudgeInv'
  <1>1. CASE Exit(h)
    <2>1. faults' \in Nat /\ faults' >= faults /\ edits' = edits
      BY <1>1 DEF JudgeInv, RunTypes, Exit, counters
    <2>2. QED
      BY <1>1, <2>1, LeavesWithLeaves DEF Exit, Live, Gone
  <1>2. CASE Adopted(h)
    <2>1. /\ ~up /\ worker[h] \in Gone /\ worker' = [worker EXCEPT ![h] = "none"]
          /\ UNCHANGED held /\ held[h] = {} /\ DOMAIN held = Threads
      BY <1>2 DEF Adopted, JudgeInv, RunTypes, DescriptorInv
    <2>2. faults' \in Nat /\ faults' >= faults /\ faults' # 0 /\ edits' = edits
      BY <1>2, <2>1 DEF JudgeInv, RunTypes, CleanInv, Adopted, counters
    <2>3. Leaves(h, "none")
      BY <1>2, <2>1, <2>2 DEF Leaves, Adopted, wire
    <2>4. QED
      BY <2>3, LeavingKeeps
  <1>3. CASE KillWorker(h)
    <2>1. faults' \in Nat /\ faults' >= faults /\ faults' # 0 /\ edits' = edits
      BY <1>3 DEF JudgeInv, RunTypes, KillWorker, Fault
    <2>2. QED
      BY <1>3, <2>1, LeavesWithLeaves DEF KillWorker, Gone
  <1>4. QED
    BY <1>1, <1>2, <1>3

----------------------------------------------------------------------------
\* The backend dies, administrators edit, and the theorems.

\* The backend dies, and its descriptors are closed.
LEMMA DieStep ==
    ASSUME JudgeInv, Die PROVE JudgeInv'
  <1> USE DEF JudgeInv
  <1>a. /\ up' = FALSE /\ open' = {} /\ faults' \in Nat /\ faults' >= faults /\ faults' > 0
        /\ UNCHANGED <<worker, held, workspace, channel, reply, pc>>
        /\ UNCHANGED <<catalog, judge, edits>>
    BY DEF Die, Fault, RunTypes, child, wire, judge
  <1>1. RunTypes'
    BY <1>a DEF RunTypes, judge
  <1>2. DescriptorInv'
    BY <1>a DEF DescriptorInv
  <1>3. ChildInv' /\ CleanInv'
    BY <1>a DEF ChildInv, CleanInv
  <1>4. ReadInv' /\ UneditedInv' /\ FailureNeedsACause'
    BY <1>a, JudgeUntouched
  <1>5. QED
    BY <1>1, <1>2, <1>3, <1>4

\* An edit changes what is read later, and nothing that was read.
LEMMA EditsStep ==
    ASSUME JudgeInv, Edits PROVE JudgeInv'
  <1> USE DEF JudgeInv
  <1>a. /\ UNCHANGED <<up, pc, hidden, results, outcome, open, worker, held, workspace,
                       channel, reply, faults>>
        /\ edits' \in Nat /\ edits' > 0 /\ edits' # 0
    BY DEF Edits, RunTypes, judge, child, wire
  <1>1. RunTypes'
    BY <1>a DEF RunTypes
  <1>2. DescriptorInv' /\ ChildInv' /\ CleanInv'
    BY <1>a DEF DescriptorInv, ChildInv, CleanInv
  <1>3. ReadInv' /\ UneditedInv' /\ FailureNeedsACause'
    BY <1>a DEF ReadInv, UneditedInv, FailureNeedsACause
  <1>4. QED
    BY <1>1, <1>2, <1>3

\* One step per action.
LEMMA JudgeInvStep == JudgeInv /\ [JudgeNext]_vars => JudgeInv'
  <1> SUFFICES ASSUME JudgeInv, [JudgeNext]_vars PROVE JudgeInv'
    OBVIOUS
  <1>1. CASE \E h \in Threads : ThreadStep(h)
    BY <1>1, ThinkingStep, SocketpairStep, ForkStep, SendStep, ReceiveStep, ReapStep
       DEF ThreadStep
  <1>2. CASE \E h \in Threads : WorkerStep(h) \/ KillWorker(h)
    BY <1>2, ExecStep, WorkerReceiveStep, WorkingStep, RespondStep, EndingStep
       DEF WorkerStep
  <1>3. CASE Die \/ Edits
    BY <1>3, DieStep, EditsStep
  <1>4. CASE UNCHANGED vars
    <2>1. /\ UNCHANGED <<up, open, worker, held, workspace, channel, reply, pc, faults>>
          /\ UNCHANGED <<catalog, judge, edits>> /\ UNCHANGED <<hidden, results, outcome>>
      BY <1>4 DEF vars, judge, child, wire, counters
    <2>2. RunTypes' /\ DescriptorInv' /\ ChildInv' /\ CleanInv'
      BY <2>1 DEF JudgeInv, RunTypes, DescriptorInv, ChildInv, CleanInv
    <2>3. ReadInv' /\ UneditedInv' /\ FailureNeedsACause'
      BY <2>1, JudgeUntouched DEF JudgeInv, RunTypes
    <2>4. QED
      BY <2>2, <2>3 DEF JudgeInv
  <1>5. QED
    BY <1>1, <1>2, <1>3, <1>4 DEF JudgeNext

\* The inductive invariant holds in every reachable state: of the descriptors,
\* the children, the channels and what each thread has read.
THEOREM JudgeInvariant == JudgeSpec => []JudgeInv
  BY JudgeInvInit, JudgeInvStep, PTL DEF JudgeSpec

\* For any number of threads sharing one process, and whatever children are
\* forked while others have channels open: a submission ends with a judge error
\* only if a call failed, the problem was edited away or a test does not fit
\* (ProblemJudge::run, IsolatedProcessExecutor::run, judge-worker).
THEOREM GivesUpOnlyWithACause == JudgeSpec => []FailureNeedsACause
  BY JudgeInvariant, PTL DEF JudgeInv

\* For any number of threads: between two runs a thread has no child, channel
\* or directory left, and a child that has passed execve has no descriptor but
\* its own (IsolatedProcessExecutor::run, close_untrusted_descriptors).
THEOREM JudgeLeavesNothingBehind == JudgeSpec => []NothingLeftBehind
  <1>1. JudgeInv => NothingLeftBehind
    <2> SUFFICES ASSUME JudgeInv PROVE NothingLeftBehind
      OBVIOUS
    <2>1. SUFFICES ASSUME NEW h \in Threads
                   PROVE  /\ (up /\ pc[h] \in {"test", "verdict", "done"}) =>
                                /\ worker[h] = "none" /\ held[h] = {} /\ channel[h] # "response"
                                /\ {BackendEnd(h), WorkerEnd(h)} \cap open = {}
                                /\ workspace[h] => faults > 0
                          /\ worker[h] \in Live \ {"forked"} => held[h] = {WorkerEnd(h)}
      BY DEF NothingLeftBehind
    <2>2. worker[h] \in Live \ {"forked"} => held[h] = {WorkerEnd(h)}
      BY DEF JudgeInv, DescriptorInv
    <2>3. ASSUME up, pc[h] \in {"test", "verdict", "done"}
          PROVE  /\ worker[h] = "none" /\ held[h] = {} /\ channel[h] # "response"
                 /\ {BackendEnd(h), WorkerEnd(h)} \cap open = {}
                 /\ workspace[h] => faults > 0
      <3>1. worker[h] = "none" /\ channel[h] = "empty" /\ (workspace[h] => faults > 0)
        BY <2>3 DEF JudgeInv, ChildInv, Resting, Executing
      <3>2. held[h] = {} /\ BackendEnd(h) \notin open /\ WorkerEnd(h) \notin open
        BY <2>3, <3>1 DEF JudgeInv, DescriptorInv, Live, Executing
      <3>3. QED
        BY <3>1, <3>2
    <2>4. QED
      BY <2>2, <2>3
  <1>2. QED
    BY <1>1, JudgeInvariant, PTL

----------------------------------------------------------------------------
\* Numbers and ranks.

\* Every set of numbers has a least element.
LEMMA LeastNumber ==
    ASSUME NEW S \in SUBSET Nat, S # {}
    PROVE  \E n \in S : \A m \in S : n <= m
  <1> DEFINE less == {p \in Nat \X Nat : p[1] < p[2]}
  <1>1. IsWellFoundedOn(less, Nat)
    BY NatLessThanWellFounded DEF OpToRel
  <1> HIDE DEF less
  <1>2. PICK n \in S : \A m \in S : ~(<<m, n>> \in less)
    BY <1>1, WFMin
  <1>3. ASSUME NEW m \in S PROVE n <= m
    <2>1. m \in Nat /\ n \in Nat /\ <<m, n>> \notin less
      BY <1>2
    <2>2. QED
      BY <2>1 DEF less
  <1>4. QED
    BY <1>2, <1>3

\* ... and a bounded one a greatest.
LEMMA GreatestNumber ==
    ASSUME NEW S \in SUBSET Nat, S # {}, NEW b \in Nat, \A n \in S : n <= b
    PROVE  Max(S) \in S /\ \A n \in S : n <= Max(S)
  <1> DEFINE T == {b - n : n \in S}
  <1>1. T \in SUBSET Nat /\ T # {}
    <2>1. \A n \in S : b - n \in Nat
      <3>1. \A n \in S : n \in Nat
        OBVIOUS
      <3>2. QED
        BY <3>1
    <2>2. QED
      BY <2>1
  <1>2. PICK d \in T : \A e \in T : d <= e
    BY <1>1, LeastNumber
  <1>3. PICK m \in S : d = b - m
    OBVIOUS
  <1>4. ASSUME NEW n \in S PROVE m >= n
    <2>1. n \in Nat /\ m \in Nat /\ d <= b - n
      BY <1>2
    <2>2. QED
      BY <1>3, <2>1
  <1>5. QED
    BY <1>4 DEF Max

\* The place of each element of E in the order of f.
IsRank(rank, E, f) == rank = [t \in E |-> Cardinality({s \in E : f[s] <= f[t]})]

\* When f tells the elements apart, the ranks are 1, 2, ... up to their number.
LEMMA Ranks ==
    ASSUME NEW E, IsFiniteSet(E), NEW f \in [E -> Nat], \A s, t \in E : f[s] = f[t] => s = t,
           NEW rank, IsRank(rank, E, f)
    PROVE  /\ \A t \in E : rank[t] \in 1 .. Cardinality(E)
           /\ \A s, t \in E : f[s] < f[t] <=> rank[s] < rank[t]
           /\ \A s, t \in E : rank[s] = rank[t] => s = t
           /\ \A r \in 1 .. Cardinality(E) : \E t \in E : rank[t] = r
  <1> DEFINE upTo(t) == {s \in E : f[s] <= f[t]}
  <1>a. Cardinality(E) \in Nat
    BY FS_CardinalityType
  <1>1. \A t \in E : /\ IsFiniteSet(upTo(t)) /\ rank[t] \in Nat
                     /\ rank[t] = Cardinality(upTo(t)) /\ rank[t] <= Cardinality(E)
    <2> SUFFICES ASSUME NEW t \in E
                 PROVE  /\ IsFiniteSet(upTo(t)) /\ rank[t] \in Nat
                        /\ rank[t] = Cardinality(upTo(t)) /\ rank[t] <= Cardinality(E)
      OBVIOUS
    <2>1. upTo(t) \in SUBSET E /\ rank[t] = Cardinality(upTo(t))
      BY DEF IsRank
    <2> HIDE DEF upTo
    <2>2. QED
      BY <2>1, FS_Subset, FS_CardinalityType
  <1>2. \A t \in E : rank[t] >= 1
    <2> SUFFICES ASSUME NEW t \in E PROVE rank[t] >= 1
      OBVIOUS
    <2>1. t \in upTo(t)
      OBVIOUS
    <2> HIDE DEF upTo
    <2>2. Cardinality(upTo(t)) # 0
      BY <1>1, <2>1, FS_EmptySet
    <2>3. QED
      BY <1>1, <2>2
  <1>3. \A s, t \in E : f[s] < f[t] => rank[s] < rank[t]
    <2> SUFFICES ASSUME NEW s \in E, NEW t \in E, f[s] < f[t] PROVE rank[s] < rank[t]
      OBVIOUS
    <2>1. upTo(s) \in SUBSET upTo(t) /\ t \in upTo(t) /\ t \notin upTo(s)
      BY f[s] \in Nat /\ f[t] \in Nat
    <2> HIDE DEF upTo
    <2>2. /\ Cardinality(upTo(s)) <= Cardinality(upTo(t))
          /\ Cardinality(upTo(t)) # Cardinality(upTo(s))
      BY <1>1, <2>1, FS_Subset
    <2>3. QED
      BY <1>1, <2>2
  <1> HIDE DEF upTo
  <1>4. \A s, t \in E : f[s] < f[t] <=> rank[s] < rank[t]
    <2> SUFFICES ASSUME NEW s \in E, NEW t \in E PROVE f[s] < f[t] <=> rank[s] < rank[t]
      OBVIOUS
    <2>1. f[s] \in Nat /\ f[t] \in Nat /\ rank[s] \in Nat /\ rank[t] \in Nat
      BY <1>1
    <2>2. f[s] < f[t] \/ f[t] < f[s] \/ s = t
      BY <2>1
    <2>3. /\ f[s] < f[t] => rank[s] < rank[t]
          /\ f[t] < f[s] => rank[t] < rank[s]
      BY <1>3
    <2>4. QED
      BY <2>1, <2>2, <2>3
  <1>5. \A s, t \in E : rank[s] = rank[t] => s = t
    <2> SUFFICES ASSUME NEW s \in E, NEW t \in E, rank[s] = rank[t] PROVE s = t
      OBVIOUS
    <2>1. f[s] \in Nat /\ f[t] \in Nat /\ rank[s] \in Nat /\ rank[t] \in Nat
      BY <1>1
    <2>2. QED
      BY <1>3, <2>1
  <1>6. rank \in Injection(E, 1 .. Cardinality(E))
    <2>1. rank \in [E -> 1 .. Cardinality(E)]
      BY <1>1, <1>2, <1>a DEF IsRank
    <2>2. QED
      BY <2>1, <1>5 DEF Injection, IsInjective
  <1>7. /\ IsFiniteSet(1 .. Cardinality(E))
        /\ Cardinality(1 .. Cardinality(E)) = Cardinality(E)
    BY <1>a, FS_Interval
  <1>8. rank \in Surjection(E, 1 .. Cardinality(E))
    BY <1>6, <1>7, FS_Injection
  <1>9. QED
    BY <1>1, <1>2, <1>a, <1>4, <1>5, <1>8 DEF Surjection

----------------------------------------------------------------------------
\* The characters that normalize_output keeps are those that Contract counts,
\* and the text it makes of them.

Stays(s, i) == s[i] \notin {"CR", "LF"} \/ Contract!EndsLine(s, i)

StayUpTo(s, i) == {k \in 1 .. i : Stays(s, k)}

Count(s, i) == Cardinality(StayUpTo(s, i))

Becoming(s, i) == IF Contract!EndsLine(s, i) THEN "LF" ELSE s[i]

Text(s) ==
    [r \in 1 .. Count(s, Len(s)) |->
        Becoming(s, CHOOSE k \in StayUpTo(s, Len(s)) : Count(s, k) = r)]

\* How many there are goes up by one at each that stays.
LEMMA Counts ==
    ASSUME NEW s, NEW i \in Nat
    PROVE  /\ IsFiniteSet(StayUpTo(s, i)) /\ Count(s, i) \in Nat
           /\ Count(s, 0) = 0
           /\ Count(s, i + 1) = IF Stays(s, i + 1) THEN Count(s, i) + 1 ELSE Count(s, i)
           /\ \A k \in 0 .. i : Count(s, k) \in Nat /\ Count(s, k) <= Count(s, i)
  <1>1. \A k \in 0 .. i : StayUpTo(s, k) \in SUBSET StayUpTo(s, i)
    BY DEF StayUpTo
  <1>2. StayUpTo(s, i) \in SUBSET (1 .. i)
    BY DEF StayUpTo
  <1>3. IsFiniteSet(1 .. i)
    BY FS_Interval
  <1>4. IsFiniteSet(StayUpTo(s, i)) /\ Count(s, i) \in Nat
    BY <1>2, <1>3, FS_Subset, FS_CardinalityType DEF Count
  <1>5. \A k \in 0 .. i : Count(s, k) \in Nat /\ Count(s, k) <= Count(s, i)
    BY <1>1, <1>4, FS_Subset, FS_CardinalityType DEF Count
  <1>6. Count(s, 0) = 0
    <2>1. StayUpTo(s, 0) = {}
      BY DEF StayUpTo
    <2>2. QED
      BY <2>1, FS_EmptySet DEF Count
  <1>7. Count(s, i + 1) = IF Stays(s, i + 1) THEN Count(s, i) + 1 ELSE Count(s, i)
    <2>1. StayUpTo(s, i + 1) = IF Stays(s, i + 1) THEN StayUpTo(s, i) \cup {i + 1}
                               ELSE StayUpTo(s, i)
      BY DEF StayUpTo
    <2>2. i + 1 \notin StayUpTo(s, i)
      BY DEF StayUpTo
    <2>3. QED
      BY <1>4, <2>1, <2>2, FS_AddElement DEF Count
  <1>8. QED
    BY <1>4, <1>5, <1>6, <1>7

\* The r-th of them is the r-th of the text.
LEMMA Places ==
    ASSUME NEW s, Len(s) \in Nat
    PROVE  LET n == Len(s) IN
           /\ \A k \in StayUpTo(s, n) :
                 /\ k \in 1 .. n /\ Stays(s, k)
                 /\ Count(s, k) \in 1 .. Count(s, n)
                 /\ Text(s)[Count(s, k)] = Becoming(s, k)
           /\ \A k, l \in StayUpTo(s, n) : k < l <=> Count(s, k) < Count(s, l)
           /\ \A r \in 1 .. Count(s, n) : \E k \in StayUpTo(s, n) : Count(s, k) = r
  <1> DEFINE E == StayUpTo(s, Len(s))
             f == [k \in E |-> k]
             rank == [t \in E |-> Cardinality({k \in E : f[k] <= f[t]})]
  <1>1. E \subseteq 1 .. Len(s) /\ \A k \in E : Stays(s, k)
    BY DEF StayUpTo
  <1>2. IsFiniteSet(E) /\ Cardinality(E) = Count(s, Len(s)) /\ Count(s, Len(s)) \in Nat
    BY Counts DEF Count
  <1>3. \A k \in E : rank[k] = Count(s, k)
    <2> SUFFICES ASSUME NEW k \in E PROVE rank[k] = Count(s, k)
      OBVIOUS
    <2>1. {l \in E : f[l] <= f[k]} = StayUpTo(s, k)
      BY <1>1 DEF StayUpTo
    <2>2. QED
      BY <2>1 DEF Count
  <1>4. f \in [E -> Nat] /\ \A k, l \in E : f[k] = f[l] => k = l
    BY <1>1
  <1>5. /\ \A k \in E : rank[k] \in 1 .. Cardinality(E)
        /\ \A k, l \in E : f[k] < f[l] <=> rank[k] < rank[l]
        /\ \A k, l \in E : rank[k] = rank[l] => k = l
        /\ \A r \in 1 .. Cardinality(E) : \E k \in E : rank[k] = r
    <2>1. IsRank(rank, E, f)
      BY DEF IsRank
    <2> HIDE DEF E, f, rank
    <2>2. QED
      BY <1>2, <1>4, <2>1, Ranks
  <1>6. \A k, l \in E : f[k] < f[l] <=> k < l
    OBVIOUS
  <1> HIDE DEF E, f, rank
  <1>7. ASSUME NEW k \in E PROVE Text(s)[Count(s, k)] = Becoming(s, k)
    <2>1. Count(s, k) \in 1 .. Count(s, Len(s))
      BY <1>2, <1>3, <1>5
    <2>2. (CHOOSE l \in E : Count(s, l) = Count(s, k)) = k
      BY <1>3, <1>5
    <2>3. QED
      BY <2>1, <2>2 DEF Text, E
  <1>8. /\ \A k \in E : /\ k \in 1 .. Len(s) /\ Stays(s, k)
                        /\ Count(s, k) \in 1 .. Count(s, Len(s))
                        /\ Text(s)[Count(s, k)] = Becoming(s, k)
        /\ \A k, l \in E : k < l <=> Count(s, k) < Count(s, l)
        /\ \A r \in 1 .. Count(s, Len(s)) : \E k \in E : Count(s, k) = r
    BY <1>1, <1>2, <1>3, <1>5, <1>6, <1>7
  <1>9. QED
    BY <1>8 DEF E

\* One round of the loop of normalize_output, and what satisfies all rounds.
Round(kept, s, i) ==
    IF i = 0 THEN << >>
    ELSE CASE s[i] = "CR" -> Append(kept[i - 1], "LF")
           [] s[i] = "LF" /\ i > 1 /\ s[i - 1] = "CR" -> kept[i - 1]
           [] OTHER -> Append(kept[i - 1], s[i])

IsLoop(kept, s) == kept = [i \in 0 .. Len(s) |-> Round(kept, s, i)]

\* A round appends the character if it stays.
LEMMA RoundAppends ==
    ASSUME NEW s, NEW kept, NEW i \in Nat \ {0}
    PROVE  Round(kept, s, i) = IF Stays(s, i) THEN Append(kept[i - 1], Becoming(s, i))
                               ELSE kept[i - 1]
  <1>1. CASE s[i] = "CR"
    BY <1>1 DEF Round, Stays, Becoming, Contract!EndsLine
  <1>2. CASE s[i] = "LF"
    BY <1>2 DEF Round, Stays, Becoming, Contract!EndsLine
  <1>3. CASE s[i] # "CR" /\ s[i] # "LF"
    BY <1>3 DEF Round, Stays, Becoming, Contract!EndsLine
  <1>4. QED
    BY <1>1, <1>2, <1>3

\* There is one function that satisfies all rounds.
LEMMA OneLoop ==
    ASSUME NEW s, Len(s) \in Nat, NEW f, IsLoop(f, s), NEW g, IsLoop(g, s) PROVE f = g
  <1> DEFINE D == {i \in 0 .. Len(s) : f[i] # g[i]}
  <1>1. ASSUME D # {} PROVE FALSE
    <2>1. D \in SUBSET Nat
      OBVIOUS
    <2>2. PICK i \in D : \A k \in D : i <= k
      BY <1>1, <2>1, LeastNumber
    <2>3. i \in 0 .. Len(s) /\ f[i] # g[i]
      OBVIOUS
    <2>4. f[i] = Round(f, s, i) /\ g[i] = Round(g, s, i)
      BY <2>3 DEF IsLoop
    <2>5. i # 0
      BY <2>3, <2>4 DEF Round
    <2>6. f[i - 1] = g[i - 1]
      <3>1. i - 1 \in 0 .. Len(s) /\ ~(i <= i - 1)
        BY <2>3, <2>5
      <3>2. QED
        BY <2>2, <3>1
    <2>7. i \in Nat \ {0}
      BY <2>3, <2>5
    <2>8. QED
      BY <2>3, <2>4, <2>6, <2>7, RoundAppends
  <1>2. DOMAIN f = 0 .. Len(s) /\ DOMAIN g = 0 .. Len(s)
    BY DEF IsLoop
  <1>3. QED
    BY <1>1, <1>2 DEF IsLoop

\* The loop makes the text of the characters that stay.
LEMMA LoopText ==
    ASSUME NEW s \in Seq(STRING) PROVE LineEnds(s) = Text(s)
  <1> DEFINE n == Len(s)
             g == [i \in 0 .. n |-> [r \in 1 .. Count(s, i) |-> Text(s)[r]]]
  <1>1. n \in Nat /\ Count(s, n) \in Nat
    BY Counts
  <1>2. g[n] = Text(s)
    BY <1>1 DEF Text
  <1>3. ASSUME NEW i \in 0 .. n PROVE g[i] = Round(g, s, i)
    <2>1. CASE i = 0
      <3>1. g[0] = [r \in 1 .. 0 |-> Text(s)[r]]
        <4>1. Count(s, 0) = 0 /\ 0 \in 0 .. n
          BY <1>1, Counts
        <4>2. QED
          BY <4>1
      <3>2. g[0] = << >>
        BY <3>1
      <3>3. QED
        BY <2>1, <3>2 DEF Round
    <2>2. CASE i # 0
      <3> DEFINE c == Count(s, i - 1)
      <3>1. i \in Nat \ {0} /\ i - 1 \in Nat /\ i - 1 \in 0 .. n /\ (i - 1) + 1 = i
        BY <2>2
      <3>2. c \in Nat /\ Count(s, i) = IF Stays(s, i) THEN c + 1 ELSE c
        BY <3>1, Counts
      <3>3. g[i - 1] = [r \in 1 .. c |-> Text(s)[r]]
        BY <3>1
      <3>4. CASE Stays(s, i)
        <4>1. i \in StayUpTo(s, n) /\ Count(s, i) = c + 1
          BY <3>1, <3>2, <3>4 DEF StayUpTo
        <4>2. Text(s)[c + 1] = Becoming(s, i)
          BY <1>1, <4>1, Places
        <4>3. g[i] = [r \in 1 .. (c + 1) |-> Text(s)[r]]
          BY <4>1
        <4>4. Append([r \in 1 .. c |-> Text(s)[r]], Text(s)[c + 1]) =
                  [r \in 1 .. (c + 1) |-> Text(s)[r]]
          <5> HIDE DEF c
          <5> DEFINE t == [r \in 1 .. c |-> Text(s)[r]]
          <5>2. Len(t) = c
            BY <3>2
          <5>3. QED
            BY <3>2, <5>2
        <4> HIDE DEF g, c
        <4>5. Round(g, s, i) = Append(g[i - 1], Becoming(s, i))
          BY <3>1, <3>4, RoundAppends
        <4>6. QED
          BY <3>3, <4>2, <4>3, <4>4, <4>5
      <3>5. CASE ~Stays(s, i)
        <4>1. g[i] = [r \in 1 .. c |-> Text(s)[r]]
          BY <3>2, <3>5
        <4> HIDE DEF g, c
        <4>2. Round(g, s, i) = g[i - 1]
          BY <3>1, <3>5, RoundAppends
        <4>3. QED
          BY <3>3, <4>1, <4>2
      <3>6. QED
        BY <3>4, <3>5
    <2>3. QED
      BY <2>1, <2>2
  <1>4. IsLoop(g, s)
    <2>1. g = [i \in 0 .. n |-> g[i]]
      OBVIOUS
    <2> HIDE DEF g
    <2>2. QED
      BY <1>3, <2>1 DEF IsLoop
  <1>5. LineEnds(s) = (CHOOSE f : IsLoop(f, s))[n]
    BY DEF LineEnds, IsLoop, Round
  <1> HIDE DEF g
  <1>6. (CHOOSE f : IsLoop(f, s)) = g
    <2>1. \A f : IsLoop(f, s) => f = g
      BY <1>1, <1>4, OneLoop
    <2>2. QED
      BY <1>4, <2>1
  <1>7. QED
    BY <1>2, <1>5, <1>6

\* The two modules count alike.
LEMMA SameCardinality == ASSUME NEW S PROVE Contract!Cardinality(S) = Cardinality(S)
  BY DEF Contract!Cardinality, Cardinality

\* Length is the place of the last character that is no white space.
LEMMA LastPlace ==
    ASSUME NEW s \in Seq(STRING)
    PROVE  /\ Contract!Length(s) \in 0 .. Len(s)
           /\ Contract!Length(s) # 0 => s[Contract!Length(s)] \notin {"SP", "LF", "CR"}
           /\ \A i \in 1 .. Len(s) : i > Contract!Length(s) => s[i] \in {"SP", "LF", "CR"}
  <1> DEFINE S == {0} \cup {i \in DOMAIN s : s[i] \notin {"SP", "LF", "CR"}}
  <1>1. S \in SUBSET Nat /\ S # {} /\ Len(s) \in Nat /\ \A i \in S : i <= Len(s)
    OBVIOUS
  <1>2. Contract!Length(s) = Max(S)
    BY DEF Contract!Length, Contract!Blank, Contract!Max, Max
  <1> HIDE DEF S
  <1>3. Max(S) \in S /\ Max(S) \in Nat /\ \A i \in S : i <= Max(S)
    BY <1>1, GreatestNumber
  <1>4. ASSUME NEW i \in 1 .. Len(s), i > Max(S) PROVE s[i] \in {"SP", "LF", "CR"}
    <2>1. i \notin S
      BY <1>1, <1>3, <1>4
    <2>2. QED
      BY <2>1 DEF S
  <1>5. Max(S) # 0 => s[Max(S)] \notin {"SP", "LF", "CR"}
    BY <1>3 DEF S
  <1>6. QED
    BY <1>1, <1>2, <1>3, <1>4, <1>5

\* normalize_output keeps the characters that Contract counts, and no more.
LEMMA TrimmedText ==
    ASSUME NEW s \in Seq(STRING)
    PROVE  LET m == Count(s, Contract!Length(s)) IN
           /\ m \in Nat /\ Contract!Kept(s) = StayUpTo(s, Contract!Length(s))
           /\ normalize_output(s) = [r \in 1 .. m |-> Text(s)[r]]
  <1> DEFINE n == Len(s)
             l == Contract!Length(s)
             m == Count(s, l)
             T == {0} \cup {r \in DOMAIN Text(s) : Text(s)[r] \notin {"SP", "LF"}}
  <1>1. /\ n \in Nat /\ l \in Nat /\ l <= n
        /\ l # 0 => s[l] \notin {"SP", "LF", "CR"}
        /\ \A i \in 1 .. n : i > l => s[i] \in {"SP", "LF", "CR"}
    BY LastPlace
  <1>2. /\ Count(s, n) \in Nat /\ m \in Nat /\ m <= Count(s, n) /\ Count(s, 0) = 0
        /\ \A k \in 0 .. l : Count(s, k) \in Nat /\ Count(s, k) <= m
    BY <1>1, Counts
  <1>3. DOMAIN Text(s) = 1 .. Count(s, n)
    BY DEF Text
  <1>4. Contract!Kept(s) = StayUpTo(s, l)
    BY DEF Contract!Kept, StayUpTo, Stays
  <1> HIDE DEF l, m
  <1>5. m \in T
    <2>1. CASE l = 0
      BY <2>1, <1>2 DEF m
    <2>2. CASE l # 0
      <3>1. l \in StayUpTo(s, n) /\ Becoming(s, l) = s[l]
        BY <1>1, <2>2 DEF StayUpTo, Stays, Becoming, Contract!EndsLine
      <3>2. m \in 1 .. Count(s, n) /\ Text(s)[m] = s[l]
        BY <1>1, <3>1, Places DEF m
      <3>3. QED
        BY <1>1, <1>3, <2>2, <3>2
    <2>3. QED
      BY <2>1, <2>2
  <1>6. ASSUME NEW r \in T PROVE m >= r
    <2>1. CASE r = 0
      BY <1>2, <2>1
    <2>2. CASE r # 0
      <3>1. r \in 1 .. Count(s, n) /\ Text(s)[r] \notin {"SP", "LF"}
        BY <1>3, <2>2
      <3>2. PICK k \in StayUpTo(s, n) : Count(s, k) = r
        BY <1>1, <3>1, Places
      <3>3. k \in 1 .. n /\ Text(s)[r] = Becoming(s, k)
        BY <1>1, <3>2, Places
      <3>4. s[k] \notin {"SP", "LF", "CR"}
        BY <3>1, <3>3 DEF Becoming, Contract!EndsLine
      <3>5. k \in 0 .. l
        BY <1>1, <3>3, <3>4
      <3>6. QED
        BY <1>2, <3>2, <3>5
    <2>3. QED
      BY <2>1, <2>2
  <1>7. Max(T) = m
    <2>1. T \subseteq Nat
      BY <1>2, <1>3
    <2> HIDE DEF T
    <2>2. \A x \in T : (\A y \in T : x >= y) => x = m
      BY <1>2, <1>5, <1>6, <2>1
    <2>3. QED
      BY <1>5, <1>6, <2>2 DEF Max
  <1>8. normalize_output(s) = SubSeq(Text(s), 1, m)
    BY <1>7, LoopText DEF normalize_output
  <1>9. SubSeq(Text(s), 1, m) = [r \in 1 .. m |-> Text(s)[r]]
    <2> DEFINE S == {Text(s)[r] : r \in 1 .. Count(s, n)}
    <2>1. Text(s) \in [1 .. Count(s, n) -> S]
      BY DEF Text
    <2> HIDE DEF S, T
    <2>2. Text(s) \in Seq(S) /\ Len(Text(s)) = Count(s, n)
      BY <1>2, <2>1
    <2>3. QED
      BY <1>2, <2>2
  <1>10. QED
    BY <1>2, <1>4, <1>8, <1>9 DEF l, m

\* The first characters that stay have the first places.
LEMMA KeptPlaces ==
    ASSUME NEW s \in Seq(STRING)
    PROVE  LET l == Contract!Length(s) IN
           /\ \A k \in StayUpTo(s, l) :
                 Count(s, k) \in 1 .. Count(s, l) /\ Text(s)[Count(s, k)] = Becoming(s, k)
           /\ \A r \in 1 .. Count(s, l) : \E k \in StayUpTo(s, l) : Count(s, k) = r
  <1> DEFINE n == Len(s)
             l == Contract!Length(s)
  <1>1. n \in Nat /\ l \in Nat /\ l <= n
    BY LastPlace
  <1> HIDE DEF l
  <1>2. /\ \A k \in 0 .. l : Count(s, k) \in Nat /\ Count(s, k) <= Count(s, l)
        /\ Count(s, n) \in Nat /\ Count(s, l) \in Nat /\ Count(s, l) <= Count(s, n)
    BY <1>1, Counts
  <1>3. StayUpTo(s, l) = StayUpTo(s, n) \cap 1 .. l
    BY <1>1 DEF StayUpTo
  <1>4. ASSUME NEW k \in StayUpTo(s, l)
        PROVE  Count(s, k) \in 1 .. Count(s, l) /\ Text(s)[Count(s, k)] = Becoming(s, k)
    BY <1>1, <1>2, <1>3, Places
  <1>5. ASSUME NEW r \in 1 .. Count(s, l) PROVE \E k \in StayUpTo(s, l) : Count(s, k) = r
    <2>1. PICK k \in StayUpTo(s, n) : Count(s, k) = r
      BY <1>1, <1>2, Places
    <2>2. CASE k <= l
      BY <1>1, <1>3, <2>1, <2>2, Places
    <2>3. CASE k > l
      <3>1. k \in Nat /\ k - 1 \in Nat /\ l \in 0 .. (k - 1) /\ (k - 1) + 1 = k /\ Stays(s, k)
        BY <1>1, <2>1, <2>3, Places
      <3>2. /\ Count(s, k) = Count(s, k - 1) + 1
            /\ Count(s, l) <= Count(s, k - 1) /\ Count(s, k - 1) \in Nat
        BY <3>1, Counts
      <3>3. QED
        BY <1>2, <2>1, <3>2
    <2>4. QED
      BY <1>1, <2>1, <2>2, <2>3, Places
  <1>6. QED
    BY <1>4, <1>5 DEF l

\* The contract's comparison is the code's: two outputs have the same lines,
\* whatever ends a line, up to white space at the end, if and only if
\* normalize_output makes the same text of them.
THEOREM NormalizationDecides ==
    ASSUME NEW a \in Seq(STRING), NEW b \in Seq(STRING)
    PROVE  normalize_output(a) = normalize_output(b) <=> Contract!SameAnswer(a, b)
  <1> DEFINE la == Contract!Length(a)
             lb == Contract!Length(b)
             ma == Count(a, la)
             mb == Count(b, lb)
             same(i, k) == a[i] = b[k] \/ (Contract!EndsLine(a, i) /\ Contract!EndsLine(b, k))
  <1>1. /\ ma \in Nat /\ Contract!Kept(a) = StayUpTo(a, la)
        /\ normalize_output(a) = [r \in 1 .. ma |-> Text(a)[r]]
    BY TrimmedText
  <1>2. /\ mb \in Nat /\ Contract!Kept(b) = StayUpTo(b, lb)
        /\ normalize_output(b) = [r \in 1 .. mb |-> Text(b)[r]]
    BY TrimmedText
  <1>3. normalize_output(a) = normalize_output(b) <=>
            ma = mb /\ \A r \in 1 .. ma : Text(a)[r] = Text(b)[r]
    <2> HIDE DEF ma, mb
    <2>1. ma # mb => 1 .. ma # 1 .. mb
      BY <1>1, <1>2
    <2>2. QED
      BY <1>1, <1>2, <2>1
  <1>4. ASSUME NEW i \in StayUpTo(a, la), NEW k \in StayUpTo(b, lb)
        PROVE  Becoming(a, i) = Becoming(b, k) <=> same(i, k)
    BY DEF StayUpTo, Stays, Becoming, Contract!EndsLine
  <1>5. Contract!SameAnswer(a, b) <=>
            /\ ma = mb
            /\ \A i \in StayUpTo(a, la), k \in StayUpTo(b, lb) :
                  Count(a, i) = Count(b, k) => same(i, k)
    <2>1. \A i \in StayUpTo(a, la) : Contract!Rank(a, i) = Count(a, i)
      <3> SUFFICES ASSUME NEW i \in StayUpTo(a, la) PROVE Contract!Rank(a, i) = Count(a, i)
        OBVIOUS
      <3>1. la \in Nat
        BY LastPlace
      <3>2. {k \in Contract!Kept(a) : k <= i} = StayUpTo(a, i)
        BY <1>1, <3>1 DEF StayUpTo
      <3>3. QED
        BY <3>2, SameCardinality DEF Contract!Rank, Count
    <2>2. \A k \in StayUpTo(b, lb) : Contract!Rank(b, k) = Count(b, k)
      <3> SUFFICES ASSUME NEW k \in StayUpTo(b, lb) PROVE Contract!Rank(b, k) = Count(b, k)
        OBVIOUS
      <3>1. lb \in Nat
        BY LastPlace
      <3>2. {i \in Contract!Kept(b) : i <= k} = StayUpTo(b, k)
        BY <1>2, <3>1 DEF StayUpTo
      <3>3. QED
        BY <3>2, SameCardinality DEF Contract!Rank, Count
    <2>3. Cardinality(Contract!Kept(a)) = ma /\ Cardinality(Contract!Kept(b)) = mb
      BY <1>1, <1>2 DEF Count
    <2> HIDE DEF la, lb, ma, mb
    <2>4. QED
      BY <1>1, <1>2, <2>1, <2>2, <2>3, SameCardinality DEF Contract!SameAnswer
  <1>6. \A r \in 1 .. ma : \E i \in StayUpTo(a, la) : Count(a, i) = r
    BY KeptPlaces
  <1>7. \A i \in StayUpTo(a, la) : Count(a, i) \in 1 .. ma /\ Text(a)[Count(a, i)] = Becoming(a, i)
    BY KeptPlaces
  <1>8. \A r \in 1 .. mb : \E k \in StayUpTo(b, lb) : Count(b, k) = r
    BY KeptPlaces
  <1>9. \A k \in StayUpTo(b, lb) : Count(b, k) \in 1 .. mb /\ Text(b)[Count(b, k)] = Becoming(b, k)
    BY KeptPlaces
  <1> HIDE DEF la, lb, ma, mb, same
  <1>10. QED
    BY <1>3, <1>4, <1>5, <1>6, <1>7, <1>8, <1>9

----------------------------------------------------------------------------
\* The tests that are read.

\* A row of hidden_tests.
HiddenTest == [id : Nat, content : DOMAIN Expected]

\* The tests are those of the problem, and no two are at the same position.
CatalogInv ==
    /\ test_seq \in Nat /\ DOMAIN tests \subseteq 1 .. test_seq
    /\ \A t \in DOMAIN tests :
          /\ tests[t].problem = Problem /\ tests[t].position \in Nat
          /\ tests[t].content \in DOMAIN Expected
    /\ \A s, t \in DOMAIN tests : tests[s].position = tests[t].position => s = t

\* Tests as read_problem orders them.
ByPosition(enabled) ==
    [i \in 1 .. Cardinality(enabled) |->
        LET t == CHOOSE t \in enabled :
                    Cardinality({s \in enabled : tests[s].position <= tests[t].position}) = i
        IN [id |-> t, content |-> tests[t].content]]

\* read_problem gives every enabled test once, by position, as the contract
\* asks.
LEMMA TestsAreInOrder ==
    ASSUME CatalogInv
    PROVE  LET q == TestsInOrder
               enabled == {t \in DOMAIN tests : tests[t].enabled}
           IN /\ q \in Seq(HiddenTest)
              /\ {q[i].id : i \in DOMAIN q} = enabled /\ Len(q) = Cardinality(enabled)
              /\ \A i \in DOMAIN q : q[i].content = tests[q[i].id].content
              /\ \A i, k \in DOMAIN q :
                    i < k => tests[q[i].id].position < tests[q[k].id].position
  <1> DEFINE E == {t \in DOMAIN tests : tests[t].enabled}
             f == [t \in E |-> tests[t].position]
             rank == [t \in E |-> Cardinality({s \in E : f[s] <= f[t]})]
             at(i) == CHOOSE t \in E : rank[t] = i
             n == Cardinality(E)
             q == TestsInOrder
  <1>1. /\ IsFiniteSet(E) /\ n \in Nat
        /\ \A t \in E : t \in Nat /\ tests[t].content \in DOMAIN Expected
    <2>1. E \in SUBSET (1 .. test_seq) /\ \A t \in E : tests[t].content \in DOMAIN Expected
      BY DEF CatalogInv
    <2>2. IsFiniteSet(1 .. test_seq) /\ test_seq \in Nat
      BY FS_Interval DEF CatalogInv
    <2> HIDE DEF E
    <2>3. IsFiniteSet(E) /\ n \in Nat
      BY <2>1, <2>2, FS_Subset, FS_CardinalityType
    <2>4. QED
      BY <2>1, <2>2, <2>3
  <1>2. f \in [E -> Nat] /\ \A s, t \in E : f[s] = f[t] => s = t
    BY DEF CatalogInv
  <1>3. IsRank(rank, E, f)
    BY DEF IsRank
  <1>4. q = [i \in 1 .. n |-> [id |-> at(i), content |-> tests[at(i)].content]]
    <2>1. {t \in TestsOf(Problem) : tests[t].enabled} = E
      BY DEF TestsOf, CatalogInv
    <2>2. \A t \in E : {s \in E : tests[s].position <= tests[t].position} = {s \in E : f[s] <= f[t]}
      OBVIOUS
    <2>3. \A t \in E : rank[t] = Cardinality({s \in E : tests[s].position <= tests[t].position})
      BY <2>2
    <2> HIDE DEF E, f, rank
    <2>4. \A i : at(i) = CHOOSE t \in E :
                     Cardinality({s \in E : tests[s].position <= tests[t].position}) = i
      BY <2>3
    <2>5. TestsInOrder = ByPosition({t \in TestsOf(Problem) : tests[t].enabled})
      BY DEF TestsInOrder, ByPosition
    <2>6. q = ByPosition(E)
      BY <2>1, <2>5
    <2> HIDE DEF q, at
    <2>7. QED
      BY <2>4, <2>6 DEF ByPosition
  <1>5. \A t \in E : f[t] = tests[t].position
    OBVIOUS
  <1> HIDE DEF E, f, rank, q
  <1>6. /\ \A t \in E : rank[t] \in 1 .. n
        /\ \A s, t \in E : f[s] < f[t] <=> rank[s] < rank[t]
        /\ \A s, t \in E : rank[s] = rank[t] => s = t
        /\ \A i \in 1 .. n : \E t \in E : rank[t] = i
    BY <1>1, <1>2, <1>3, Ranks
  <1>7. \A i \in 1 .. n : at(i) \in E /\ rank[at(i)] = i
    BY <1>6
  <1> HIDE DEF at, n
  <1>8. q \in Seq(HiddenTest) /\ Len(q) = n /\ DOMAIN q = 1 .. n
    BY <1>1, <1>4, <1>7 DEF HiddenTest
  <1>9. \A i \in 1 .. n : q[i].id = at(i) /\ q[i].content = tests[at(i)].content
    BY <1>4
  <1>10. {q[i].id : i \in DOMAIN q} = E
    BY <1>6, <1>7, <1>8, <1>9 DEF n
  <1>11. \A i, k \in DOMAIN q : i < k => tests[q[i].id].position < tests[q[k].id].position
    BY <1>5, <1>6, <1>7, <1>8, <1>9
  <1>12. QED
    BY <1>8, <1>9, <1>10, <1>11 DEF E, n, q

----------------------------------------------------------------------------
\* The invariant of the refinement.

\* What a run may be reported as.
RunReports == CompileResults \cup RunResults

\* The facts about reports that a verdict rests on.
LEMMA ReportShape ==
    ASSUME NEW e \in RunReports
    PROVE  /\ e.stage \in {"compile", "run"} /\ e.timed_out \in BOOLEAN
           /\ e.stage = "compile" => ~e.timed_out /\ e.exit_code # 0
           /\ e.error_type # "none" =>
                 e.exit_code # 0 /\ classify_runtime_error(e) = e.error_type
           /\ e.stage = "run" => e.output \in Seq(STRING)
  <1>1. ASSUME NEW f, f.exit_code # 0, NEW type, type # "none",
               e = Execution("compile", FALSE, f, type, << >>)
        PROVE  /\ e.stage = "compile" /\ e.timed_out = FALSE /\ e.exit_code # 0
               /\ classify_runtime_error(e) = e.error_type
    <2>1. /\ e.stage = "compile" /\ e.timed_out = FALSE /\ e.exit_code = f.exit_code
          /\ e.error_type = type
      BY <1>1 DEF Execution
    <2>2. QED
      BY <1>1, <2>1 DEF classify_runtime_error
  <1>2. ASSUME NEW b \in BOOLEAN, NEW f, NEW o \in Seq(STRING), NEW type,
               e = Execution("run", b, f, type, o), type # "none" => f.exit_code # 0
        PROVE  /\ e.stage = "run" /\ e.timed_out \in BOOLEAN /\ e.output \in Seq(STRING)
               /\ e.error_type # "none" =>
                     e.exit_code # 0 /\ classify_runtime_error(e) = e.error_type
    <2>1. /\ e.stage = "run" /\ e.timed_out = b /\ e.output = o
          /\ e.exit_code = f.exit_code /\ e.error_type = type
      BY <1>2 DEF Execution
    <2>2. QED
      BY <1>2, <2>1 DEF classify_runtime_error
  <1>3. CASE \E f \in Failures : e = Execution("compile", FALSE, f, "compilation_error", << >>)
    BY <1>1, <1>3, JudgeAssumption
  <1>4. CASE e = Execution("compile", FALSE, Ended(1), "compilation_time_limit_exceeded", << >>)
    <2>1. Ended(1).exit_code # 0
      BY DEF Ended
    <2>2. QED
      BY <1>1, <1>4, <2>1
  <1>5. CASE \E o \in Outputs : e = Execution("run", FALSE, Ended(0), "none", o)
    BY <1>2, <1>5, JudgeAssumption
  <1>6. CASE \E f \in Failures : e = Execution("run", FALSE, f, "none", << >>)
    <2>1. << >> \in Seq(STRING)
      OBVIOUS
    <2>2. QED
      BY <1>2, <1>6, <2>1
  <1>7. CASE e = Execution("run", TRUE, Ended(0), "none", << >>)
    <2>1. << >> \in Seq(STRING)
      OBVIOUS
    <2>2. QED
      BY <1>2, <1>7, <2>1
  <1>8. CASE \E b \in BOOLEAN : e = Execution("run", b, Ended(OutputLimitExitCode),
                                            "output_limit_exceeded", << >>)
    <2>1. << >> \in Seq(STRING) /\ Ended(OutputLimitExitCode).exit_code # 0
      BY DEF Ended, OutputLimitExitCode
    <2>2. QED
      BY <1>2, <1>8, <2>1
  <1>9. QED
    BY <1>3, <1>4, <1>5, <1>6, <1>7, <1>8 DEF RunReports, CompileResults, RunResults

\* The sequences a thread works with.
ReportTypes ==
    /\ hidden \in [Threads -> Seq(HiddenTest)]
    /\ results \in [Threads -> Seq(RunReports)]
    /\ \A h \in Threads : reply[h] \in RunReports \cup {NoReply, ErrorReply}

\* The first n runs have passed.
PassedUpTo(h, n) == \A i \in 1 .. n : Contract!Passes(h, i)

\* A thread that has not answered has passed every test it has run, but for
\* the last when it is still to be looked at.
InProgress(h) ==
    /\ pc[h] \notin {"done", "unread"} => outcome[h] = Contract!Open
    /\ pc[h] \in {"idle", "tests"} => results[h] = << >>
    /\ pc[h] = "test" => Len(results[h]) <= Len(hidden[h])
    /\ pc[h] \in {"fork", "send", "receive", "wait"} => Len(results[h]) < Len(hidden[h])
    /\ pc[h] \in {"test", "fork", "send", "receive", "wait"} => PassedUpTo(h, Len(results[h]))
    /\ pc[h] = "verdict" =>
          Len(results[h]) \in 1 .. Len(hidden[h]) /\ PassedUpTo(h, Len(results[h]) - 1)

ProgressInv == \A h \in Threads : InProgress(h)

ContractInv == JudgeInv /\ CatalogInv /\ ReportTypes /\ ProgressInv

\* One by one, the tests as they are at the start.
LEMMA ContractInvInit == JudgeInit => ContractInv /\ Contract!ContractInit
  <1> SUFFICES ASSUME JudgeInit PROVE ContractInv /\ Contract!ContractInit
    OBVIOUS
  <1>1. JudgeInv
    BY JudgeInvInit
  <1>2. CatalogInv
    BY ProblemsAssumption, JudgeAssumption DEF JudgeInit, CatalogInv, NewTest
  <1>3. ReportTypes
    BY DEF JudgeInit, ReportTypes
  <1>4. ProgressInv
    BY DEF JudgeInit, ProgressInv, InProgress, Contract!Open
  <1>5. Contract!ContractInit
    BY DEF JudgeInit, Contract!ContractInit, Unread, Contract!Open
  <1>6. QED
    BY <1>1, <1>2, <1>3, <1>4, <1>5 DEF ContractInv

\* Edits keep the positions apart.
LEMMA EditsKeepCatalog == ASSUME CatalogInv, Edits PROVE CatalogInv'
  <1>1. CASE remove(Problem)
    BY <1>1 DEF CatalogInv, remove, Without
  <1>2. ASSUME NEW i \in Positions, NEW c \in Oversized, create_test(Problem, i, TRUE, c)
        PROVE  CatalogInv'
    <2>1. /\ test_seq' = test_seq + 1 /\ DOMAIN tests' = DOMAIN tests \cup {test_seq + 1}
          /\ tests'[test_seq + 1] = NewTest(Problem, i, TRUE, c)
          /\ \A t \in DOMAIN tests : t # test_seq + 1 /\ tests'[t] = tests[t]
          /\ \A t \in DOMAIN tests : tests[t].position # i
      <3>0. 0 \notin DOMAIN tests
        BY DEF CatalogInv
      <3>1. /\ test_seq' = test_seq + 1
            /\ tests' = With(tests, test_seq + 1, NewTest(Problem, i, TRUE, c))
        BY <1>2 DEF create_test
      <3>2. test_seq + 1 \notin DOMAIN tests
        BY DEF CatalogInv
      <3>3. \A t \in DOMAIN tests : tests[t].position # i
        BY <1>2, <3>0 DEF CatalogInv, create_test, PositionFree, TestsOf
      <3>4. QED
        BY <3>1, <3>2, <3>3 DEF With
    <2>2. i \in Nat /\ c \in DOMAIN Expected
      BY ProblemsAssumption, JudgeAssumption
    <2>3. QED
      BY <2>1, <2>2 DEF CatalogInv, NewTest
  <1>3. ASSUME NEW t \in DOMAIN tests, NEW i \in Positions,
               update_test(Problem, t, tests[t].revision, i, i # tests[t].position,
                           tests[t].content)
        PROVE  CatalogInv'
    <2>1. /\ test_seq' = test_seq /\ DOMAIN tests' = DOMAIN tests
          /\ tests'[t].problem = Problem /\ tests'[t].position = i
          /\ tests'[t].content = tests[t].content
          /\ \A s \in DOMAIN tests : s # t => tests'[s] = tests[s]
          /\ \A s \in DOMAIN tests : s # t => tests[s].position # i
      BY <1>3 DEF CatalogInv, update_test, PositionFree, TestsOf
    <2>2. i \in Nat
      BY ProblemsAssumption
    <2>3. QED
      BY <2>1, <2>2 DEF CatalogInv
  <1>4. ASSUME NEW t \in DOMAIN tests, remove_test(Problem, t) PROVE CatalogInv'
    BY <1>4 DEF CatalogInv, remove_test, Without
  <1>5. QED
    BY <1>1, <1>2, <1>3, <1>4 DEF Edits

----------------------------------------------------------------------------
\* The refinement, one action at a time.

\* What is promised of a step: the invariant, and a step of the contract.
Simulates ==
    /\ CatalogInv' /\ ReportTypes' /\ ProgressInv'
    /\ Contract!ContractNext \/ UNCHANGED Contract!contract

\* A verdict on a run depends on the run and its test only.
LEMMA SamePasses ==
    ASSUME NEW h \in Threads, NEW i, results'[h][i] = results[h][i],
           hidden'[h][i] = hidden[h][i]
    PROVE  Contract!Passes(h, i)' <=> Contract!Passes(h, i)
  BY DEF Contract!Passes

\* A thread's step does not disturb the others.
LEMMA OthersProgress ==
    ASSUME ProgressInv, NEW h \in Threads, InProgress(h)',
           \A g \in Threads \ {h} : /\ pc'[g] = pc[g] /\ hidden'[g] = hidden[g]
                                    /\ results'[g] = results[g] /\ outcome'[g] = outcome[g]
    PROVE  ProgressInv'
  <1> SUFFICES ASSUME NEW g \in Threads \ {h} PROVE InProgress(g)'
    BY DEF ProgressInv
  <1>1. \A n : PassedUpTo(g, n) => PassedUpTo(g, n)'
    BY SamePasses DEF PassedUpTo
  <1>2. InProgress(g)
    BY DEF ProgressInv
  <1>3. QED
    BY <1>1, <1>2 DEF InProgress

\* A step the contract does not see.
LEMMA Unseen ==
    ASSUME ContractInv, UNCHANGED <<tests, test_seq, hidden, results, outcome>>,
           NEW h \in Threads, NEW to, pc' = [pc EXCEPT ![h] = to],
           to \in Unread <=> pc[h] \in Unread,
           \A g \in Threads : reply'[g] \in RunReports \cup {NoReply, ErrorReply},
           InProgress(h)'
    PROVE  Simulates
  <1>1. CatalogInv' /\ ReportTypes'
    BY DEF ContractInv, CatalogInv, ReportTypes
  <1>2. DOMAIN pc = Threads
    BY DEF ContractInv, JudgeInv, RunTypes
  <1>3. ProgressInv'
    BY <1>2, OthersProgress DEF ContractInv
  <1>4. {g \in Threads : pc'[g] \notin Unread} = {g \in Threads : pc[g] \notin Unread}
    BY <1>2
  <1>5. UNCHANGED Contract!contract
    BY <1>4 DEF Contract!contract
  <1>6. QED
    BY <1>1, <1>3, <1>5 DEF Simulates

\* An answer, and what the contract asks of it.
Warranted(h, kind, type) ==
    \/ kind = "judge_error"
    \/ /\ kind = "accepted" /\ Len(results[h]) = Len(hidden[h]) /\ hidden[h] # << >>
       /\ Contract!Passed(h)
    \/ /\ ~Contract!Passed(h)
       /\ LET e == results[h][Len(results[h])]
          IN /\ kind = Contract!KindOf(e)
             /\ kind = "runtime_error" /\ e.error_type # "none" => type = e.error_type

\* A thread that answers as it may takes a step of the contract.
LEMMA Answering ==
    ASSUME ContractInv, UNCHANGED <<tests, test_seq, hidden, results>>,
           NEW h \in Threads, pc[h] \notin {"done", "unread"},
           NEW kind, NEW type, NEW last \in {"done", "unread"}, Answers(h, kind, type, last),
           last = "unread" <=> pc[h] \in Unread,
           kind = "judge_error" \/ (pc[h] \notin Unread /\ Warranted(h, kind, type)),
           \A g \in Threads : reply'[g] \in RunReports \cup {NoReply, ErrorReply}
    PROVE  Simulates
  <1>1. CatalogInv' /\ ReportTypes'
    BY DEF ContractInv, CatalogInv, ReportTypes
  <1>2. DOMAIN pc = Threads /\ DOMAIN outcome = Threads
    BY DEF ContractInv, JudgeInv, RunTypes
  <1>3. /\ pc' = [pc EXCEPT ![h] = last]
        /\ outcome' = [outcome EXCEPT ![h] = [kind |-> kind, type |-> type]]
    BY DEF Answers
  <1>4. InProgress(h)'
    BY <1>2, <1>3 DEF InProgress
  <1>5. ProgressInv'
    BY <1>2, <1>3, <1>4, OthersProgress DEF ContractInv
  <1>6. {g \in Threads : pc'[g] \notin Unread} = {g \in Threads : pc[g] \notin Unread}
    BY <1>2, <1>3 DEF Unread
  <1>7. outcome[h] = Contract!Open
    BY DEF ContractInv, ProgressInv, InProgress
  <1>8. Contract!Answer(h)
    BY <1>2, <1>3, <1>6, <1>7 DEF Contract!Answer, Warranted
  <1>9. QED
    BY <1>1, <1>5, <1>8 DEF Simulates, Contract!ContractNext

\* A step of which the judge, and so the contract, sees nothing.
LEMMA JudgeUnseen ==
    ASSUME ContractInv, UNCHANGED <<tests, test_seq, judge>>,
           \A g \in Threads : reply'[g] \in RunReports \cup {NoReply, ErrorReply}
    PROVE  Simulates
  <1>1. UNCHANGED <<tests, test_seq, pc, hidden, results, outcome>>
    BY DEF judge
  <1>2. CatalogInv' /\ ReportTypes'
    BY <1>1 DEF ContractInv, CatalogInv, ReportTypes
  <1>3. ASSUME NEW h \in Threads PROVE InProgress(h)'
    <2>1. \A n : PassedUpTo(h, n) => PassedUpTo(h, n)'
      BY <1>1, SamePasses DEF PassedUpTo
    <2>2. InProgress(h)
      BY DEF ContractInv, ProgressInv
    <2>3. QED
      BY <1>1, <2>1, <2>2 DEF InProgress
  <1>4. UNCHANGED Contract!contract
    BY <1>1 DEF Contract!contract
  <1>5. QED
    BY <1>2, <1>3, <1>4 DEF Simulates, ProgressInv

\* find_for_judging's first query.
LEMMA FindSimulates == ASSUME ContractInv, NEW h \in Threads, Find(h) PROVE Simulates
  <1>1. /\ pc[h] = "idle" /\ UNCHANGED <<tests, test_seq, hidden, results, reply>>
        /\ \A g \in Threads : reply'[g] \in RunReports \cup {NoReply, ErrorReply}
    BY DEF Find, catalog, wire, ContractInv, ReportTypes
  <1>2. CASE Goes(h, "idle", "tests") /\ UNCHANGED outcome
    <2>1. pc' = [pc EXCEPT ![h] = "tests"] /\ pc'[h] = "tests"
      BY <1>2 DEF Goes, ContractInv, JudgeInv, RunTypes
    <2>2. InProgress(h)
      BY DEF ContractInv, ProgressInv
    <2>3. InProgress(h)'
      BY <1>1, <1>2, <2>1, <2>2 DEF InProgress
    <2>4. QED
      BY <1>1, <1>2, <2>1, <2>3, Unseen DEF Unread
  <1>3. CASE \E type : Answers(h, "judge_error", type, "unread")
    BY <1>1, <1>3, Answering DEF Unread
  <1>4. QED
    BY <1>2, <1>3 DEF Find

\* read_problem's query of the tests: from here on the tests are taken.
LEMMA ReadTestsSimulates == ASSUME ContractInv, NEW h \in Threads, ReadTests(h) PROVE Simulates
  <1>1. /\ pc[h] = "tests" /\ UNCHANGED <<tests, test_seq, results, reply>>
        /\ \A g \in Threads : reply'[g] \in RunReports \cup {NoReply, ErrorReply}
    BY DEF ReadTests, catalog, wire, ContractInv, ReportTypes
  <1>2. CASE /\ Goes(h, "tests", "test") /\ hidden' = [hidden EXCEPT ![h] = TestsInOrder]
             /\ UNCHANGED outcome
    <2> DEFINE q == TestsInOrder
               enabled == {t \in DOMAIN tests : tests[t].enabled}
    <2>1. /\ q \in Seq(HiddenTest)
          /\ {q[i].id : i \in DOMAIN q} = enabled /\ Len(q) = Cardinality(enabled)
          /\ \A i \in DOMAIN q : q[i].content = tests[q[i].id].content
          /\ \A i, k \in DOMAIN q : i < k => tests[q[i].id].position < tests[q[k].id].position
      BY TestsAreInOrder DEF ContractInv
    <2> HIDE DEF q
    <2>2. hidden' = [hidden EXCEPT ![h] = q]
      BY <1>2 DEF q
    <2>3. /\ DOMAIN pc = Threads /\ DOMAIN hidden = Threads
          /\ pc' = [pc EXCEPT ![h] = "test"] /\ pc'[h] = "test" /\ hidden'[h] = q
      BY <1>2, <2>2 DEF Goes, ContractInv, JudgeInv, RunTypes
    <2>4. CatalogInv' /\ ReportTypes'
      BY <1>1, <2>1, <2>2 DEF ContractInv, CatalogInv, ReportTypes
    <2>5. InProgress(h)'
      <3>1. outcome[h] = Contract!Open /\ results[h] = << >>
        BY <1>1 DEF ContractInv, ProgressInv, InProgress
      <3>2. PassedUpTo(h, Len(results[h]))'
        BY <1>1, <3>1 DEF PassedUpTo
      <3>3. QED
        BY <1>1, <1>2, <2>1, <2>3, <3>1, <3>2 DEF InProgress
    <2>6. ProgressInv'
      BY <1>1, <1>2, <2>2, <2>3, <2>5, OthersProgress DEF ContractInv
    <2>7. Contract!Take(h)
      <3> DEFINE began == {g \in Threads : pc[g] \notin Unread}
      <3>1. h \notin began /\ {g \in Threads : pc'[g] \notin Unread} = began \cup {h}
        BY <1>1, <2>3 DEF Unread
      <3>2. hidden' = [hidden EXCEPT ![h] = hidden'[h]]
        BY <2>2, <2>3
      <3>3. QED
        BY <1>1, <1>2, <2>1, <2>3, <3>1, <3>2, SameCardinality DEF Contract!Take
    <2>8. QED
      BY <2>4, <2>6, <2>7 DEF Simulates, Contract!ContractNext
  <1>3. CASE \E type : Answers(h, "judge_error", type, "unread") /\ UNCHANGED hidden
    BY <1>1, <1>3, Answering DEF Unread
  <1>4. QED
    BY <1>2, <1>3 DEF ReadTests

\* A thread that has run every test.
LEMMA NoTestsLeftSimulates ==
    ASSUME ContractInv, NEW h \in Threads, NoTestsLeft(h) PROVE Simulates
  <1>1. /\ pc[h] = "test" /\ UNCHANGED <<tests, test_seq, hidden, results, reply>>
        /\ Len(results[h]) = Len(hidden[h])
        /\ \A g \in Threads : reply'[g] \in RunReports \cup {NoReply, ErrorReply}
    BY DEF NoTestsLeft, catalog, wire, ContractInv, ReportTypes
  <1>2. Contract!Passed(h)
    <2>1. PassedUpTo(h, Len(results[h])) /\ results[h] \in Seq(RunReports)
      BY <1>1 DEF ContractInv, ProgressInv, InProgress, ReportTypes
    <2>2. QED
      BY <2>1 DEF PassedUpTo, Contract!Passed
  <1>3. CASE hidden[h] = << >> /\ \E type : Answers(h, "judge_error", type, "done")
    BY <1>1, <1>3, Answering DEF Unread
  <1>4. CASE hidden[h] # << >> /\ Answers(h, "accepted", "none", "done")
    <2>1. Warranted(h, "accepted", "none")
      BY <1>1, <1>2, <1>4 DEF Warranted
    <2>2. QED
      BY <1>1, <1>4, <2>1, Answering DEF Unread
  <1>5. QED
    BY <1>3, <1>4 DEF NoTestsLeft

\* The run that is looked at decides, as the contract says, unless it passes.
LEMMA VerdictSimulates == ASSUME ContractInv, NEW h \in Threads, Verdict(h) PROVE Simulates
  <1> DEFINE n == Len(results[h])
             e == results[h][n]
             expected == Expected[hidden[h][n].content]
  <1>1. /\ pc[h] = "verdict" /\ UNCHANGED <<tests, test_seq, hidden, results, reply>>
        /\ \A g \in Threads : reply'[g] \in RunReports \cup {NoReply, ErrorReply}
    BY DEF Verdict, catalog, wire, ContractInv, ReportTypes
  <1>2. /\ outcome[h] = Contract!Open /\ n \in 1 .. Len(hidden[h]) /\ PassedUpTo(h, n - 1)
        /\ results[h] \in Seq(RunReports) /\ hidden[h] \in Seq(HiddenTest)
    BY <1>1 DEF ContractInv, ProgressInv, InProgress, ReportTypes
  <1>3. n \in Nat /\ n \in DOMAIN results[h] /\ DOMAIN results[h] = 1 .. n /\ e \in RunReports
    BY <1>2
  <1>4. expected \in Seq(STRING)
    <2>1. hidden[h][n] \in HiddenTest
      BY <1>2
    <2>2. hidden[h][n].content \in DOMAIN Expected
      BY <2>1 DEF HiddenTest
    <2>3. QED
      BY <2>2, JudgeAssumption
  <1> HIDE DEF n, e, expected
  <1>5. /\ e.stage \in {"compile", "run"} /\ e.timed_out \in BOOLEAN
        /\ e.stage = "compile" => ~e.timed_out /\ e.exit_code # 0
        /\ e.error_type # "none" =>
              e.exit_code # 0 /\ classify_runtime_error(e) = e.error_type
        /\ e.stage = "run" => e.output \in Seq(STRING)
    BY <1>3, ReportShape
  <1>6. Contract!Passes(h, n) <=>
            /\ ~e.timed_out /\ e.exit_code = 0
            /\ normalize_output(e.output) = normalize_output(expected)
    <2>1. e.stage = "run" => (normalize_output(e.output) = normalize_output(expected) <=>
                                 Contract!SameAnswer(e.output, expected))
      BY <1>4, <1>5, NormalizationDecides
    <2>2. Contract!Passes(h, n) <=> /\ e.stage = "run" /\ ~e.timed_out /\ e.exit_code = 0
                                    /\ Contract!SameAnswer(e.output, expected)
      BY DEF Contract!Passes, e, expected
    <2>3. QED
      BY <1>5, <2>1, <2>2
  <1>7. ASSUME ~Contract!Passes(h, n), NEW kind, NEW type, Answers(h, kind, type, "done"),
               kind = Contract!KindOf(e),
               kind = "runtime_error" /\ e.error_type # "none" => type = e.error_type
        PROVE  Simulates
    <2>1. ~Contract!Passed(h)
      BY <1>3, <1>7 DEF Contract!Passed
    <2>2. Warranted(h, kind, type)
      BY <1>7, <2>1 DEF Warranted, e, n
    <2>3. QED
      BY <1>1, <1>7, <2>2, Answering DEF Unread
  <1>8. CASE e.timed_out
    <2>1. Contract!KindOf(e) = "time_limit_exceeded"
      BY <1>5, <1>8 DEF Contract!KindOf
    <2>2. Answers(h, "time_limit_exceeded", "none", "done")
      BY <1>8 DEF Verdict, e, n
    <2>3. QED
      BY <1>6, <1>7, <1>8, <2>1, <2>2
  <1>9. CASE ~e.timed_out /\ e.exit_code # 0
    <2>1. Contract!KindOf(e) = "runtime_error"
      BY <1>5, <1>9 DEF Contract!KindOf
    <2>2. Answers(h, "runtime_error", classify_runtime_error(e), "done")
      BY <1>9 DEF Verdict, e, n
    <2>3. QED
      BY <1>5, <1>6, <1>7, <1>9, <2>1, <2>2
  <1>10. CASE /\ ~e.timed_out /\ e.exit_code = 0
              /\ normalize_output(e.output) # normalize_output(expected)
    <2>1. Contract!KindOf(e) = "wrong_answer"
      BY <1>5, <1>10 DEF Contract!KindOf
    <2>2. Answers(h, "wrong_answer", "none", "done")
      BY <1>10 DEF Verdict, e, n, expected
    <2>3. QED
      BY <1>6, <1>7, <1>10, <2>1, <2>2
  <1>11. CASE /\ ~e.timed_out /\ e.exit_code = 0
              /\ normalize_output(e.output) = normalize_output(expected)
    <2>1. UNCHANGED outcome /\ pc' = [pc EXCEPT ![h] = "test"] /\ pc'[h] = "test"
      BY <1>11 DEF Verdict, e, n, expected, Goes, ContractInv, JudgeInv, RunTypes
    <2>2. PassedUpTo(h, n)
      BY <1>2, <1>3, <1>6, <1>11 DEF PassedUpTo
    <2>3. PassedUpTo(h, n)'
      <3>1. n' = n
        BY <1>1 DEF n
      <3>2. QED
        BY <1>1, <2>2, <3>1, SamePasses DEF PassedUpTo
    <2>4. InProgress(h)'
      BY <1>1, <1>2, <2>1, <2>3 DEF InProgress, n
    <2>5. QED
      BY <1>1, <2>1, <2>4, Unseen DEF Unread
  <1>12. QED
    BY <1>8, <1>9, <1>10, <1>11

\* From one call of the executor to the next: the thread moves on, or gives up.
LEMMA CallingSimulates ==
    ASSUME ContractInv, NEW h \in Threads, Socketpair(h) \/ Fork(h) \/ Send(h) \/ Receive(h)
    PROVE  Simulates
  <1> DEFINE calling == {"test", "fork", "send", "receive"}
             from == pc[h]
  <1>1. /\ from \in calling /\ UNCHANGED <<tests, test_seq, hidden, results>>
        /\ from = "test" => Len(results[h]) < Len(hidden[h])
    BY DEF Socketpair, Fork, Send, Receive, Goes, catalog
  <1>2. \A g \in Threads : reply'[g] \in RunReports \cup {NoReply, ErrorReply}
    <2>1. \A g \in Threads : reply[g] \in RunReports \cup {NoReply, ErrorReply}
      BY DEF ContractInv, ReportTypes
    <2>2. CASE UNCHANGED reply
      BY <2>1, <2>2
    <2>3. CASE reply' = [reply EXCEPT ![h] = receive_message(h)]
      BY <2>1, <2>3 DEF receive_message, ContractInv, JudgeInv, RunTypes
    <2>4. QED
      BY <2>2, <2>3 DEF Socketpair, Fork, Send, Receive, wire
  <1>3. CASE \E to \in {"fork", "send", "receive", "wait"} :
                pc' = [pc EXCEPT ![h] = to] /\ UNCHANGED outcome
    <2>1. PICK to \in {"fork", "send", "receive", "wait"} :
                pc' = [pc EXCEPT ![h] = to] /\ UNCHANGED outcome
      BY <1>3
    <2>2. pc'[h] = to
      BY <2>1 DEF ContractInv, JudgeInv, RunTypes
    <2>3. InProgress(h)
      BY DEF ContractInv, ProgressInv
    <2>4. PassedUpTo(h, Len(results[h]))'
      <3>1. PassedUpTo(h, Len(results[h]))
        BY <1>1, <2>3 DEF InProgress
      <3>2. QED
        BY <1>1, <3>1, SamePasses DEF PassedUpTo
    <2>5. InProgress(h)'
      BY <1>1, <2>1, <2>2, <2>3, <2>4 DEF InProgress
    <2>6. QED
      BY <1>1, <1>2, <2>1, <2>5, Unseen DEF Unread
  <1>4. CASE \E type : Answers(h, "judge_error", type, "done")
    BY <1>1, <1>2, <1>4, Answering DEF Unread
  <1>5. QED
    BY <1>3, <1>4 DEF Socketpair, Fork, Send, Receive, Goes

\* The response is one more run, or there is none.
LEMMA ReapSimulates == ASSUME ContractInv, NEW h \in Threads, Reap(h) PROVE Simulates
  <1>1. /\ pc[h] = "wait" /\ UNCHANGED <<tests, test_seq, hidden>>
        /\ reply' = [reply EXCEPT ![h] = NoReply]
    BY DEF Reap, catalog
  <1>2. \A g \in Threads : reply'[g] \in RunReports \cup {NoReply, ErrorReply}
    BY <1>1 DEF ContractInv, ReportTypes, JudgeInv, RunTypes
  <1>3. CASE /\ reply[h].stage \in {"compile", "run"} /\ Goes(h, "wait", "verdict")
             /\ results' = [results EXCEPT ![h] = Append(@, reply[h])] /\ UNCHANGED outcome
    <2> DEFINE n == Len(results[h])
    <2>1. reply[h] \in RunReports
      <3>1. reply[h] \in RunReports \cup {NoReply, ErrorReply}
        BY DEF ContractInv, ReportTypes
      <3>2. NoReply.stage = "none" /\ ErrorReply.stage = "error"
        BY DEF NoReply, ErrorReply
      <3>3. reply[h].stage \in {"compile", "run"}
        BY <1>3
      <3>4. reply[h] # NoReply /\ reply[h] # ErrorReply
        BY <3>2, <3>3
      <3>5. QED
        BY <3>1, <3>4
    <2>2. /\ results \in [Threads -> Seq(RunReports)] /\ n \in Nat /\ n < Len(hidden[h])
          /\ hidden[h] \in Seq(HiddenTest) /\ PassedUpTo(h, n) /\ outcome[h] = Contract!Open
      BY <1>1 DEF ContractInv, ProgressInv, InProgress, ReportTypes
    <2>3. /\ results' \in [Threads -> Seq(RunReports)] /\ results'[h] = Append(results[h], reply[h])
          /\ \A g \in Threads \ {h} : results'[g] = results[g]
      BY <1>3, <2>1, <2>2
    <2>4. /\ Len(results'[h]) = n + 1 /\ results'[h][n + 1] = reply[h]
          /\ \A i \in 1 .. n : results'[h][i] = results[h][i]
      BY <2>1, <2>2, <2>3
    <2>5. /\ DOMAIN pc = Threads /\ pc' = [pc EXCEPT ![h] = "verdict"] /\ pc'[h] = "verdict"
      BY <1>3 DEF Goes, ContractInv, JudgeInv, RunTypes
    <2>6. CatalogInv' /\ ReportTypes'
      BY <1>1, <1>2, <2>3 DEF ContractInv, CatalogInv, ReportTypes
    <2> HIDE DEF n
    <2>7. PassedUpTo(h, Len(results[h]) - 1)'
      <3>1. ASSUME NEW i \in 1 .. n PROVE Contract!Passes(h, i)'
        BY <1>1, <2>2, <2>4, SamePasses DEF PassedUpTo
      <3>2. 1 .. (Len(results'[h]) - 1) = 1 .. n
        BY <2>2, <2>4
      <3>3. QED
        BY <3>1, <3>2 DEF PassedUpTo
    <2>8. InProgress(h)'
      BY <1>1, <1>3, <2>2, <2>4, <2>5, <2>7 DEF InProgress
    <2>9. ProgressInv'
      BY <1>1, <1>3, <2>3, <2>5, <2>8, OthersProgress DEF ContractInv
    <2>10. Contract!Run(h)
      <3>1. {g \in Threads : pc'[g] \notin Unread} = {g \in Threads : pc[g] \notin Unread}
        BY <1>1, <2>5 DEF Unread
      <3>2. Contract!Passed(h)
        BY <2>2 DEF PassedUpTo, Contract!Passed, n
      <3>3. results' = [results EXCEPT ![h] = Append(@, results'[h][Len(@) + 1])]
        BY <1>3, <2>4 DEF n
      <3>4. QED
        BY <1>1, <1>3, <2>2, <2>4, <3>1, <3>2, <3>3 DEF Contract!Run, Unread, n
    <2>11. QED
      BY <2>6, <2>9, <2>10 DEF Simulates, Contract!ContractNext
  <1>4. CASE (\E type : Answers(h, "judge_error", type, "done")) /\ UNCHANGED results
    BY <1>1, <1>2, <1>4, Answering DEF Unread
  <1>5. QED
    BY <1>3, <1>4 DEF Reap

\* The children, and what happens around them.
LEMMA WorkerSimulates ==
    ASSUME ContractInv, NEW h \in Threads, WorkerStep(h) \/ KillWorker(h) PROVE Simulates
  <1>1. UNCHANGED <<tests, test_seq, judge>>
    BY DEF WorkerStep, KillWorker, Exec, WorkerReceive, Setup, read_runtime_closure,
           prepare_root, write_file, Compile, protect_compiled_executable, Call, Run, Respond,
           Exit, Adopted, outside, catalog
  <1>2. UNCHANGED reply \/ \E r \in RunReports \cup {ErrorReply} : Returns(h, r)
    BY DEF WorkerStep, KillWorker, Exec, WorkerReceive, Setup, read_runtime_closure,
           prepare_root, write_file, Compile, protect_compiled_executable, Call, Run, Respond,
           Exit, Adopted, wire, RunReports
  <1>3. \A g \in Threads : reply[g] \in RunReports \cup {NoReply, ErrorReply}
    BY DEF ContractInv, ReportTypes
  <1>4. \A g \in Threads : reply'[g] \in RunReports \cup {NoReply, ErrorReply}
    BY <1>2, <1>3 DEF Returns, ContractInv, JudgeInv, RunTypes
  <1>5. QED
    BY <1>1, <1>4, JudgeUnseen

\* Every step of the judge is one of the contract, or one it does not see.
LEMMA ContractStep ==
    ContractInv /\ [JudgeNext]_vars =>
        ContractInv' /\ (Contract!ContractNext \/ UNCHANGED Contract!contract)
  <1> SUFFICES ASSUME ContractInv, [JudgeNext]_vars PROVE JudgeInv' /\ Simulates
    BY DEF ContractInv, Simulates
  <1>1. JudgeInv'
    BY JudgeInvStep DEF ContractInv
  <1>2. ASSUME NEW h \in Threads, ThreadStep(h) PROVE Simulates
    BY <1>2, FindSimulates, ReadTestsSimulates, NoTestsLeftSimulates, VerdictSimulates,
       CallingSimulates, ReapSimulates DEF ThreadStep
  <1>3. ASSUME NEW h \in Threads, WorkerStep(h) \/ KillWorker(h) PROVE Simulates
    BY <1>3, WorkerSimulates
  <1>4. CASE Die \/ UNCHANGED vars
    <2>1. UNCHANGED <<tests, test_seq, judge, reply>>
      BY <1>4 DEF Die, vars, catalog, wire
    <2>2. \A g \in Threads : reply'[g] \in RunReports \cup {NoReply, ErrorReply}
      BY <2>1 DEF ContractInv, ReportTypes
    <2>3. QED
      BY <1>1, <2>1, <2>2, JudgeUnseen
  <1>5. CASE Edits
    <2>1. UNCHANGED <<pc, hidden, results, outcome, reply>>
      BY <1>5 DEF Edits, judge, wire
    <2>2. CatalogInv'
      BY <1>5, EditsKeepCatalog DEF ContractInv
    <2>3. ReportTypes'
      BY <2>1 DEF ContractInv, ReportTypes
    <2>4. ASSUME NEW h \in Threads PROVE InProgress(h)'
      <3>1. \A n : PassedUpTo(h, n) => PassedUpTo(h, n)'
        BY <2>1, SamePasses DEF PassedUpTo
      <3>2. InProgress(h)
        BY DEF ContractInv, ProgressInv
      <3>3. QED
        BY <2>1, <3>1, <3>2 DEF InProgress
    <2>5. Contract!Edit
      BY <2>1 DEF Contract!Edit
    <2>6. QED
      BY <1>1, <2>2, <2>3, <2>4, <2>5 DEF Simulates, ProgressInv, Contract!ContractNext
  <1>6. QED
    BY <1>1, <1>2, <1>3, <1>4, <1>5 DEF JudgeNext

\* For any number of threads, tests, faults and edits: the judge, with its
\* processes, channels and two reads, implements the contract. Whatever
\* administrators do meanwhile, a verdict is the one of the tests enabled at one
\* instant, in order, decided by the first that fails (ProblemJudge::run,
\* read_problem, normalize_output).
THEOREM JudgeKeepsItsContract == JudgeSpec => ImplementsContract
  <1>1. ContractInv /\ [JudgeNext]_vars =>
            ContractInv' /\ [Contract!ContractNext]_(Contract!contract)
    BY ContractStep
  <1>2. QED
    BY <1>1, ContractInvInit, PTL DEF JudgeSpec, ImplementsContract, Contract!ContractSpec

=============================================================================
