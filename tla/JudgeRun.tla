------------------------------ MODULE JudgeRun ------------------------------
(***************************************************************************)
(* ProblemJudge::run in the threads of the worker pool, down to the judge  *)
(* worker process each test is run in: find_for_judging's two reads while  *)
(* administrators edit the problem, the socket pair, fork and exec of      *)
(* IsolatedProcessExecutor, judge-worker's main and the set-up, compiling  *)
(* and running of NsJailPythonExecutor. What one run_isolated does is the  *)
(* module Supervisor's; here it is its result.                             *)
(*                                                                         *)
(* Threads of one process share its descriptors, and a fork in one copies  *)
(* those the others have open at that moment.                              *)
(***************************************************************************)
EXTENDS Problems

CONSTANTS
    Threads,        \* threads of the pool, each judging one submission
    Language,       \* Language[h]: of the submission h judges
    Problem,        \* the problem they judge
    Expected,       \* Expected[c]: expected_output of a test with content c
    Oversized,      \* contents that exceed 2 MiB as an escaped request
    Outputs,        \* outputs a program that ends well may have
    Failures,       \* [exit_code, exception]: how a program or compiler may fail
    MaxEdits,       \* bound of the model: edits of the problem
    MaxFaults       \* bound of the model: failing calls, killed workers, crashes

ASSUME JudgeAssumption ==
    /\ Language \in [Threads -> {"python", "cpp"}]
    /\ Problem \in DefaultProblems /\ Oversized \subseteq DOMAIN Expected
    /\ DefaultTests > 0 /\ 1 .. DefaultTests \subseteq DOMAIN Expected
    /\ Expected \in [DOMAIN Expected -> Seq(STRING)] /\ Outputs \subseteq Seq(STRING)
    /\ \A f \in Failures : f.exit_code # 0
    /\ MaxEdits \in Nat /\ MaxFaults \in Nat

VARIABLES
    up,         \* the backend process lives
    pc,         \* pc[h]: where the thread is
    hidden,     \* hidden[h]: problem->hidden_tests, as ids and contents
    results,    \* results[h]: the ExecutionResults so far
    outcome,    \* outcome[h]: the JudgeResult
    open,       \* descriptors the backend has open
    worker,     \* worker[h]: the state of the child process
    held,       \* held[h]: descriptors the child has open
    workspace,  \* workspace[h]: the child's temporary directory exists
    channel,    \* channel[h]: what is in the socket pair
    reply,      \* reply[h]: the response, first in the child, then in the thread
    edits, faults

judge == <<pc, hidden, results, outcome>>
child == <<worker, held, workspace>>
wire == <<channel, reply>>
counters == <<edits, faults>>
vars == <<catalog, up, judge, open, child, wire, counters>>

Unread == {"idle", "tests", "unread"}

Contract ==
    INSTANCE JudgeContract
        WITH Judges <- Threads, began <- {h \in Threads : pc[h] \notin Unread},
             taken <- hidden

NoReply == [stage |-> "none"]

ErrorReply == [stage |-> "error"]

\* The two ends of the socket pair of thread h.
BackendEnd(h) == <<h, "backend">>

WorkerEnd(h) == <<h, "worker">>

\* Where a child that has received its request is in NsJailPythonExecutor::run.
Executing == {"setup", "closure", "root", "files", "compiling", "compiled", "running"}

Live == Executing \cup {"forked", "receiving", "answering", "leaving"}

\* A process reading one end of a channel sees the end of the file, and one
\* that writes to it fails, when no process has the other end open.
HeldBySome(end) == end \in open \/ \E h \in Threads : end \in held[h]

Fault == faults < MaxFaults /\ faults' = faults + 1 /\ UNCHANGED edits

----------------------------------------------------------------------------
\* The verdict on one run.

\* The loop over the characters: CR and CR LF become LF.
LineEnds(s) ==
    LET kept[i \in 0 .. Len(s)] ==
            IF i = 0 THEN << >>
            ELSE CASE s[i] = "CR" -> Append(kept[i - 1], "LF")
                   [] s[i] = "LF" /\ i > 1 /\ s[i - 1] = "CR" -> kept[i - 1]
                   [] OTHER -> Append(kept[i - 1], s[i])
    IN kept[Len(s)]

\* White space at the end is dropped.
normalize_output(s) ==
    LET text == LineEnds(s)
    IN SubSeq(text, 1, Max({0} \cup {i \in DOMAIN text : text[i] \notin {"SP", "LF"}}))

OutputLimitExitCode == 120

classify_runtime_error(e) ==
    IF e.error_type # "none" THEN e.error_type
    ELSE IF e.exit_code = OutputLimitExitCode THEN "output_limit_exceeded"
    ELSE IF e.exit_code = 127 THEN "sandbox_runtime_error"
    ELSE IF e.exception = "MemoryError" THEN "memory_limit_exceeded"
    ELSE IF e.exception = "SyntaxError" THEN "syntax_error"
    ELSE IF e.exception # "none" THEN "exception"
    ELSE IF e.exit_code >= 128 THEN "terminated_by_signal"
    ELSE "runtime_error"

Execution(stage, timed_out, f, error_type, output) ==
    [stage |-> stage, timed_out |-> timed_out, exit_code |-> f.exit_code,
     exception |-> f.exception, error_type |-> error_type, output |-> output]

Ended(code) == [exit_code |-> code, exception |-> "none"]

\* A compiler that exceeds its time is reported as an error, not a timeout; what
\* run_isolated has named an error is renamed a compilation error.
CompileResults ==
    {Execution("compile", FALSE, f, "compilation_error", << >>) : f \in Failures}
        \cup {Execution("compile", FALSE, Ended(1), "compilation_time_limit_exceeded", << >>)}

\* What run_isolated returns for the program (Supervisor). The output limit may be
\* exceeded by a program that has been asked to end for its time.
RunResults ==
    {Execution("run", FALSE, Ended(0), "none", o) : o \in Outputs}
        \cup {Execution("run", FALSE, f, "none", << >>) : f \in Failures}
        \cup {Execution("run", TRUE, Ended(0), "none", << >>)}
        \cup {Execution("run", timed_out, Ended(OutputLimitExitCode), "output_limit_exceeded",
                        << >>) : timed_out \in BOOLEAN}

----------------------------------------------------------------------------
\* The thread: ProblemJudge::run.

Answers(h, kind, type, last) ==
    /\ outcome' = [outcome EXCEPT ![h] = [kind |-> kind, type |-> type]]
    /\ pc' = [pc EXCEPT ![h] = last]

Goes(h, from, to) == up /\ pc[h] = from /\ pc' = [pc EXCEPT ![h] = to]

\* find_for_judging: the row of the problem, enabled or not.
Find(h) ==
    /\ up /\ pc[h] = "idle"
    /\ \/ /\ Problem \in DOMAIN problems
          /\ Goes(h, "idle", "tests")
          /\ UNCHANGED <<outcome, counters>>
       \/ /\ Problem \notin DOMAIN problems
          /\ Answers(h, "judge_error", "unknown_problem", "unread")
          /\ UNCHANGED counters
       \/ Fault /\ Answers(h, "judge_error", "could_not_retrieve_problem", "unread")
    /\ UNCHANGED <<catalog, up, hidden, results, open, child, wire>>

TestsInOrder ==
    LET enabled == {t \in TestsOf(Problem) : tests[t].enabled}
        upTo(t) == {s \in enabled : tests[s].position <= tests[t].position}
    IN [i \in 1 .. Cardinality(enabled) |->
           LET t == CHOOSE t \in enabled : Cardinality(upTo(t)) = i
           IN [id |-> t, content |-> tests[t].content]]

\* read_problem: its enabled tests, by a query of its own.
ReadTests(h) ==
    /\ up /\ pc[h] = "tests"
    /\ \/ /\ Goes(h, "tests", "test")
          /\ hidden' = [hidden EXCEPT ![h] = TestsInOrder]
          /\ UNCHANGED <<outcome, counters>>
       \/ /\ Fault /\ Answers(h, "judge_error", "could_not_retrieve_hidden_tests", "unread")
          /\ UNCHANGED hidden
    /\ UNCHANGED <<catalog, up, results, open, child, wire>>

NoTestsLeftAccepts(h) ==
    /\ up /\ pc[h] = "test" /\ Len(results[h]) = Len(hidden[h])
    /\ Answers(h, "accepted", "none", "done")
    /\ UNCHANGED <<catalog, up, hidden, results, open, child, wire, counters>>

\* No test, or no test left.
NoTestsLeft(h) ==
    /\ up /\ pc[h] = "test" /\ Len(results[h]) = Len(hidden[h])
    /\ IF hidden[h] = << >>
       THEN Answers(h, "judge_error", "problem_has_no_enabled_hidden_tests", "done")
       ELSE Answers(h, "accepted", "none", "done")
    /\ UNCHANGED <<catalog, up, hidden, results, open, child, wire, counters>>

\* The last run decides, or the next test is due.
Verdict(h) ==
    /\ up /\ pc[h] = "verdict"
    /\ LET i == Len(results[h])
           e == results[h][i]
           expected == Expected[hidden[h][i].content]
       IN IF e.timed_out THEN Answers(h, "time_limit_exceeded", "none", "done")
          ELSE IF e.exit_code # 0
               THEN Answers(h, "runtime_error", classify_runtime_error(e), "done")
          ELSE IF normalize_output(e.output) # normalize_output(expected)
               THEN Answers(h, "wrong_answer", "none", "done")
          ELSE Goes(h, "verdict", "test") /\ UNCHANGED outcome
    /\ UNCHANGED <<catalog, up, hidden, results, open, child, wire, counters>>

----------------------------------------------------------------------------
\* The thread: IsolatedProcessExecutor::run, once for each test.

Socketpair(h) ==
    /\ up /\ pc[h] = "test" /\ Len(results[h]) < Len(hidden[h])
    /\ \/ /\ Goes(h, "test", "fork")
          /\ open' = open \cup {BackendEnd(h), WorkerEnd(h)}
          /\ UNCHANGED <<outcome, counters>>
       \/ /\ Fault /\ Answers(h, "judge_error", "could_not_create_the_channel", "done")
          /\ UNCHANGED open
    /\ UNCHANGED <<catalog, up, hidden, results, child, wire>>

\* The child begins with a copy of every descriptor of the backend.
Fork(h) ==
    /\ up /\ pc[h] = "fork"
    /\ \/ /\ Goes(h, "fork", "send")
          /\ worker' = [worker EXCEPT ![h] = "forked"]
          /\ held' = [held EXCEPT ![h] = open]
          /\ UNCHANGED <<outcome, open, counters>>
       \/ /\ Fault /\ Answers(h, "judge_error", "could_not_launch_the_judge_worker", "done")
          /\ open' = open \ {BackendEnd(h), WorkerEnd(h)}
          /\ UNCHANGED <<worker, held>>
    /\ UNCHANGED <<catalog, up, hidden, results, workspace, wire>>

\* The backend has closed its copy of the other end; a child must have one.
write_all(h) == \E g \in Threads : WorkerEnd(h) \in held[g]

\* The request fits, and it can be written.
send_message(h) ==
    hidden[h][Len(results[h]) + 1].content \notin Oversized /\ write_all(h)

\* When the request cannot be sent the child is killed and reaped.
Send(h) ==
    /\ up /\ pc[h] = "send"
    /\ IF ~send_message(h)
       THEN /\ Answers(h, "judge_error", "could_not_send_work_to_the_judge_worker", "done")
            /\ open' = open \ {BackendEnd(h), WorkerEnd(h)}
            /\ worker' = [worker EXCEPT ![h] = "none"]
            /\ held' = [held EXCEPT ![h] = {}]
            /\ UNCHANGED channel
       ELSE /\ Goes(h, "send", "receive")
            /\ open' = open \ {WorkerEnd(h)}
            /\ channel' = [channel EXCEPT ![h] = "request"]
            /\ UNCHANGED <<outcome, worker, held>>
    /\ UNCHANGED <<catalog, up, hidden, results, workspace, reply, counters>>

\* What there is to return once read_all has: the response, or an error.
receive_message(h) == IF channel[h] = "response" THEN reply[h] ELSE NoReply

ReceiveAtOnce(h) ==
    /\ Goes(h, "receive", "wait")
    /\ open' = open \ {BackendEnd(h)}
    /\ reply' = [reply EXCEPT ![h] = receive_message(h)]
    /\ UNCHANGED <<catalog, up, hidden, results, outcome, child, channel, counters>>

\* It returns when the whole response is there, or at the end of the file.
read_all(h) == channel[h] = "response" \/ ~HeldBySome(WorkerEnd(h))

Receive(h) ==
    /\ Goes(h, "receive", "wait")
    /\ read_all(h)
    /\ open' = open \ {BackendEnd(h)}
    /\ reply' = [reply EXCEPT ![h] = receive_message(h)]
    /\ UNCHANGED <<catalog, up, hidden, results, outcome, child, channel, counters>>

\* waitpid, and the checks on the response and the exit status.
Reap(h) ==
    /\ up /\ pc[h] = "wait" /\ worker[h] \notin Live
    /\ IF reply[h].stage \in {"compile", "run"} /\ worker[h] = "exited"
       THEN /\ Goes(h, "wait", "verdict")
            /\ results' = [results EXCEPT ![h] = Append(@, reply[h])]
            /\ UNCHANGED outcome
       ELSE /\ Answers(h, "judge_error", "judge_worker_failed", "done")
            /\ UNCHANGED results
    /\ worker' = [worker EXCEPT ![h] = "none"]
    /\ channel' = [channel EXCEPT ![h] = "empty"]
    /\ reply' = [reply EXCEPT ![h] = NoReply]
    /\ UNCHANGED <<catalog, up, hidden, open, held, workspace, counters>>

ThreadStep(h) ==
    \/ Find(h) \/ ReadTests(h) \/ NoTestsLeft(h) \/ Verdict(h)
    \/ Socketpair(h) \/ Fork(h) \/ Send(h) \/ Receive(h) \/ Reap(h)

----------------------------------------------------------------------------
\* The child: judge-worker.

outside == <<catalog, up, judge, open>>

Becomes(h, from, to) == worker[h] = from /\ worker' = [worker EXCEPT ![h] = to]

LeavesWith(h, from, how) ==
    /\ Becomes(h, from, how)
    /\ held' = [held EXCEPT ![h] = {}]

ExecKeepingDescriptors(h) ==
    /\ \/ /\ Becomes(h, "forked", "receiving")
          /\ held' = [held EXCEPT ![h] = @ \ {BackendEnd(h)}]
          /\ UNCHANGED counters
       \/ Fault /\ LeavesWith(h, "forked", "failed")
    /\ UNCHANGED <<outside, workspace, wire>>

\* Every descriptor but its own end is closed, whoever has opened it.
close_untrusted_descriptors(h) == held' = [held EXCEPT ![h] = @ \cap {WorkerEnd(h)}]

\* The child between fork and execve.
Exec(h) ==
    /\ \/ /\ Becomes(h, "forked", "receiving")
          /\ close_untrusted_descriptors(h)
          /\ UNCHANGED counters
       \/ Fault /\ LeavesWith(h, "forked", "failed")
    /\ UNCHANGED <<outside, workspace, wire>>

\* A read waits for the rest, and a write succeeds, as long as somebody has
\* the other end open.
transfer(h) == HeldBySome(BackendEnd(h))

receive(h) ==
    /\ channel[h] = "request"
    /\ channel' = [channel EXCEPT ![h] = "empty"]

\* main up to the request, or exit code 3 when the backend is gone.
WorkerReceive(h) ==
    /\ \/ /\ Becomes(h, "receiving", "setup")
          /\ receive(h)
          /\ UNCHANGED held
       \/ /\ LeavesWith(h, "receiving", "failed")
          /\ channel[h] = "empty" /\ ~transfer(h)
          /\ UNCHANGED channel
    /\ UNCHANGED <<outside, workspace, reply, counters>>

\* NsJailPythonExecutor::run returns r; the workspace goes with it.
Returns(h, r) ==
    /\ worker' = [worker EXCEPT ![h] = "answering"]
    /\ reply' = [reply EXCEPT ![h] = r]
    /\ workspace' = [workspace EXCEPT ![h] = FALSE]

\* A call of run that succeeds, or whose error it returns.
Call(h, from, to) ==
    /\ \/ Becomes(h, from, to) /\ UNCHANGED <<workspace, reply, counters>>
       \/ worker[h] = from /\ Fault /\ Returns(h, ErrorReply)
    /\ UNCHANGED <<outside, held, channel>>

\* TemporaryWorkspace::create: mkdtemp.
Setup(h) ==
    /\ \/ /\ Becomes(h, "setup", "closure")
          /\ workspace' = [workspace EXCEPT ![h] = TRUE]
          /\ UNCHANGED <<reply, counters>>
       \/ worker[h] = "setup" /\ Fault /\ Returns(h, ErrorReply)
    /\ UNCHANGED <<outside, held, channel>>

read_runtime_closure(h) == Call(h, "closure", "root")

prepare_root(h) == Call(h, "root", "files")

\* The source and the input; for the compiler, an empty input too.
write_file(h) == Call(h, "files", IF Language[h] = "cpp" THEN "compiling" ELSE "running")

Compile(h) ==
    \/ Call(h, "compiling", "compiled")
    \/ /\ worker[h] = "compiling"
       /\ \E r \in CompileResults : Returns(h, r)
       /\ UNCHANGED <<counters, outside, held, channel>>

protect_compiled_executable(h) == Call(h, "compiled", "running")

Run(h) ==
    /\ worker[h] = "running"
    /\ \/ /\ \E r \in RunResults : Returns(h, r)
          /\ UNCHANGED counters
       \/ Fault /\ Returns(h, ErrorReply)
    /\ UNCHANGED <<outside, held, channel>>

send(h) == transfer(h) /\ channel' = [channel EXCEPT ![h] = "response"]

\* main from the result on, or exit code 4 when the backend is gone.
Respond(h) ==
    /\ \/ /\ Becomes(h, "answering", "leaving")
          /\ send(h)
          /\ UNCHANGED held
       \/ /\ LeavesWith(h, "answering", "failed")
          /\ ~transfer(h)
          /\ UNCHANGED channel
    /\ UNCHANGED <<outside, workspace, reply, counters>>

Exit(h) ==
    /\ LeavesWith(h, "leaving", "exited")
    /\ UNCHANGED <<outside, workspace, wire, counters>>

\* The child of a backend that has died is reaped by init.
Adopted(h) ==
    /\ ~up /\ worker[h] \notin Live \cup {"none"}
    /\ worker' = [worker EXCEPT ![h] = "none"]
    /\ UNCHANGED <<outside, held, workspace, wire, counters>>

WorkerStep(h) ==
    \/ Exec(h) \/ WorkerReceive(h)
    \/ Setup(h) \/ read_runtime_closure(h) \/ prepare_root(h) \/ write_file(h)
    \/ Compile(h) \/ protect_compiled_executable(h) \/ Run(h)
    \/ Respond(h) \/ Exit(h) \/ Adopted(h)

----------------------------------------------------------------------------
\* What happens around them.

\* The kernel or an operator kills the child; its workspace stays.
KillWorker(h) ==
    /\ worker[h] \in Live /\ Fault
    /\ LeavesWith(h, worker[h], "killed")
    /\ UNCHANGED <<outside, workspace, wire>>

Die ==
    /\ up /\ Fault
    /\ up' = FALSE /\ open' = {}
    /\ UNCHANGED <<catalog, judge, child, wire>>

\* An administrator changes the problem while it is judged. Bound of the
\* model: not after the last read, when no thread can see it; a new test is
\* one too long to send, and an updated one is moved or disabled.
Edits ==
    /\ edits < MaxEdits /\ edits' = edits + 1
    /\ \E h \in Threads : pc[h] \in {"idle", "tests"}
    /\ \/ remove(Problem)
       \/ \E i \in Positions, c \in Oversized : create_test(Problem, i, TRUE, c)
       \/ \E t \in DOMAIN tests, i \in Positions :
             update_test(Problem, t, tests[t].revision, i, i # tests[t].position,
                         tests[t].content)
       \/ \E t \in DOMAIN tests : remove_test(Problem, t)
    /\ UNCHANGED <<up, judge, open, child, wire, faults>>

JudgeInit ==
    /\ problems = [p \in {Problem} |-> NewProblem(TRUE, 1)]
    /\ tests = [t \in 1 .. DefaultTests |-> NewTest(Problem, t - 1, TRUE, t)]
    /\ test_seq = DefaultTests
    /\ up = TRUE
    /\ pc = [h \in Threads |-> "idle"]
    /\ hidden = [h \in Threads |-> << >>]
    /\ results = [h \in Threads |-> << >>]
    /\ outcome = [h \in Threads |-> [kind |-> "none", type |-> "none"]]
    /\ open = {}
    /\ worker = [h \in Threads |-> "none"]
    /\ held = [h \in Threads |-> {}]
    /\ workspace = [h \in Threads |-> FALSE]
    /\ channel = [h \in Threads |-> "empty"]
    /\ reply = [h \in Threads |-> NoReply]
    /\ edits = 0 /\ faults = 0

JudgeNext ==
    \/ \E h \in Threads : ThreadStep(h) \/ WorkerStep(h) \/ KillWorker(h)
    \/ Die \/ Edits

\* Threads and processes are scheduled; a run of the sandbox comes to an end
\* (Supervisor, RunEnds).
JudgeSpec ==
    /\ JudgeInit /\ [][JudgeNext]_vars
    /\ \A h \in Threads : WF_vars(ThreadStep(h)) /\ WF_vars(WorkerStep(h))

----------------------------------------------------------------------------

\* The judge with its processes, channels and two reads implements the
\* contract: whatever administrators do meanwhile, a verdict is the one of the
\* tests enabled at one instant, in order, decided by the first that fails
\* (ProblemJudge::run, read_problem).
ImplementsContract == Contract!ContractSpec

\* The judge gives up only with a cause: a call failed or a process was
\* killed; administrators took the problem or its tests away; or the next
\* test does not fit into a request (send_message). No interleaving of the
\* threads, the forks and the closing of descriptors is one.
FailureNeedsACause ==
    \A h \in Threads : outcome[h].kind = "judge_error" =>
        \/ faults > 0
        \/ edits > 0 /\ hidden[h] = << >>
        \/ /\ Len(results[h]) < Len(hidden[h])
           /\ hidden[h][Len(results[h]) + 1].content \in Oversized

\* Between two runs a thread has no child, no open channel and, unless the
\* child was killed, no directory left; and a child that has started has no
\* descriptor but its own, whatever was open when it was forked.
NothingLeftBehind ==
    \A h \in Threads :
        /\ (up /\ pc[h] \in {"test", "verdict", "done"}) =>
              /\ worker[h] = "none" /\ held[h] = {} /\ channel[h] # "response"
              /\ {BackendEnd(h), WorkerEnd(h)} \cap open = {}
              /\ workspace[h] => faults > 0
        /\ worker[h] \in Live \ {"forked"} => held[h] = {WorkerEnd(h)}

\* Every submission is answered, unless the backend dies; then the children it
\* leaves end by themselves. Nobody waits for a descriptor that another child
\* has inherited.
JudgingEnds ==
    <>(\A h \in Threads : worker[h] = "none" /\ (~up \/ pc[h] \in {"done", "unread"}))

=============================================================================
