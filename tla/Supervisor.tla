----------------------------- MODULE Supervisor -----------------------------
(***************************************************************************)
(* run_isolated: the judge worker supervises one sandboxed run. It forks   *)
(* NsJail, and in a polling loop drains two pipes, watches the output      *)
(* limit and the wall-time limit, asks NsJail to end with SIGTERM, kills   *)
(* it with SIGKILL after a grace period, and reaps it.                     *)
(*                                                                         *)
(* NsJail and the program inside the jail are external: NsJail sets up the *)
(* jail or fails to, waits for the program, forwards SIGTERM to it, and    *)
(* takes the program with it when it dies. Both hold the write ends of the *)
(* pipes, the program as long as it does not close them.                   *)
(*                                                                         *)
(* Time is counted in units of the clock left until a deadline, output in  *)
(* units that stand for a number of bytes. A count of output stops at      *)
(* OutputLimit + 1, one more than the code tells apart.                    *)
(***************************************************************************)
EXTENDS Integers

CONSTANTS
    WallTimeLimit,  \* wall_time_limit
    GracePeriod,    \* supervisor_grace_period
    OutputLimit,    \* config.output_limit_bytes
    ReadBuffer,     \* pipe_read_buffer_size
    PipeCapacity    \* what the kernel buffers in a pipe

ASSUME LimitsAreNatural ==
    /\ WallTimeLimit \in Nat \ {0} /\ GracePeriod \in Nat \ {0}
    /\ OutputLimit \in Nat
    /\ ReadBuffer \in Nat \ {0} /\ PipeCapacity \in Nat \ {0}

Pipes == {"stdout", "stderr"}

VARIABLES
    \* the sandbox
    nsjail,         \* the supervised child, NsJail
    jail,           \* a process inside the jail is alive
    held,           \* the pipes whose write end a process of the jail has open
    status,         \* how NsJail ended
    fault,          \* what went wrong before the program ran: exec, or the set-up
    signals,        \* signals sent to NsJail
    pipe,           \* pipe[p]: output in the pipe
    written,        \* written[p]: output ever written
    \* run_isolated
    pc,
    open,           \* open[p]: the read end is valid
    stored,         \* stored[p]: result.standard_output and standard_error
    total_output, output_limit_exceeded, timed_out,
    supervisor_exited, termination_requested,
    deadline,       \* time left until deadline
    force_kill,     \* time left until force_kill_deadline
    outcome,        \* what run_isolated returns: an ExecutorError or an exit code
    \* history
    asked,          \* time since SIGTERM was sent
    stray           \* signals sent to the pid after it was reaped

sandbox == <<nsjail, jail, held, status, fault, pipe, written>>
output  == <<open, stored, total_output, output_limit_exceeded>>
clock   == <<deadline, force_kill, asked>>
vars    == <<nsjail, jail, held, status, fault, signals, pipe, written, pc, open, stored,
             total_output, output_limit_exceeded, timed_out, supervisor_exited,
             termination_requested, deadline, force_kill, outcome, asked, stray>>

Least(a, b) == IF a <= b THEN a ELSE b

Counted(n) == Least(n, OutputLimit + 1)

SupervisorTypeOK ==
    /\ nsjail \in {"none", "launching", "running", "zombie", "reaped"}
    /\ jail \in BOOLEAN /\ held \subseteq Pipes
    /\ fault \in {"none", "exec", "setup"}
    /\ status \in {"none", "success", "error", "signal"}
    /\ signals \subseteq {"SIGTERM", "SIGKILL"} /\ stray \subseteq {"SIGTERM", "SIGKILL"}
    /\ pipe \in [Pipes -> 0 .. PipeCapacity]
    /\ written \in [Pipes -> 0 .. OutputLimit + 1]
    /\ pc \in {"launch", "poll", "stdout", "stderr", "limits", "reap", "result", "done"}
    /\ open \in [Pipes -> BOOLEAN]
    /\ stored \in [Pipes -> 0 .. OutputLimit]
    /\ total_output \in 0 .. OutputLimit + 1
    /\ output_limit_exceeded \in BOOLEAN /\ timed_out \in BOOLEAN
    /\ supervisor_exited \in BOOLEAN /\ termination_requested \in BOOLEAN
    /\ deadline \in 0 .. WallTimeLimit
    /\ force_kill \in 0 .. WallTimeLimit + GracePeriod
    /\ outcome \in {"none", "executor_error", "success", "error", "signal", "output_limit"}
    /\ asked \in 0 .. GracePeriod

----------------------------------------------------------------------------
\* The sandbox.

SandboxStep ==
    UNCHANGED <<signals, pc, output, timed_out, supervisor_exited,
                termination_requested, clock, outcome, stray>>

Ends(how) ==
    /\ nsjail' = "zombie"
    /\ status' = how

\* dup2 or execve fails, which the child reports through the third pipe, or
\* NsJail cannot establish the jail, which it logs.
SetupFails ==
    /\ nsjail = "launching"
    /\ Ends("error")
    /\ fault' \in {"exec", "setup"}
    /\ UNCHANGED <<jail, held, pipe, written>> /\ SandboxStep

JailStarts ==
    /\ nsjail = "launching"
    /\ nsjail' = "running" /\ jail' = TRUE /\ held' = Pipes
    /\ UNCHANGED <<status, fault, pipe, written>> /\ SandboxStep

\* write blocks while the pipe is full.
Writes(p) ==
    /\ p \in held /\ pipe[p] < PipeCapacity
    /\ pipe' = [pipe EXCEPT ![p] = @ + 1]
    /\ written' = [written EXCEPT ![p] = Counted(@ + 1)]
    /\ UNCHANGED <<nsjail, jail, held, status, fault>> /\ SandboxStep

\* The program may close its standard output or error; NsJail keeps its own.
Closes(p) ==
    /\ p \in held
    /\ held' = held \ {p}
    /\ UNCHANGED <<nsjail, jail, status, fault, pipe, written>> /\ SandboxStep

\* The program exits, dies of a signal, SIGTERM included, or is ended by
\* NsJail's --time_limit or a resource limit; NsJail passes its code on.
ProgramEnds ==
    /\ nsjail = "running" /\ jail
    /\ jail' = FALSE /\ held' = {}
    /\ Ends("success") \/ Ends("error")
    /\ UNCHANGED <<fault, pipe, written>> /\ SandboxStep

\* NsJail is killed, or terminated before it forwards signals; what runs in the
\* jail does not end at the same instant.
NsJailDies ==
    /\ \/ nsjail \in {"launching", "running"} /\ "SIGKILL" \in signals
       \/ nsjail = "launching" /\ "SIGTERM" \in signals
    /\ Ends("signal")
    /\ UNCHANGED <<jail, held, fault, pipe, written>> /\ SandboxStep

JailFollows ==
    /\ nsjail \in {"zombie", "reaped"} /\ jail
    /\ jail' = FALSE /\ held' = {}
    /\ UNCHANGED <<nsjail, status, fault, pipe, written>> /\ SandboxStep

\* Some process has the write end of the pipe open.
WriteEndOpen(p) == nsjail \in {"launching", "running"} \/ p \in held

----------------------------------------------------------------------------
\* run_isolated.

Down(n) == IF n = 0 THEN 0 ELSE n - 1

Tick ==
    /\ pc # "launch" /\ pc # "done"
    /\ deadline' = Down(deadline)
    /\ force_kill' = Down(force_kill)
    /\ asked' = IF termination_requested THEN Least(asked + 1, GracePeriod) ELSE 0
    /\ UNCHANGED <<sandbox, signals, pc, output, timed_out, supervisor_exited,
                   termination_requested, outcome, stray>>

\* The input, the pipes and the child; the first failure is returned.
Launch ==
    /\ pc = "launch"
    /\ \/ nsjail' = "launching" /\ pc' = "poll" /\ UNCHANGED outcome
       \/ outcome' = "executor_error" /\ pc' = "done" /\ UNCHANGED nsjail
    /\ UNCHANGED <<jail, held, status, fault, pipe, written, signals, output, timed_out,
                   supervisor_exited, termination_requested, clock, stray>>

PollUntilExit ==
    /\ pc = "poll"
    /\ pc' = IF ~supervisor_exited THEN "stdout" ELSE "result"
    /\ UNCHANGED <<sandbox, signals, output, timed_out, supervisor_exited,
                   termination_requested, clock, outcome, stray>>

\* The condition of the loop, and poll, which returns after at most 25 ms.
Poll ==
    /\ pc = "poll"
    /\ pc' = IF ~supervisor_exited \/ \E p \in Pipes : open[p] THEN "stdout" ELSE "result"
    /\ UNCHANGED <<sandbox, signals, output, timed_out, supervisor_exited,
                   termination_requested, clock, outcome, stray>>

AfterDrain(p) == pc' = IF p = "stdout" THEN "stderr" ELSE "limits"

RemainingOfPipe(p) == OutputLimit - stored[p]

RemainingUnlimited(p) == ReadBuffer

Remaining(p) == IF total_output < OutputLimit THEN OutputLimit - total_output ELSE 0

\* One read of drain: data is appended up to the limit that both pipes share.
Reads(p) ==
    LET size == Least(pipe[p], ReadBuffer)
    IN /\ open[p] /\ size > 0
       /\ pipe' = [pipe EXCEPT ![p] = @ - size]
       /\ stored' = [stored EXCEPT ![p] = @ + Least(size, Remaining(p))]
       /\ total_output' = Counted(total_output + size)
       /\ output_limit_exceeded' = (output_limit_exceeded \/ total_output + size > OutputLimit)
       /\ UNCHANGED <<open, pc>>

ReadsEndOfFileAgain(p) ==
    /\ open[p] /\ pipe[p] = 0 /\ ~WriteEndOpen(p)
    /\ AfterDrain(p)
    /\ UNCHANGED <<pipe, output>>

ReadsEndOfFile(p) ==
    /\ open[p] /\ pipe[p] = 0 /\ ~WriteEndOpen(p)
    /\ open' = [open EXCEPT ![p] = FALSE]
    /\ AfterDrain(p)
    /\ UNCHANGED <<pipe, stored, total_output, output_limit_exceeded>>

\* EAGAIN, or the pipe was closed in an earlier round and is not drained.
ReadsNothing(p) ==
    /\ open[p] => pipe[p] = 0 /\ WriteEndOpen(p)
    /\ AfterDrain(p)
    /\ UNCHANGED <<pipe, output>>

Drain(p) ==
    /\ pc = p
    /\ Reads(p) \/ ReadsEndOfFile(p) \/ ReadsNothing(p)
    /\ UNCHANGED <<nsjail, jail, held, status, fault, written, signals, timed_out,
                   supervisor_exited, termination_requested, clock, outcome, stray>>

\* kill(child, s): once the child is reaped its pid may name another process.
Sent(new) ==
    IF nsjail = "reaped"
    THEN stray' = stray \cup new /\ UNCHANGED signals
    ELSE signals' = signals \cup new /\ UNCHANGED stray

KillsReaped == termination_requested /\ force_kill = 0

Kills == termination_requested /\ ~supervisor_exited /\ force_kill = 0

\* Asking NsJail to end starts the grace period anew, so that the kill is never
\* in the same round.
Limits ==
    /\ pc = "limits" /\ pc' = "reap"
    /\ IF ~termination_requested /\ (output_limit_exceeded \/ deadline = 0)
       THEN /\ timed_out' = ~output_limit_exceeded
            /\ termination_requested' = TRUE
            /\ force_kill' = GracePeriod
            /\ Sent({"SIGTERM"})
       ELSE /\ Sent(IF Kills THEN {"SIGKILL"} ELSE {})
            /\ UNCHANGED <<timed_out, termination_requested, force_kill>>
    /\ UNCHANGED <<sandbox, output, supervisor_exited, deadline, asked, outcome>>

\* waitpid with WNOHANG.
Reap ==
    /\ pc = "reap" /\ pc' = "poll"
    /\ IF nsjail = "zombie"
       THEN nsjail' = "reaped" /\ supervisor_exited' = TRUE
       ELSE UNCHANGED <<nsjail, supervisor_exited>>
    /\ UNCHANGED <<jail, held, status, fault, pipe, written, signals, output, timed_out,
                   termination_requested, clock, outcome, stray>>

\* NsJail has failed and logged a fatal error.
nsjail_failed_to_initialize == status # "success" /\ fault = "setup"

ExecutorError ==
    \/ fault = "exec"
    \/ ~timed_out /\ ~output_limit_exceeded /\ nsjail_failed_to_initialize

\* 0, another code, or 128 and the signal's number.
execution_exit_code == status

ResultFromStatus ==
    /\ pc = "result" /\ pc' = "done"
    /\ outcome' = IF ExecutorError THEN "executor_error" ELSE execution_exit_code
    /\ UNCHANGED <<sandbox, signals, output, timed_out, supervisor_exited,
                   termination_requested, clock, stray>>

\* A failed exec is an error in any case, a failed set-up unless a limit was
\* reached meanwhile. The exit code is 120 or comes from the status.
Result ==
    /\ pc = "result" /\ pc' = "done"
    /\ outcome' = IF ExecutorError THEN "executor_error"
                  ELSE IF output_limit_exceeded THEN "output_limit"
                  ELSE execution_exit_code
    /\ UNCHANGED <<sandbox, signals, output, timed_out, supervisor_exited,
                   termination_requested, clock, stray>>

ParentStep ==
    \/ Launch \/ Poll \/ (\E p \in Pipes : Drain(p)) \/ Limits \/ Reap \/ Result

----------------------------------------------------------------------------

SupervisorInit ==
    /\ nsjail = "none" /\ jail = FALSE /\ held = {} /\ status = "none" /\ fault = "none"
    /\ signals = {} /\ stray = {}
    /\ pipe = [p \in Pipes |-> 0] /\ written = [p \in Pipes |-> 0]
    /\ pc = "launch"
    /\ open = [p \in Pipes |-> TRUE]
    /\ stored = [p \in Pipes |-> 0]
    /\ total_output = 0 /\ output_limit_exceeded = FALSE /\ timed_out = FALSE
    /\ supervisor_exited = FALSE /\ termination_requested = FALSE
    /\ deadline = WallTimeLimit /\ force_kill = WallTimeLimit + GracePeriod
    /\ outcome = "none" /\ asked = 0

SupervisorNext ==
    \/ ParentStep \/ Tick
    \/ SetupFails \/ JailStarts \/ ProgramEnds \/ NsJailDies \/ JailFollows
    \/ \E p \in Pipes : Writes(p) \/ Closes(p)

SupervisorSpec == SupervisorInit /\ [][SupervisorNext]_vars

\* The supervisor is scheduled, time passes, a killed process dies and its jail
\* with it. The program may do as it likes.
SupervisorFairness ==
    /\ WF_vars(ParentStep) /\ WF_vars(Tick)
    /\ WF_vars(NsJailDies) /\ WF_vars(JailFollows)

\* NsJail's own time limit (nsjail_arguments: the wall-time limit and two
\* seconds) ends every program.
Backstop == WF_vars(ProgramEnds)

SupervisorAlone == SupervisorSpec /\ SupervisorFairness

SupervisorFairSpec == SupervisorAlone /\ Backstop

----------------------------------------------------------------------------
\* Properties.

\* Both pipes together are stored up to the limit and no further, in whatever
\* order they are drained; and when the run is over, everything the program
\* wrote has been counted: it is all in the result, or the result says that
\* the limit was exceeded, also when the run was stopped or the output came
\* after the child was reaped.
OutputAccounted ==
    /\ stored["stdout"] + stored["stderr"] = Least(total_output, OutputLimit)
    /\ pc = "result" =>
          /\ output_limit_exceeded <=> written["stdout"] + written["stderr"] > OutputLimit
          /\ ~output_limit_exceeded => stored = written

\* When run_isolated returns, NsJail has been reaped, and a process of the jail
\* runs on only if NsJail had to be killed and the program had closed both of
\* its pipes before: closed pipes are all the loop waits for, so that such a
\* program may still be dying while its workspace is removed. It cannot add to
\* the output any more. After any other run nothing of the jail is left.
NothingSurvives ==
    pc = "done" =>
        /\ nsjail \in {"none", "reaped"}
        /\ jail => "SIGKILL" \in signals /\ held = {}

\* SIGKILL is the last resort: it goes to a child that has not been reaped, and
\* that has had the grace period since SIGTERM.
KillAfterGrace ==
    /\ "SIGKILL" \notin stray
    /\ "SIGKILL" \in signals => "SIGTERM" \in signals /\ asked = GracePeriod

\* A run that the supervisor has stopped is reported as out of time or over the
\* output limit, never as the program's own exit; a sandbox that could not be
\* set up and was left alone is never reported as a result.
StopIsReported ==
    pc = "done" =>
        /\ signals # {} => timed_out \/ outcome \in {"output_limit", "executor_error"}
        /\ fault # "none" /\ signals = {} /\ stray = {} => outcome = "executor_error"

\* run_isolated returns, with NsJail's time limit as its backstop.
RunEnds == <>(pc = "done")

\* The "backend wall limit" (docs/sandbox.md): once the deadline has passed,
\* the supervisor asks a running jail to end.
WallLimitActs ==
    (deadline = 0 /\ nsjail = "running") ~> (termination_requested \/ nsjail # "running")

=============================================================================
