-------------------------- MODULE SupervisorProofs --------------------------
(* Safety of run_isolated for all limits, buffer and pipe sizes.            *)
EXTENDS Supervisor, TLAPS

----------------------------------------------------------------------------
\* The inductive invariant.

\* Both destinations share the limit.
StoredInv == stored["stdout"] + stored["stderr"] = Least(total_output, OutputLimit)

\* As long as nothing was cut off, what was written is stored or in the pipe.
AccountInv ==
    /\ total_output <= OutputLimit =>
          \A p \in Pipes : written[p] = Counted(stored[p] + pipe[p])
    /\ total_output > OutputLimit => written["stdout"] + written["stderr"] > OutputLimit

ExceededInv == output_limit_exceeded <=> total_output > OutputLimit

\* A read end is closed only when nobody is left to write into that pipe.
ClosedInv ==
    \A p \in Pipes : ~open[p] => pc # "launch" /\ pipe[p] = 0 /\ ~WriteEndOpen(p)

\* Only a living jail holds write ends, and it outlives NsJail only when that was
\* killed.
JailInv ==
    /\ held # {} => jail
    /\ jail => nsjail = "running" \/ (nsjail \in {"zombie", "reaped"} /\ "SIGKILL" \in signals)

LifeInv ==
    /\ pc = "launch" => nsjail = "none"
    /\ nsjail \in {"none", "launching"} => ~jail
    /\ supervisor_exited <=> nsjail = "reaped"
    /\ pc = "result" => nsjail = "reaped" /\ \A p \in Pipes : ~open[p]
    /\ pc = "done" => nsjail \in {"none", "reaped"} /\ held = {}

\* The time since SIGTERM and the time left until SIGKILL make up the grace
\* period; a SIGTERM that was sent to the child is remembered.
KillInv ==
    /\ termination_requested => asked + force_kill >= GracePeriod
    /\ termination_requested /\ nsjail # "reaped" => "SIGTERM" \in signals
    /\ "SIGKILL" \in signals =>
          termination_requested /\ "SIGTERM" \in signals /\ asked = GracePeriod
    /\ "SIGKILL" \notin stray

\* A fault leaves no output and no jail; a stop has its reason and its signal.
ReportInv ==
    /\ fault # "none" => nsjail \in {"zombie", "reaped"} /\ status = "error"
    /\ fault # "none" \/ nsjail \in {"none", "launching"} =>
          ~jail /\ \A p \in Pipes : written[p] = 0
    /\ signals # {} => termination_requested
    /\ termination_requested => timed_out \/ output_limit_exceeded
    /\ termination_requested => signals # {} \/ stray # {}
    /\ timed_out => termination_requested
    /\ StopIsReported

----------------------------------------------------------------------------

\* Each step keeps the types; that stored stays below the limit needs StoredInv.
LEMMA TypeStep ==
    SupervisorTypeOK /\ StoredInv /\ [SupervisorNext]_vars => SupervisorTypeOK'
<1> SUFFICES ASSUME SupervisorTypeOK, StoredInv, [SupervisorNext]_vars
             PROVE  SupervisorTypeOK'
    OBVIOUS
<1> USE LimitsAreNatural
<1>1. CASE SetupFails
  BY <1>1 DEF SupervisorTypeOK, SetupFails, Ends, SandboxStep, output, clock
<1>2. CASE JailStarts
  BY <1>2 DEF SupervisorTypeOK, JailStarts, SandboxStep, output, clock
<1>3. ASSUME NEW p \in Pipes, Writes(p) PROVE SupervisorTypeOK'
  BY <1>3 DEF SupervisorTypeOK, Writes, SandboxStep, output, clock, Counted, Least
<1>0. ASSUME NEW p \in Pipes, Closes(p) PROVE SupervisorTypeOK'
  BY <1>0 DEF SupervisorTypeOK, Closes, SandboxStep, output, clock
<1>4. CASE ProgramEnds
  <2>1. jail' \in BOOLEAN
    BY <1>4, Zenon DEF ProgramEnds
  <2>2. QED
    BY <1>4, <2>1 DEF SupervisorTypeOK, ProgramEnds, Ends, SandboxStep, output, clock
<1>5. CASE NsJailDies
  BY <1>5 DEF SupervisorTypeOK, NsJailDies, Ends, SandboxStep, output, clock
<1>6. CASE JailFollows
  <2>1. jail' \in BOOLEAN
    BY <1>6, Zenon DEF JailFollows
  <2>2. QED
    BY <1>6, <2>1 DEF SupervisorTypeOK, JailFollows, SandboxStep, output, clock
<1>7. CASE Tick
  BY <1>7 DEF SupervisorTypeOK, Tick, sandbox, output, clock, Down, Least
<1>8. CASE Launch
  BY <1>8 DEF SupervisorTypeOK, Launch, output, clock
<1>9. CASE Poll
  BY <1>9 DEF SupervisorTypeOK, Poll, sandbox, output, clock
<1>10. CASE Limits
  <2>1. timed_out' \in BOOLEAN /\ termination_requested' \in BOOLEAN
    BY <1>10, Zenon DEF Limits, SupervisorTypeOK
  <2>2. signals' \subseteq {"SIGTERM", "SIGKILL"} /\ stray' \subseteq {"SIGTERM", "SIGKILL"}
    BY <1>10 DEF Limits, SupervisorTypeOK, Sent
  <2>3. force_kill' \in 0 .. WallTimeLimit + GracePeriod
    BY <1>10 DEF Limits, SupervisorTypeOK
  <2>4. QED
    BY <1>10, <2>1, <2>2, <2>3 DEF SupervisorTypeOK, Limits, sandbox, output
<1>11. CASE Reap
  <2>1. supervisor_exited' \in BOOLEAN
    BY <1>11, Zenon DEF Reap, SupervisorTypeOK
  <2>2. QED
    BY <1>11, <2>1 DEF SupervisorTypeOK, Reap, output, clock
<1>12. CASE Result
  BY <1>12 DEF SupervisorTypeOK, Result, execution_exit_code, sandbox, output, clock
<1>13. ASSUME NEW p \in Pipes, Drain(p) PROVE SupervisorTypeOK'
  <2>1. CASE Reads(p)
    <3>1. output_limit_exceeded' \in BOOLEAN
      BY <2>1, Zenon DEF Reads
    <3>2. QED
      BY <2>1, <3>1, <1>13 DEF SupervisorTypeOK, StoredInv, Drain, Reads, Remaining, Counted,
                               Least, clock, Pipes
  <2>2. CASE ReadsEndOfFile(p)
    BY <2>2, <1>13 DEF SupervisorTypeOK, Drain, ReadsEndOfFile, AfterDrain, clock
  <2>3. CASE ReadsNothing(p)
    BY <2>3, <1>13 DEF SupervisorTypeOK, Drain, ReadsNothing, AfterDrain, output, clock
  <2>4. QED
    BY <2>1, <2>2, <2>3, <1>13, Zenon DEF Drain
<1>14. CASE UNCHANGED vars
  BY <1>14 DEF SupervisorTypeOK, vars
<1>15. QED
  BY <1>0, <1>1, <1>2, <1>3, <1>4, <1>5, <1>6, <1>7, <1>8, <1>9, <1>10, <1>11, <1>12,
     <1>13, <1>14, Zenon DEF SupervisorNext, ParentStep

\* Output is counted by the two steps that move it.
OutputVars == <<pipe, written, stored, total_output, output_limit_exceeded>>

\* Only a write into a pipe and a read from it change what OutputInv is about.
LEMMA OutputFrame ==
    [SupervisorNext]_vars =>
        \/ UNCHANGED OutputVars
        \/ \E p \in Pipes : Writes(p)
        \/ \E p \in Pipes : Drain(p) /\ Reads(p)
<1> SUFFICES ASSUME [SupervisorNext]_vars, \A p \in Pipes : ~Writes(p),
                    \A p \in Pipes : ~(Drain(p) /\ Reads(p))
             PROVE  UNCHANGED OutputVars
    OBVIOUS
<1>1. CASE \/ SetupFails \/ JailStarts \/ ProgramEnds \/ NsJailDies \/ JailFollows
           \/ \E p \in Pipes : Closes(p)
  BY <1>1 DEF SetupFails, JailStarts, ProgramEnds, NsJailDies, JailFollows, Closes, SandboxStep,
              output, OutputVars
<1>2. CASE Tick \/ Launch \/ Poll \/ Limits \/ Reap \/ Result
  BY <1>2 DEF Tick, Launch, Poll, Limits, Reap, Result, sandbox, output, OutputVars
<1>3. ASSUME NEW p \in Pipes, Drain(p) PROVE UNCHANGED OutputVars
  BY <1>3 DEF Drain, ReadsEndOfFile, ReadsNothing, output, OutputVars
<1>4. CASE UNCHANGED vars
  BY <1>4 DEF vars, OutputVars
<1>5. QED
  BY <1>1, <1>2, <1>3, <1>4, Zenon DEF SupervisorNext, ParentStep

\* What is known of output, and of processes and pipe ends.
OutputInv == StoredInv /\ AccountInv /\ ExceededInv

\* A read below the limit moves output from the pipe to its destination; the read
\* that crosses the limit proves that more was written than it allows.
LEMMA OutputStep ==
    SupervisorTypeOK /\ OutputInv /\ [SupervisorNext]_vars => OutputInv'
<1> SUFFICES ASSUME SupervisorTypeOK, OutputInv, [SupervisorNext]_vars
             PROVE  OutputInv'
    OBVIOUS
<1> USE LimitsAreNatural
<1>1. CASE UNCHANGED OutputVars
  BY <1>1 DEF OutputVars, OutputInv, StoredInv, AccountInv, ExceededInv
<1>2. ASSUME NEW p \in Pipes, Writes(p) PROVE OutputInv'
  <2>1. /\ pipe' = [pipe EXCEPT ![p] = @ + 1]
        /\ written' = [written EXCEPT ![p] = Counted(@ + 1)]
        /\ UNCHANGED <<stored, total_output, output_limit_exceeded>>
    BY <1>2 DEF Writes, SandboxStep, output
  <2>2. StoredInv' /\ ExceededInv'
    BY <2>1 DEF OutputInv, StoredInv, ExceededInv
  <2>3. AccountInv'
    BY <2>1 DEF OutputInv, AccountInv, SupervisorTypeOK, Counted, Least, Pipes
  <2>4. QED
    BY <2>2, <2>3 DEF OutputInv
<1>3. ASSUME NEW p \in Pipes, Drain(p), Reads(p) PROVE OutputInv'
  <2> DEFINE size == Least(pipe[p], ReadBuffer)
  <2>1. /\ size \in Nat \ {0} /\ size <= pipe[p]
        /\ pipe' = [pipe EXCEPT ![p] = @ - size]
        /\ stored' = [stored EXCEPT ![p] = @ + Least(size, Remaining(p))]
        /\ total_output' = Counted(total_output + size)
        /\ UNCHANGED written
    BY <1>3 DEF Drain, Reads, SupervisorTypeOK, Least
  <2>2. output_limit_exceeded' <=> output_limit_exceeded \/ total_output + size > OutputLimit
    BY <1>3, Zenon DEF Reads
  <2>. HIDE DEF size
  <2>3. ExceededInv'
    BY <2>1, <2>2 DEF OutputInv, ExceededInv, SupervisorTypeOK, Counted, Least
  <2>4. StoredInv'
    BY <2>1 DEF OutputInv, StoredInv, SupervisorTypeOK, Counted, Least, Remaining, Pipes
  <2>5. ASSUME total_output + size <= OutputLimit PROVE AccountInv'
    BY <2>1, <2>5 DEF OutputInv, StoredInv, AccountInv, SupervisorTypeOK, Counted, Least,
                      Remaining, Pipes
  <2>6. ASSUME total_output <= OutputLimit, total_output + size > OutputLimit PROVE AccountInv'
    BY <2>1, <2>6 DEF OutputInv, StoredInv, AccountInv, SupervisorTypeOK, Counted, Least, Pipes
  <2>7. ASSUME total_output > OutputLimit PROVE AccountInv'
    BY <2>1, <2>7 DEF OutputInv, AccountInv, SupervisorTypeOK, Counted, Least
  <2>8. AccountInv'
    BY <2>1, <2>5, <2>6, <2>7 DEF SupervisorTypeOK
  <2>9. QED
    BY <2>3, <2>4, <2>8 DEF OutputInv
<1>4. QED
  BY <1>1, <1>2, <1>3, OutputFrame, Zenon

ProcessInv == LifeInv /\ ClosedInv /\ JailInv

\* The loop ends only with the child reaped and both ends closed, and an end is
\* closed only when no writer is left and none can come back. What is left in the
\* jail then has closed its pipes.
LEMMA ProcessStep ==
    SupervisorTypeOK /\ ProcessInv /\ [SupervisorNext]_vars => ProcessInv'
<1> SUFFICES ASSUME SupervisorTypeOK, ProcessInv, [SupervisorNext]_vars
             PROVE  ProcessInv'
    OBVIOUS
<1> USE DEF ProcessInv, LifeInv, ClosedInv, JailInv, WriteEndOpen
<1>1. CASE SetupFails
  BY <1>1 DEF SetupFails, Ends, SandboxStep, output
<1>2. CASE JailStarts
  BY <1>2 DEF JailStarts, SandboxStep, output
<1>3. ASSUME NEW p \in Pipes, Writes(p) PROVE ProcessInv'
  BY <1>3 DEF SupervisorTypeOK, Writes, SandboxStep, output
<1>0. ASSUME NEW p \in Pipes, Closes(p) PROVE ProcessInv'
  BY <1>0 DEF Closes, SandboxStep, output
<1>4. CASE ProgramEnds
  BY <1>4 DEF ProgramEnds, Ends, SandboxStep, output
<1>5. CASE NsJailDies
  BY <1>5 DEF NsJailDies, Ends, SandboxStep, output
<1>6. CASE JailFollows
  BY <1>6 DEF JailFollows, SandboxStep, output
<1>7. CASE Tick
  BY <1>7 DEF Tick, sandbox, output
<1>8. CASE Launch
  BY <1>8 DEF Launch, output
<1>9. CASE Poll
  BY <1>9 DEF Poll, sandbox, output
<1>10. CASE Limits
  <2>1. signals \subseteq signals'
    BY <1>10 DEF Limits, Sent
  <2>2. QED
    BY <1>10, <2>1 DEF Limits, sandbox, output
<1>11. CASE Reap
  BY <1>11 DEF Reap, output
<1>12. CASE Result
  BY <1>12 DEF Result, sandbox, output, SupervisorTypeOK
<1>13. ASSUME NEW p \in Pipes, Drain(p) PROVE ProcessInv'
  <2>1. CASE Reads(p)
    BY <2>1, <1>13 DEF Drain, Reads, SupervisorTypeOK, Least, Pipes
  <2>2. CASE ReadsEndOfFile(p)
    BY <2>2, <1>13 DEF Drain, ReadsEndOfFile, AfterDrain, SupervisorTypeOK, Pipes
  <2>3. CASE ReadsNothing(p)
    BY <2>3, <1>13 DEF Drain, ReadsNothing, AfterDrain, output, Pipes
  <2>4. QED
    BY <2>1, <2>2, <2>3, <1>13, Zenon DEF Drain
<1>14. CASE UNCHANGED vars
  BY <1>14 DEF vars
<1>15. QED
  BY <1>0, <1>1, <1>2, <1>3, <1>4, <1>5, <1>6, <1>7, <1>8, <1>9, <1>10, <1>11, <1>12,
     <1>13, <1>14, Zenon DEF SupervisorNext, ParentStep

\* The clock moves time from force_kill to asked; Limits sends SIGKILL only when
\* none is left, and Reap never forgets that the child is gone.
LEMMA KillStep ==
    SupervisorTypeOK /\ LifeInv /\ KillInv /\ [SupervisorNext]_vars => KillInv'
<1> SUFFICES ASSUME SupervisorTypeOK, LifeInv, KillInv, [SupervisorNext]_vars
             PROVE  KillInv'
    OBVIOUS
<1> USE LimitsAreNatural DEF KillInv
<1>1. CASE \/ SetupFails \/ JailStarts \/ ProgramEnds \/ NsJailDies
           \/ \E p \in Pipes : Writes(p) \/ Closes(p)
  BY <1>1 DEF SetupFails, JailStarts, ProgramEnds, NsJailDies, Writes, Closes, Ends,
              SandboxStep, clock
<1>2. CASE JailFollows \/ Poll \/ Result
  BY <1>2 DEF JailFollows, SandboxStep, Poll, Result, sandbox, clock
<1>3. CASE Tick
  BY <1>3 DEF Tick, SupervisorTypeOK, sandbox, Down, Least
<1>4. CASE Launch
  BY <1>4 DEF Launch, LifeInv, clock
<1>5. CASE Limits
  <2>1. CASE nsjail = "reaped"
    BY <1>5, <2>1 DEF Limits, Sent, Kills, SupervisorTypeOK, LifeInv, sandbox
  <2>2. CASE nsjail # "reaped"
    BY <1>5, <2>2 DEF Limits, Sent, Kills, SupervisorTypeOK, LifeInv, sandbox
  <2>3. QED
    BY <2>1, <2>2
<1>6. CASE Reap
  BY <1>6 DEF Reap, clock
<1>7. ASSUME NEW p \in Pipes, Drain(p) PROVE KillInv'
  BY <1>7 DEF Drain, clock
<1>8. CASE UNCHANGED vars
  BY <1>8 DEF vars
<1>9. QED
  BY <1>1, <1>2, <1>3, <1>4, <1>5, <1>6, <1>7, <1>8, Zenon DEF SupervisorNext, ParentStep

\* A failed set-up has written nothing, so that no limit can hide it, and every
\* stop has a reason that Result reports.
LEMMA ReportStep ==
    SupervisorTypeOK /\ OutputInv /\ ProcessInv /\ ReportInv /\ [SupervisorNext]_vars
        => ReportInv'
<1> SUFFICES ASSUME SupervisorTypeOK, OutputInv, ProcessInv, ReportInv, [SupervisorNext]_vars
             PROVE  ReportInv'
    OBVIOUS
<1> USE DEF ReportInv, StopIsReported
<1>1. CASE SetupFails
  BY <1>1 DEF SetupFails, Ends, SandboxStep, output, ProcessInv, LifeInv
<1>2. CASE JailStarts
  BY <1>2 DEF JailStarts, SandboxStep, output, ProcessInv, LifeInv
<1>3. ASSUME NEW p \in Pipes, Writes(p) PROVE ReportInv'
  BY <1>3 DEF Writes, SandboxStep, output, ProcessInv, JailInv
<1>0. ASSUME NEW p \in Pipes, Closes(p) PROVE ReportInv'
  BY <1>0 DEF Closes, SandboxStep, output
<1>4. CASE ProgramEnds
  BY <1>4 DEF ProgramEnds, Ends, SandboxStep, output
<1>5. CASE NsJailDies
  BY <1>5 DEF NsJailDies, Ends, SandboxStep, output, ProcessInv, LifeInv
<1>6. CASE JailFollows
  BY <1>6 DEF JailFollows, SandboxStep, output
<1>7. CASE Tick
  BY <1>7 DEF Tick, sandbox, output
<1>8. CASE Launch
  BY <1>8 DEF Launch, output, ProcessInv, LifeInv
<1>9. CASE Poll
  BY <1>9 DEF Poll, sandbox, output
<1>10. CASE Limits
  <2>1. CASE ~termination_requested /\ (output_limit_exceeded \/ deadline = 0)
    <3>1. timed_out' \/ output_limit_exceeded
      BY <1>10, <2>1, Zenon DEF Limits
    <3>2. termination_requested' /\ (signals' # {} \/ stray' # {})
      BY <1>10, <2>1 DEF Limits, Sent
    <3>3. QED
      BY <1>10, <3>1, <3>2 DEF Limits, sandbox, output
  <2>2. CASE ~(~termination_requested /\ (output_limit_exceeded \/ deadline = 0))
    <3>1. UNCHANGED <<timed_out, termination_requested>>
      BY <1>10, <2>2, Zenon DEF Limits
    <3>2. ~termination_requested => UNCHANGED signals
      BY <1>10, <2>2 DEF Limits, Sent, Kills
    <3>3. signals \subseteq signals' /\ stray \subseteq stray'
      BY <1>10, <2>2 DEF Limits, Sent
    <3>4. QED
      BY <1>10, <3>1, <3>2, <3>3 DEF Limits, sandbox, output
  <2>3. QED
    BY <2>1, <2>2
<1>11. CASE Reap
  BY <1>11 DEF Reap, output
<1>12. CASE Result
  <2>1. fault # "none" => ~output_limit_exceeded
    BY LimitsAreNatural DEF OutputInv, ExceededInv, AccountInv, SupervisorTypeOK, Pipes
  <2>2. QED
    BY <1>12, <2>1 DEF Result, ExecutorError, nsjail_failed_to_initialize, sandbox, output,
                        SupervisorTypeOK
<1>13. ASSUME NEW p \in Pipes, Drain(p) PROVE ReportInv'
  BY <1>13 DEF Drain, Reads, ReadsEndOfFile, ReadsNothing, AfterDrain, output, Pipes
<1>14. CASE UNCHANGED vars
  BY <1>14 DEF vars
<1>15. QED
  BY <1>0, <1>1, <1>2, <1>3, <1>4, <1>5, <1>6, <1>7, <1>8, <1>9, <1>10, <1>11, <1>12,
     <1>13, <1>14, Zenon DEF SupervisorNext, ParentStep

----------------------------------------------------------------------------

SupervisorInv == SupervisorTypeOK /\ OutputInv /\ ProcessInv /\ KillInv /\ ReportInv

\* The state before Launch.
LEMMA InitInv == SupervisorInit => SupervisorInv
<1> SUFFICES ASSUME SupervisorInit PROVE SupervisorInv
    OBVIOUS
<1> USE LimitsAreNatural DEF SupervisorInit
<1>1. SupervisorTypeOK
  <2>1. /\ jail \in BOOLEAN /\ output_limit_exceeded \in BOOLEAN /\ timed_out \in BOOLEAN
        /\ supervisor_exited \in BOOLEAN /\ termination_requested \in BOOLEAN
    BY Zenon
  <2>2. open \in [Pipes -> BOOLEAN]
    BY Zenon
  <2>3. QED
    BY <2>1, <2>2 DEF SupervisorTypeOK
<1>2. OutputInv
  BY DEF OutputInv, StoredInv, AccountInv, ExceededInv, Counted, Least, Pipes
<1>3. ProcessInv
  BY DEF ProcessInv, LifeInv, ClosedInv, JailInv
<1>4. KillInv
  BY DEF KillInv
<1>5. ReportInv
  BY DEF ReportInv, StopIsReported
<1>6. QED
  BY <1>1, <1>2, <1>3, <1>4, <1>5 DEF SupervisorInv

\* The parts are inductive together.
LEMMA SupervisorInvariance == SupervisorSpec => []SupervisorInv
<1>1. SupervisorInv /\ [SupervisorNext]_vars => SupervisorInv'
  BY TypeStep, OutputStep, ProcessStep, KillStep, ReportStep, Zenon
     DEF SupervisorInv, OutputInv, ProcessInv
<1>2. QED
  BY <1>1, InitInv, PTL DEF SupervisorSpec

\* The types of run_isolated's variables: among them, neither destination ever
\* grows beyond config.output_limit_bytes.
THEOREM SupervisorTypes == SupervisorSpec => []SupervisorTypeOK
<1>1. SupervisorInv => SupervisorTypeOK
  BY DEF SupervisorInv
<1>2. QED
  BY <1>1, SupervisorInvariance, PTL

\* drain stores what the limit shared by both pipes allows, and a run ends with
\* all output of the program counted.
THEOREM OutputIsAccounted == SupervisorSpec => []OutputAccounted
<1>1. SupervisorInv => OutputAccounted
  <2> SUFFICES ASSUME SupervisorInv PROVE OutputAccounted
      OBVIOUS
  <2>1. StoredInv
    BY DEF SupervisorInv, OutputInv
  <2>2. ASSUME pc = "result", total_output > OutputLimit
        PROVE  output_limit_exceeded /\ written["stdout"] + written["stderr"] > OutputLimit
    BY <2>2 DEF SupervisorInv, OutputInv, AccountInv, ExceededInv
  <2>3. ASSUME pc = "result", total_output <= OutputLimit
        PROVE  /\ ~output_limit_exceeded /\ stored = written
               /\ ~(written["stdout"] + written["stderr"] > OutputLimit)
    <3>1. \A p \in Pipes : pipe[p] = 0
      BY <2>3 DEF SupervisorInv, ProcessInv, LifeInv, ClosedInv
    <3>2. \A p \in Pipes : written[p] = stored[p]
      BY <2>3, <3>1, LimitsAreNatural
         DEF SupervisorInv, OutputInv, AccountInv, SupervisorTypeOK, Counted, Least
    <3>3. stored = written
      BY <3>2 DEF SupervisorInv, SupervisorTypeOK
    <3>4. ~(total_output > OutputLimit)
      BY <2>3, LimitsAreNatural DEF SupervisorInv, SupervisorTypeOK
    <3>5. ~output_limit_exceeded
      BY <3>4 DEF SupervisorInv, OutputInv, ExceededInv
    <3>6. ~(written["stdout"] + written["stderr"] > OutputLimit)
      BY <2>1, <2>3, <3>3, LimitsAreNatural DEF StoredInv, Least, SupervisorInv, SupervisorTypeOK
    <3>7. QED
      BY <3>3, <3>5, <3>6
  <2>4. total_output > OutputLimit \/ total_output <= OutputLimit
    BY LimitsAreNatural DEF SupervisorInv, SupervisorTypeOK
  <2>5. QED
    BY <2>1, <2>2, <2>3, <2>4, Zenon DEF StoredInv, OutputAccounted
<1>2. QED
  BY <1>1, SupervisorInvariance, PTL

\* run_isolated returns only after waitpid has reaped NsJail and both pipes have
\* reported their end: what may be left of a jail has no pipe, and its NsJail had
\* to be killed.
THEOREM NothingIsLeft == SupervisorSpec => []NothingSurvives
<1>1. SupervisorInv => NothingSurvives
  BY DEF SupervisorInv, ProcessInv, LifeInv, JailInv, NothingSurvives
<1>2. QED
  BY <1>1, SupervisorInvariance, PTL

\* SIGKILL goes to a child that has not been reaped and has had its grace period.
THEOREM KillIsLast == SupervisorSpec => []KillAfterGrace
<1>1. SupervisorInv => KillAfterGrace
  BY DEF SupervisorInv, KillInv, KillAfterGrace
<1>2. QED
  BY <1>1, SupervisorInvariance, PTL

\* A stopped run is reported as stopped, a failed set-up as an executor error.
THEOREM StopsAreReported == SupervisorSpec => []StopIsReported
<1>1. SupervisorInv => StopIsReported
  BY DEF SupervisorInv, ReportInv
<1>2. QED
  BY <1>1, SupervisorInvariance, PTL

=============================================================================
