---------------------------- MODULE JudgeContract ---------------------------
(***************************************************************************)
(* What ProblemJudge promises, without reads, processes or channels: a     *)
(* submission is judged by the tests that were enabled at one instant, in  *)
(* the order of their positions; the first run that does not pass decides, *)
(* and Accepted needs a pass of every test and at least one test. Or the   *)
(* judge answers that it could not judge.                                  *)
(***************************************************************************)
EXTENDS Integers, Sequences, FiniteSetsExt

CONSTANTS
    Judges,         \* submissions being judged
    Expected        \* Expected[c]: expected_output of a test with content c

VARIABLES
    tests,          \* the table problem_tests
    began,          \* those whose tests have been taken
    taken,          \* taken[j]: the tests j is judged by, as ids and contents
    results,        \* results[j]: what the runs so far did
    outcome         \* outcome[j]

contract == <<tests, began, taken, results, outcome>>

Open == [kind |-> "none", type |-> "none"]

----------------------------------------------------------------------------
\* Two outputs are the same answer when they have the same lines, whatever
\* ends a line, up to white space at the end.

Blank == {"SP", "LF", "CR"}

EndsLine(s, i) == s[i] = "CR" \/ (s[i] = "LF" /\ (i = 1 \/ s[i - 1] # "CR"))

Length(s) == Max({0} \cup {i \in DOMAIN s : s[i] \notin Blank})

Kept(s) == {i \in 1 .. Length(s) : s[i] \notin {"CR", "LF"} \/ EndsLine(s, i)}

Rank(s, i) == Cardinality({k \in Kept(s) : k <= i})

SameAnswer(a, b) ==
    /\ Cardinality(Kept(a)) = Cardinality(Kept(b))
    /\ \A i \in Kept(a), k \in Kept(b) :
          Rank(a, i) = Rank(b, k) => a[i] = b[k] \/ (EndsLine(a, i) /\ EndsLine(b, k))

----------------------------------------------------------------------------

Passes(j, i) ==
    LET e == results[j][i]
    IN /\ e.stage = "run" /\ ~e.timed_out /\ e.exit_code = 0
       /\ SameAnswer(e.output, Expected[taken[j][i].content])

Passed(j) == \A i \in DOMAIN results[j] : Passes(j, i)

\* The verdict on a run that does not pass. A compiler that runs out of time
\* is an error of the submission, not a run over the time limit.
KindOf(e) ==
    CASE e.stage = "compile" -> "runtime_error"
      [] e.stage = "run" /\ e.timed_out -> "time_limit_exceeded"
      [] e.stage = "run" /\ ~e.timed_out /\ e.exit_code # 0 -> "runtime_error"
      [] OTHER -> "wrong_answer"

Take(j) ==
    /\ j \notin began /\ began' = began \cup {j}
    /\ LET q == taken'[j]
           enabled == {t \in DOMAIN tests : tests[t].enabled}
       IN /\ {q[i].id : i \in DOMAIN q} = enabled /\ Len(q) = Cardinality(enabled)
          /\ \A i \in DOMAIN q : q[i].content = tests[q[i].id].content
          /\ \A i, k \in DOMAIN q : i < k => tests[q[i].id].position < tests[q[k].id].position
    /\ taken' = [taken EXCEPT ![j] = taken'[j]]
    /\ UNCHANGED <<tests, results, outcome>>

Run(j) ==
    /\ j \in began /\ outcome[j] = Open
    /\ Len(results[j]) < Len(taken[j]) /\ Passed(j)
    /\ Len(results'[j]) = Len(results[j]) + 1
    /\ results' = [results EXCEPT ![j] = Append(@, results'[j][Len(@) + 1])]
    /\ UNCHANGED <<tests, began, taken, outcome>>

Answer(j) ==
    /\ outcome[j] = Open
    /\ \/ outcome'[j].kind = "judge_error"
       \/ /\ outcome'[j].kind = "accepted"
          /\ j \in began /\ Len(results[j]) = Len(taken[j]) /\ taken[j] # << >>
          /\ Passed(j)
       \/ /\ j \in began /\ ~Passed(j)
          /\ LET e == results[j][Len(results[j])]
             IN /\ outcome'[j].kind = KindOf(e)
                /\ KindOf(e) = "runtime_error" /\ e.error_type # "none"
                      => outcome'[j].type = e.error_type
    /\ outcome' = [outcome EXCEPT ![j] = outcome'[j]]
    /\ UNCHANGED <<tests, began, taken, results>>

Edit == UNCHANGED <<began, taken, results, outcome>>

ContractInit ==
    /\ began = {} /\ taken = [j \in Judges |-> << >>]
    /\ results = [j \in Judges |-> << >>]
    /\ outcome = [j \in Judges |-> Open]

ContractNext == Edit \/ \E j \in Judges : Take(j) \/ Run(j) \/ Answer(j)

ContractSpec == ContractInit /\ [][ContractNext]_contract

=============================================================================
