------------------------------ MODULE Problems ------------------------------
(***************************************************************************)
(* The tables problems and problem_tests and the statements of             *)
(* PostgreSQLProblemRepository that change them, each one atomic.          *)
(*                                                                         *)
(* A problem keeps its id, the slug, for life and counts its revisions     *)
(* from 1; a test gets its id from an identity column. All that an         *)
(* administrator can write into a row beside enabled and position is one   *)
(* value, content. A statement that matches no row, or that a constraint   *)
(* refuses, changes nothing: it is not enabled.                            *)
(***************************************************************************)
EXTENDS Integers, SequencesExt, Tables

CONSTANTS
    ProblemIds,         \* slugs
    DefaultProblems,    \* the slugs of default_problems()
    DefaultTests,       \* hidden tests of each default problem
    Positions,          \* positions a test may be given
    MaxTests            \* bound of the model: test ids ever handed out

ASSUME ProblemsAssumption ==
    /\ DefaultProblems \subseteq ProblemIds /\ IsFiniteSet(DefaultProblems)
    /\ DefaultTests \in Nat /\ MaxTests \in Nat
    /\ Positions \subseteq Nat /\ 0 .. (DefaultTests - 1) \subseteq Positions

VARIABLES
    problems,   \* problems[p] is the row with id p
    tests,      \* tests[t] is the row of problem_tests with id t
    test_seq    \* the last id of problem_tests handed out

catalog == <<problems, tests, test_seq>>

ProblemRow == [enabled : BOOLEAN, revision : Nat \ {0}, content : Nat]

TestRow ==
    [problem : ProblemIds, position : Positions, enabled : BOOLEAN, revision : Nat \ {0},
     content : Nat]

ProblemsTypeOK ==
    /\ DOMAIN problems \subseteq ProblemIds
    /\ \A p \in DOMAIN problems : problems[p] \in ProblemRow
    /\ test_seq \in 0 .. MaxTests /\ DOMAIN tests \subseteq 1 .. test_seq
    /\ \A t \in DOMAIN tests : tests[t] \in TestRow /\ tests[t].problem \in DOMAIN problems

TestsOf(p) == {t \in DOMAIN tests : tests[t].problem = p}

\* UNIQUE(problem_id, position), for a row that is or becomes the test t.
PositionFree(p, t, position) ==
    \A other \in TestsOf(p) \ {t} : tests[other].position # position

----------------------------------------------------------------------------

NewProblem(enabled, content) ==
    [enabled |-> enabled, revision |-> 1, content |-> content]

NewTest(p, position, enabled, content) ==
    [problem |-> p, position |-> position, enabled |-> enabled, revision |-> 1,
     content |-> content]

create(p, enabled, content) ==
    /\ p \notin DOMAIN problems
    /\ problems' = With(problems, p, NewProblem(enabled, content))
    /\ UNCHANGED <<tests, test_seq>>

update(p, revision, enabled, content) ==
    /\ p \in DOMAIN problems
    /\ problems[p].revision = revision
    /\ problems' = [problems EXCEPT ![p] = [enabled |-> enabled, revision |-> revision + 1,
                                            content |-> content]]
    /\ UNCHANGED <<tests, test_seq>>

removeLeavingTests(p) ==
    /\ p \in DOMAIN problems
    /\ problems' = Without(problems, {p})
    /\ UNCHANGED <<tests, test_seq>>

\* The tests follow their problem: ON DELETE CASCADE.
remove(p) ==
    /\ p \in DOMAIN problems
    /\ problems' = Without(problems, {p})
    /\ tests' = Without(tests, TestsOf(p))
    /\ UNCHANGED test_seq

create_test(p, position, enabled, content) ==
    /\ test_seq < MaxTests
    /\ p \in DOMAIN problems
    /\ PositionFree(p, 0, position)
    /\ test_seq' = test_seq + 1
    /\ tests' = With(tests, test_seq + 1, NewTest(p, position, enabled, content))
    /\ UNCHANGED problems

update_testAnyRevision(p, t, revision, position, enabled, content) ==
    /\ t \in TestsOf(p)
    /\ PositionFree(p, t, position)
    /\ tests' = [tests EXCEPT ![t] = [problem |-> p, position |-> position, enabled |-> enabled,
                                      revision |-> tests[t].revision + 1, content |-> content]]
    /\ UNCHANGED <<problems, test_seq>>

update_test(p, t, revision, position, enabled, content) ==
    /\ t \in TestsOf(p)
    /\ tests[t].revision = revision
    /\ PositionFree(p, t, position)
    /\ tests' = [tests EXCEPT ![t] = [problem |-> p, position |-> position, enabled |-> enabled,
                                      revision |-> revision + 1, content |-> content]]
    /\ UNCHANGED <<problems, test_seq>>

remove_test(p, t) ==
    /\ t \in TestsOf(p)
    /\ tests' = Without(tests, {t})
    /\ UNCHANGED <<problems, test_seq>>

----------------------------------------------------------------------------

Missing == DefaultProblems \ DOMAIN problems

\* The ids of the tests that seeding inserts, in order, a problem at a time.
SeededTests(content) ==
    LET order == SetToSeq(Missing)
    IN [t \in (test_seq + 1) .. (test_seq + Len(order) * DefaultTests) |->
           LET n == t - test_seq - 1
           IN NewTest(order[n \div DefaultTests + 1], n % DefaultTests, TRUE, content)]

\* open: one transaction, under an advisory lock, at every start of a backend.
\* A default problem that exists, in whatever state, is left alone.
Seed(content) ==
    /\ test_seq + Cardinality(Missing) * DefaultTests <= MaxTests
    /\ problems' = Joined(problems, [p \in Missing |-> NewProblem(TRUE, content)])
    /\ tests' = Joined(tests, SeededTests(content))
    /\ test_seq' = test_seq + Cardinality(Missing) * DefaultTests

CatalogInit ==
    /\ problems = << >>
    /\ tests = << >>
    /\ test_seq = 0

=============================================================================
