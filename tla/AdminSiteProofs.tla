-------------------------- MODULE AdminSiteProofs ---------------------------
(* Accounts, sessions, the catalog and its audit log, for any number of    *)
(* browsers, accounts, problems, tests, changes and failing calls.         *)
EXTENDS AdminSite, FiniteSetTheorems, TLAPS

----------------------------------------------------------------------------
\* The inductive invariant.

Writing == {"change", "identify", "audit"}

Given == [password : Passwords, rights : BOOLEAN]

\* What a row of users has comes from what was given last, all but the first
\* by a start; a session's version is one of them.
GivenInv ==
    /\ \A n \in DOMAIN users :
          /\ given[n] \in Seq(Given) /\ Len(given[n]) > 0
          /\ users[n].password = given[n][Len(given[n])].password
          /\ users[n].is_admin => \E i \in 1 .. Len(given[n]) : given[n][i].rights
          /\ \A i \in 2 .. Len(given[n]) : given[n][i].rights
    /\ \A s \in sessions :
          /\ s.version \in 0 .. Len(given[s.user])
          /\ s.version > 0 => s.proof = given[s.user][s.version].password

\* A token stands for one account.
AccountInv ==
    /\ AccountsTypeOK /\ cookie \in [Clients -> 0 .. tokens]
    /\ up \in BOOLEAN /\ faults \in 0 .. MaxFaults
    /\ \A r, s \in sessions : r.token = s.token => r.user = s.user
    /\ GivenInv

LogEntry ==
    [op : Writes \cup {"seed"}, on : SUBSET ProblemIds, user : Names, token : Nat,
     base : Nat, over : Nat]

\* What is in a row was written by a change.
CatalogInv ==
    /\ ProblemsTypeOK /\ log \in Seq(LogEntry)
    /\ \A p \in DOMAIN problems : problems[p].content <= Len(log)
    /\ \A t \in DOMAIN tests : tests[t].content <= Len(log)

WriteRequest ==
    [op : Writes, problem : ProblemIds, test : Nat, position : Positions \cup {0},
     revision : Nat, base : Nat, user : Names, token : Nat, admin : Names \cup {"none"}]

\* What the handler of x goes by between two steps still holds: the account,
\* the session's owner, the change it has made.
HandlerOK(x) ==
    /\ at[x] = "session" =>
          /\ up /\ request[x].user \in DOMAIN users
          /\ request[x].password = users[request[x].user].password
    /\ at[x] \in Writing =>
          /\ request[x] \in WriteRequest /\ request[x].token <= tokens
          /\ request[x].op \in {"problem-test.create", "problem-test.update"} =>
                request[x].position \in Positions
          /\ \A s \in sessions : s.token = request[x].token => s.user = request[x].user
    /\ at[x] \notin {"identify", "audit"} => entry[x] = 0
    /\ at[x] \in {"identify", "audit"} =>
          /\ entry[x] \in DOMAIN log
          /\ log[entry[x]].op = request[x].op
          /\ log[entry[x]].user = request[x].user
          /\ log[entry[x]].token = request[x].token
    /\ at[x] = "audit" => request[x].admin = request[x].user

HandlerInv ==
    /\ at \in [Clients -> {"idle", "session", "tests", "change", "identify", "audit"}]
    /\ DOMAIN request = Clients /\ DOMAIN entry = Clients
    /\ \A x \in Clients : HandlerOK(x)

AuditInv ==
    /\ audit \subseteq [admin : Names, action : Writes, change : DOMAIN log]
    /\ \A i \in DOMAIN log : log[i].token <= tokens
    /\ AuditMatchesChanges

\* A revision and a content that the problem p had, or a later row with its
\* id has, at a time when changes were fewer.
ProblemSeen(p, r, c, rows, changes) ==
    /\ p \in ProblemIds /\ r \in Nat /\ c \in 0 .. Len(changes)
    /\ p \in DOMAIN rows =>
          \/ \E j \in (c + 1) .. rows[p].content :
                changes[j].op \in {"problem.create", "seed"} /\ p \in changes[j].on
          \/ rows[p].revision >= r /\ (rows[p].revision = r => rows[p].content = c)

\* A revision and a content that the test t had.
TestSeen(t, r, c, rows, seq, changes) ==
    /\ t \in 1 .. seq /\ r \in Nat /\ c \in 0 .. Len(changes)
    /\ t \in DOMAIN rows =>
          rows[t].revision >= r /\ (rows[t].revision = r => rows[t].content = c)

\* What the editor of x holds, its request carries and its answer brings was
\* once so.
ViewOK(x) ==
    /\ loaded[x] # NothingLoaded =>
          ProblemSeen(loaded[x].problem, loaded[x].revision, loaded[x].content, problems, log)
    /\ \A t \in DOMAIN loaded[x].tests :
          TestSeen(t, loaded[x].tests[t].revision, loaded[x].tests[t].content,
                   tests, test_seq, log)
    /\ at[x] = "tests" =>
          ProblemSeen(request[x].problem, request[x].revision, request[x].content,
                      problems, log)
    /\ at[x] \in Writing =>
          /\ request[x].op # "problem.create" => loaded[x] # NothingLoaded
          /\ request[x].op = "problem.update" =>
                ProblemSeen(request[x].problem, request[x].revision, request[x].base,
                            problems, log)
          /\ request[x].op = "problem-test.update" =>
                TestSeen(request[x].test, request[x].revision, request[x].base,
                         tests, test_seq, log)
    /\ at[x] \in {"identify", "audit"} =>
          /\ request[x].op \in {"problem.create", "problem.update"} =>
                ProblemSeen(request[x].problem, Written(x).revision, entry[x], problems, log)
          /\ request[x].op \in {"problem-test.create", "problem-test.update"} =>
                TestSeen(request[x].test, Written(x).revision, entry[x], tests, test_seq, log)

ViewInv == DOMAIN loaded = Clients /\ \A x \in Clients : ViewOK(x)

EditInv ==
    /\ \A i \in DOMAIN log : log[i].over <= Len(log)
    /\ EditsReplaceWhatWasLoaded

SiteInv == AccountInv /\ CatalogInv /\ HandlerInv /\ AuditInv /\ ViewInv /\ EditInv

----------------------------------------------------------------------------
\* Sequences and numbers.

\* A finite set as a sequence: as long as it is large, and only of its elements.
LEMMA SetToSeqFacts ==
    ASSUME NEW S, IsFiniteSet(S)
    PROVE  /\ Cardinality(S) \in Nat
           /\ SetToSeq(S) \in [1 .. Cardinality(S) -> S]
           /\ Len(SetToSeq(S)) = Cardinality(S)
  <1>1. Cardinality(S) \in Nat /\ ExistsBijection(1 .. Cardinality(S), S)
    BY FS_CardinalityType
  <1>2. PICK f \in Bijection(1 .. Cardinality(S), S) : TRUE
    BY <1>1 DEF ExistsBijection
  <1>3. f \in [1 .. Cardinality(S) -> S] /\ IsInjective(f)
    BY <1>2 DEF Bijection, Injection, IsInjective
  <1>4. SetToSeq(S) \in [1 .. Cardinality(S) -> S]
    BY <1>3 DEF SetToSeq
  <1>5. QED
    BY <1>1, <1>4

\* The n-th row of several equal groups is in one of them.
LEMMA GroupOf ==
    ASSUME NEW d \in Nat, NEW k \in Nat, NEW n \in Nat, n < k * d
    PROVE  n \div d \in 0 .. (k - 1) /\ n % d \in 0 .. (d - 1)
  <1>1. d > 0
    OBVIOUS
  <1>2. n \div d \in Int /\ n % d \in 0 .. (d - 1) /\ n = d * (n \div d) + (n % d)
    BY <1>1
  <1>3. QED
    BY <1>1, <1>2

----------------------------------------------------------------------------
\* The statements that change the catalog.

\* What a step may do to the rows, when the change it makes has the number c
\* and the operation op is about the problems in on: a row stays, gets a higher
\* revision, or is new under a new id or by a creation.
Evolves(c, op, on) ==
    /\ test_seq' >= test_seq
    /\ \A p \in DOMAIN problems' :
          \/ p \in DOMAIN problems /\ problems'[p] = problems[p]
          \/ /\ problems'[p].content = c
             /\ \/ p \in DOMAIN problems /\ problems'[p].revision > problems[p].revision
                \/ op \in {"problem.create", "seed"} /\ p \in on
    /\ \A t \in DOMAIN tests' :
          \/ t \in DOMAIN tests /\ tests'[t] = tests[t]
          \/ /\ tests'[t].content = c
             /\ \/ t \in DOMAIN tests /\ tests'[t].revision > tests[t].revision
                \/ t > test_seq

RowsStay ==
    /\ DOMAIN problems' = DOMAIN problems /\ DOMAIN tests' = DOMAIN tests
    /\ \A p \in DOMAIN problems : problems'[p] = problems[p]
    /\ \A t \in DOMAIN tests : tests'[t] = tests[t]
    /\ test_seq' = test_seq

\* A statement on a problem writes the change's content, moves a revision on by
\* one, and leaves the other problems alone (create, update, remove).
LEMMA ProblemStatement ==
    ASSUME ProblemsTypeOK, NEW r \in WriteRequest, NEW c \in Nat,
           admin_write_problem(r, c) \/ admin_delete_problem(r)
    PROVE  ProblemsTypeOK' /\ Evolves(c, r.op, {r.problem})
  <1>a. /\ DOMAIN problems \subseteq ProblemIds
        /\ \A p \in DOMAIN problems : problems[p] \in ProblemRow
        /\ \A p \in DOMAIN problems : problems[p].revision \in Nat
        /\ test_seq \in 0 .. MaxTests /\ DOMAIN tests \subseteq 1 .. test_seq
        /\ \A t \in DOMAIN tests : tests[t] \in TestRow /\ tests[t].problem \in DOMAIN problems
        /\ \A t \in DOMAIN tests : tests[t].revision \in Nat
        /\ MaxTests \in Nat
    BY ProblemsAssumption DEF ProblemsTypeOK, ProblemRow, TestRow
  <1>b. r.problem \in ProblemIds /\ r.revision \in Nat
    BY DEF WriteRequest
  <1>1. CASE r.op = "problem.create" /\ create(r.problem, TRUE, c)
    <2>1. UNCHANGED <<tests, test_seq>> /\ r.problem \notin DOMAIN problems
      BY <1>1 DEF create
    <2>2. /\ DOMAIN problems' = DOMAIN problems \cup {r.problem}
          /\ problems'[r.problem] = [enabled |-> TRUE, revision |-> 1, content |-> c]
          /\ \A p \in DOMAIN problems : problems'[p] = problems[p]
      BY <1>1, <2>1 DEF create, NewProblem, With
    <2>r. problems'[r.problem] \in ProblemRow
      BY <2>2 DEF ProblemRow
    <2>3. ProblemsTypeOK'
      BY <1>a, <1>b, <2>1, <2>2, <2>r DEF ProblemsTypeOK
    <2>4. Evolves(c, r.op, {r.problem})
      BY <1>1, <1>a, <2>1, <2>2 DEF Evolves
    <2>5. QED
      BY <2>3, <2>4
  <1>2. CASE r.op = "problem.update" /\ update(r.problem, r.revision, TRUE, c)
    <2>1. /\ UNCHANGED <<tests, test_seq>> /\ r.problem \in DOMAIN problems
          /\ problems[r.problem].revision = r.revision
      BY <1>2 DEF update
    <2>2. /\ DOMAIN problems' = DOMAIN problems
          /\ problems'[r.problem] =
                [enabled |-> TRUE, revision |-> r.revision + 1, content |-> c]
          /\ \A p \in DOMAIN problems \ {r.problem} : problems'[p] = problems[p]
      BY <1>2, <2>1 DEF update
    <2>r. problems'[r.problem] \in ProblemRow
      BY <1>b, <2>2 DEF ProblemRow
    <2>3. ProblemsTypeOK'
      BY <1>a, <1>b, <2>1, <2>2, <2>r DEF ProblemsTypeOK
    <2>4. Evolves(c, r.op, {r.problem})
      BY <1>a, <1>b, <2>1, <2>2 DEF Evolves
    <2>5. QED
      BY <2>3, <2>4
  <1>3. CASE admin_delete_problem(r)
    <2>1. UNCHANGED test_seq
      BY <1>3 DEF admin_delete_problem, remove
    <2>2. /\ DOMAIN problems' = DOMAIN problems \ {r.problem}
          /\ \A p \in DOMAIN problems' : problems'[p] = problems[p]
      BY <1>3 DEF admin_delete_problem, remove, Without
    <2>3. /\ DOMAIN tests' = DOMAIN tests \ TestsOf(r.problem)
          /\ \A t \in DOMAIN tests' : tests'[t] = tests[t]
      BY <1>3 DEF admin_delete_problem, remove, Without
    <2>4. \A t \in DOMAIN tests' : t \in DOMAIN tests /\ tests[t].problem \in DOMAIN problems'
      BY <1>a, <2>2, <2>3 DEF TestsOf
    <2>5. ProblemsTypeOK'
      BY <1>a, <2>1, <2>2, <2>3, <2>4 DEF ProblemsTypeOK
    <2>6. Evolves(c, r.op, {r.problem})
      BY <1>a, <2>1, <2>2, <2>3 DEF Evolves
    <2>7. QED
      BY <2>5, <2>6
  <1>4. QED
    BY <1>1, <1>2, <1>3 DEF admin_write_problem

\* The same for a statement on a test: it moves the revision of its problem on
\* (create_test, update_test, remove_test).
LEMMA TestStatement ==
    ASSUME ProblemsTypeOK, NEW r \in WriteRequest, NEW c \in Nat,
           r.op \in {"problem-test.create", "problem-test.update"} => r.position \in Positions,
           admin_write_test(r, c) \/ admin_delete_test(r)
    PROVE  ProblemsTypeOK' /\ Evolves(c, r.op, {r.problem})
  <1>a. /\ DOMAIN problems \subseteq ProblemIds
        /\ \A p \in DOMAIN problems : problems[p] \in ProblemRow
        /\ \A p \in DOMAIN problems : problems[p].revision \in Nat
        /\ test_seq \in 0 .. MaxTests /\ DOMAIN tests \subseteq 1 .. test_seq
        /\ \A t \in DOMAIN tests : tests[t] \in TestRow /\ tests[t].problem \in DOMAIN problems
        /\ \A t \in DOMAIN tests : tests[t].revision \in Nat
        /\ MaxTests \in Nat
    BY ProblemsAssumption DEF ProblemsTypeOK, ProblemRow, TestRow
  <1>b. r.problem \in ProblemIds /\ r.revision \in Nat
    BY DEF WriteRequest
  <1>1. CASE r.op = "problem-test.create" /\ create_test(r.problem, r.position, TRUE, c)
    <2>1. /\ UNCHANGED problems /\ test_seq' = test_seq + 1 /\ test_seq < MaxTests
          /\ r.problem \in DOMAIN problems
      BY <1>1 DEF create_test
    <2>2. /\ DOMAIN tests' = DOMAIN tests \cup {test_seq + 1}
          /\ tests'[test_seq + 1] =
                [problem |-> r.problem, position |-> r.position, enabled |-> TRUE,
                 revision |-> 1, content |-> c]
          /\ \A t \in DOMAIN tests \ {test_seq + 1} : tests'[t] = tests[t]
      BY <1>1 DEF create_test, NewTest, With
    <2>3. test_seq + 1 \notin DOMAIN tests
      BY <1>a
    <2>r. tests'[test_seq + 1] \in TestRow
      BY <1>1, <1>b, <2>2 DEF TestRow
    <2>4. ProblemsTypeOK'
      BY <1>a, <2>1, <2>2, <2>3, <2>r DEF ProblemsTypeOK
    <2>5. Evolves(c, r.op, {r.problem})
      BY <1>a, <2>1, <2>2, <2>3 DEF Evolves
    <2>6. QED
      BY <2>4, <2>5
  <1>2. CASE /\ r.op = "problem-test.update"
             /\ update_test(r.problem, r.test, r.revision, r.position, TRUE, c)
    <2>1. /\ UNCHANGED <<problems, test_seq>> /\ r.test \in DOMAIN tests
          /\ tests[r.test].problem = r.problem /\ tests[r.test].revision = r.revision
      BY <1>2 DEF update_test, TestsOf
    <2>2. /\ DOMAIN tests' = DOMAIN tests
          /\ tests'[r.test] =
                [problem |-> r.problem, position |-> r.position, enabled |-> TRUE,
                 revision |-> r.revision + 1, content |-> c]
          /\ \A t \in DOMAIN tests \ {r.test} : tests'[t] = tests[t]
      BY <1>2, <2>1 DEF update_test
    <2>3. r.problem \in DOMAIN problems
      BY <1>a, <2>1
    <2>r. tests'[r.test] \in TestRow
      BY <1>2, <1>b, <2>2 DEF TestRow
    <2>4. ProblemsTypeOK'
      BY <1>a, <2>1, <2>2, <2>3, <2>r DEF ProblemsTypeOK
    <2>5. Evolves(c, r.op, {r.problem})
      BY <1>a, <1>b, <2>1, <2>2 DEF Evolves
    <2>6. QED
      BY <2>4, <2>5
  <1>3. CASE admin_delete_test(r)
    <2>1. UNCHANGED <<problems, test_seq>>
      BY <1>3 DEF admin_delete_test, remove_test
    <2>2. /\ DOMAIN tests' = DOMAIN tests \ {r.test}
          /\ \A t \in DOMAIN tests' : tests'[t] = tests[t]
      BY <1>3 DEF admin_delete_test, remove_test, Without
    <2>3. ProblemsTypeOK'
      BY <1>a, <2>1, <2>2 DEF ProblemsTypeOK
    <2>4. Evolves(c, r.op, {r.problem})
      BY <1>a, <2>1, <2>2 DEF Evolves
    <2>5. QED
      BY <2>3, <2>4
  <1>4. QED
    BY <1>1, <1>2, <1>3 DEF admin_write_test

\* insert_missing adds the missing problems with their tests and nothing else.
LEMMA SeedStatement ==
    ASSUME ProblemsTypeOK, NEW c \in Nat, Seed(c)
    PROVE  /\ ProblemsTypeOK' /\ Evolves(c, "seed", Missing)
           /\ Missing = {} => RowsStay
  <1>a. /\ DOMAIN problems \subseteq ProblemIds /\ Missing \subseteq ProblemIds
        /\ \A p \in DOMAIN problems : problems[p] \in ProblemRow
        /\ test_seq \in 0 .. MaxTests /\ DOMAIN tests \subseteq 1 .. test_seq
        /\ \A t \in DOMAIN tests : tests[t] \in TestRow /\ tests[t].problem \in DOMAIN problems
        /\ MaxTests \in Nat /\ DefaultTests \in Nat
    BY ProblemsAssumption DEF ProblemsTypeOK, Missing
  <1>b. IsFiniteSet(Missing)
    BY ProblemsAssumption, FS_Subset DEF Missing
  <1> DEFINE k == Cardinality(Missing)
             order == SetToSeq(Missing)
             added == k * DefaultTests
  <1>c. k \in Nat /\ order \in [1 .. k -> Missing] /\ Len(order) = k
    BY <1>b, SetToSeqFacts
  <1>d. added \in Nat
    BY <1>a, <1>c
  <1>e. test_seq' = test_seq + added /\ test_seq + added <= MaxTests
    BY DEF Seed
  <1>1. /\ DOMAIN problems' = DOMAIN problems \cup Missing
        /\ \A p \in DOMAIN problems : problems'[p] = problems[p]
        /\ \A p \in Missing : problems'[p] = [enabled |-> TRUE, revision |-> 1, content |-> c]
    BY DEF Seed, Joined, NewProblem, Missing
  <1>2. /\ DOMAIN SeededTests(c) = (test_seq + 1) .. (test_seq + added)
        /\ \A t \in DOMAIN SeededTests(c) :
              SeededTests(c)[t] = NewTest(order[(t - test_seq - 1) \div DefaultTests + 1],
                                          (t - test_seq - 1) % DefaultTests, TRUE, c)
    BY <1>c DEF SeededTests
  <1>3. \A t \in DOMAIN SeededTests(c) :
           /\ SeededTests(c)[t] \in TestRow /\ SeededTests(c)[t].problem \in Missing
           /\ SeededTests(c)[t].content = c
    <2> SUFFICES ASSUME NEW t \in DOMAIN SeededTests(c)
                 PROVE  /\ SeededTests(c)[t] \in TestRow
                        /\ SeededTests(c)[t].problem \in Missing
                        /\ SeededTests(c)[t].content = c
      OBVIOUS
    <2> DEFINE n == t - test_seq - 1
    <2>1. n \in Nat /\ n < k * DefaultTests
      BY <1>2, <1>a, <1>d
    <2> HIDE DEF n, k
    <2>2. n \div DefaultTests \in 0 .. (k - 1) /\ n % DefaultTests \in 0 .. (DefaultTests - 1)
      BY <1>a, <1>c, <2>1, GroupOf
    <2>3. order[n \div DefaultTests + 1] \in Missing
      BY <1>c, <2>2
    <2>4. n % DefaultTests \in Positions
      BY <2>2, ProblemsAssumption
    <2>5. SeededTests(c)[t] = NewTest(order[n \div DefaultTests + 1], n % DefaultTests, TRUE, c)
      BY <1>2 DEF n
    <2>6. QED
      BY <1>a, <2>3, <2>4, <2>5 DEF NewTest, TestRow
  <1>4. DOMAIN SeededTests(c) \cap DOMAIN tests = {}
    BY <1>2, <1>a, <1>d
  <1>5. /\ DOMAIN tests' = DOMAIN tests \cup DOMAIN SeededTests(c)
        /\ \A t \in DOMAIN tests : tests'[t] = tests[t]
        /\ \A t \in DOMAIN SeededTests(c) : tests'[t] = SeededTests(c)[t]
    BY <1>4 DEF Seed, Joined
  <1> HIDE DEF added
  <1>6. ProblemsTypeOK'
    <2>r. [enabled |-> TRUE, revision |-> 1, content |-> c] \in ProblemRow
      BY DEF ProblemRow
    <2>1. \A p \in DOMAIN problems' : problems'[p] \in ProblemRow
      BY <1>1, <1>a, <2>r
    <2>2. test_seq' \in 0 .. MaxTests /\ DOMAIN tests' \subseteq 1 .. test_seq'
      BY <1>a, <1>d, <1>e, <1>2, <1>5
    <2>3. \A t \in DOMAIN tests' : tests'[t] \in TestRow /\ tests'[t].problem \in DOMAIN problems'
      BY <1>a, <1>1, <1>3, <1>5
    <2>4. QED
      BY <1>a, <1>1, <2>1, <2>2, <2>3 DEF ProblemsTypeOK
  <1>7. Evolves(c, "seed", Missing)
    BY <1>a, <1>d, <1>e, <1>1, <1>2, <1>3, <1>5 DEF Evolves
  <1>8. Missing = {} => RowsStay
    <2> SUFFICES ASSUME Missing = {} PROVE RowsStay
      OBVIOUS
    <2>1. k = 0 /\ added = 0
      BY FS_EmptySet, <1>a DEF added
    <2>2. test_seq' = test_seq
      BY <1>a, <1>e, <2>1
    <2>3. DOMAIN SeededTests(c) = {}
      BY <1>2, <1>a, <2>1
    <2>4. QED
      BY <1>1, <1>5, <2>2, <2>3 DEF RowsStay
  <1>9. QED
    BY <1>6, <1>7, <1>8

----------------------------------------------------------------------------
\* What was seen stays seen.

SeenStays ==
    /\ \A p, r, c : ProblemSeen(p, r, c, problems, log) => ProblemSeen(p, r, c, problems', log')
    /\ \A t, r, c : TestSeen(t, r, c, tests, test_seq, log) =>
                       TestSeen(t, r, c, tests', test_seq', log')
    /\ DOMAIN log \subseteq DOMAIN log'
    /\ \A i \in DOMAIN log : log'[i] = log[i]

\* Where no row changes, what was seen is still what there is.
LEMMA RowsStayKeeps ==
    ASSUME CatalogInv, RowsStay, UNCHANGED log PROVE CatalogInv' /\ SeenStays
  <1>1. CatalogInv'
    BY DEF CatalogInv, ProblemsTypeOK, RowsStay
  <1>2. \A p, r, c : ProblemSeen(p, r, c, problems, log) => ProblemSeen(p, r, c, problems', log')
    BY DEF ProblemSeen, RowsStay
  <1>3. \A t, r, c : TestSeen(t, r, c, tests, test_seq, log) =>
                        TestSeen(t, r, c, tests', test_seq', log')
    BY DEF TestSeen, RowsStay
  <1>4. QED
    BY <1>1, <1>2, <1>3 DEF SeenStays

\* Neither does a step that leaves the tables alone disturb it.
LEMMA CatalogUnchanged ==
    ASSUME CatalogInv, UNCHANGED catalog, UNCHANGED log PROVE CatalogInv' /\ SeenStays
  <1>1. RowsStay
    BY DEF catalog, RowsStay
  <1>2. QED
    BY <1>1, RowsStayKeeps

\* A change gets the next number, and every row it writes has that content. A
\* row that is no longer the one seen has a higher revision or was created
\* since.
LEMMA ChangeKeeps ==
    ASSUME CatalogInv, ProblemsTypeOK', NEW e \in LogEntry, log' = Append(log, e),
           Evolves(Len(log) + 1, e.op, e.on)
    PROVE  CatalogInv' /\ SeenStays /\ Len(log') = Len(log) + 1 /\ log'[Len(log) + 1] = e
  <1>a. log \in Seq(LogEntry) /\ Len(log) \in Nat
    BY DEF CatalogInv
  <1>b. /\ log' \in Seq(LogEntry) /\ Len(log') = Len(log) + 1
        /\ log'[Len(log) + 1] = e
        /\ \A i \in 1 .. Len(log) : log'[i] = log[i]
        /\ DOMAIN log = 1 .. Len(log) /\ DOMAIN log' = 1 .. (Len(log) + 1)
    BY <1>a
  <1>c. /\ \A p \in DOMAIN problems :
              problems[p].revision \in Nat /\ problems[p].content \in 0 .. Len(log)
        /\ \A t \in DOMAIN tests :
              tests[t].revision \in Nat /\ tests[t].content \in 0 .. Len(log)
        /\ test_seq \in Nat /\ test_seq' \in Nat /\ test_seq' >= test_seq
        /\ DOMAIN tests \subseteq 1 .. test_seq
    BY ProblemsAssumption DEF CatalogInv, ProblemsTypeOK, ProblemRow, TestRow, Evolves
  <1>d. /\ \A p \in DOMAIN problems' : problems'[p].revision \in Nat
        /\ \A t \in DOMAIN tests' : tests'[t].revision \in Nat
    BY DEF ProblemsTypeOK, ProblemRow, TestRow
  <1>1. CatalogInv'
    <2>1. \A p \in DOMAIN problems' : problems'[p].content <= Len(log')
      BY <1>a, <1>b, <1>c DEF Evolves
    <2>2. \A t \in DOMAIN tests' : tests'[t].content <= Len(log')
      BY <1>a, <1>b, <1>c DEF Evolves
    <2>3. QED
      BY <1>b, <2>1, <2>2 DEF CatalogInv
  <1>2. ASSUME NEW p, NEW r, NEW c, ProblemSeen(p, r, c, problems, log)
        PROVE  ProblemSeen(p, r, c, problems', log')
    <2>1. /\ p \in ProblemIds /\ r \in Nat /\ c \in 0 .. Len(log)
          /\ p \in DOMAIN problems =>
                \/ \E j \in (c + 1) .. problems[p].content :
                      log[j].op \in {"problem.create", "seed"} /\ p \in log[j].on
                \/ /\ problems[p].revision >= r
                   /\ problems[p].revision = r => problems[p].content = c
      BY <1>2 DEF ProblemSeen
    <2>c. c \in 0 .. Len(log')
      BY <1>a, <1>b, <2>1
    <2>2. SUFFICES ASSUME p \in DOMAIN problems'
                   PROVE  \/ \E j \in (c + 1) .. problems'[p].content :
                                log'[j].op \in {"problem.create", "seed"} /\ p \in log'[j].on
                          \/ /\ problems'[p].revision >= r
                             /\ problems'[p].revision = r => problems'[p].content = c
      BY <2>1, <2>c DEF ProblemSeen
    <2>3. CASE p \in DOMAIN problems /\ problems'[p] = problems[p]
      BY <1>a, <1>b, <1>c, <2>1, <2>3
    <2>4. CASE /\ problems'[p].content = Len(log) + 1 /\ p \in DOMAIN problems
               /\ problems'[p].revision > problems[p].revision
      BY <1>a, <1>b, <1>c, <1>d, <2>1, <2>2, <2>4
    <2>5. CASE /\ problems'[p].content = Len(log) + 1
               /\ e.op \in {"problem.create", "seed"} /\ p \in e.on
      <3>1. Len(log) + 1 \in (c + 1) .. problems'[p].content
        BY <1>a, <2>1, <2>5
      <3>2. QED
        BY <1>b, <2>5, <3>1
    <2>6. QED
      BY <2>2, <2>3, <2>4, <2>5 DEF Evolves
  <1>3. ASSUME NEW t, NEW r, NEW c, TestSeen(t, r, c, tests, test_seq, log)
        PROVE  TestSeen(t, r, c, tests', test_seq', log')
    <2>1. /\ t \in 1 .. test_seq /\ r \in Nat /\ c \in 0 .. Len(log)
          /\ t \in DOMAIN tests =>
                tests[t].revision >= r /\ (tests[t].revision = r => tests[t].content = c)
      BY <1>3 DEF TestSeen
    <2>2. t \in 1 .. test_seq' /\ c \in 0 .. Len(log')
      BY <1>a, <1>b, <1>c, <2>1
    <2>3. ASSUME t \in DOMAIN tests'
          PROVE  tests'[t].revision >= r /\ (tests'[t].revision = r => tests'[t].content = c)
      <3>1. \/ t \in DOMAIN tests /\ tests'[t] = tests[t]
            \/ t \in DOMAIN tests /\ tests'[t].revision > tests[t].revision
        BY <1>c, <2>1, <2>3 DEF Evolves
      <3>2. QED
        BY <1>c, <1>d, <2>1, <2>3, <3>1
    <2>4. QED
      BY <2>1, <2>2, <2>3 DEF TestSeen
  <1>4. QED
    BY <1>b, <1>1, <1>2, <1>3 DEF SeenStays

----------------------------------------------------------------------------
\* Accounts only grow: while the backend is up passwords stay, a new session
\* has a new token, an old one may end.

AccountsGrow ==
    /\ DOMAIN users \subseteq DOMAIN users'
    /\ up => \A n \in DOMAIN users : users'[n].password = users[n].password
    /\ (up => up') \/ \A x \in Clients : at'[x] = "idle"
    /\ tokens' \in Nat /\ tokens' >= tokens /\ now' \in Nat /\ now' >= now
    /\ \A s \in sessions' : s \in sessions \/ s.token > tokens

\* Neither accounts nor sessions change.
LEMMA AccountsUnchanged ==
    ASSUME AccountInv, UNCHANGED <<accounts, cookie, up>>, faults' \in 0 .. MaxFaults
    PROVE  AccountInv' /\ AccountsGrow
  <1>1. UNCHANGED <<users, given, sessions, tokens, now>>
    BY DEF accounts
  <1>2. tokens \in Nat /\ now \in Nat
    BY AccountsAssumption DEF AccountInv, AccountsTypeOK
  <1>3. AccountsTypeOK' /\ GivenInv'
    BY <1>1 DEF AccountInv, AccountsTypeOK, GivenInv
  <1>4. AccountInv'
    BY <1>1, <1>3 DEF AccountInv
  <1>5. AccountsGrow
    BY <1>1, <1>2 DEF AccountsGrow
  <1>6. QED
    BY <1>4, <1>5

\* The failures of a call are counted.
LEMMA ServerSteps ==
    ASSUME AccountInv, UNCHANGED server \/ Faulty
    PROVE  /\ up' = up /\ faults' \in 0 .. MaxFaults
           /\ faults' = 0 => faults = 0
           /\ Faulty => faults' # 0
  BY SiteAssumption DEF AccountInv, Faulty, server

\* What others do leaves a handler's grounds standing.
LEMMA HandlerStays ==
    ASSUME AccountInv, CatalogInv, AccountsGrow, SeenStays, NEW x \in Clients, HandlerOK(x),
           at'[x] = at[x], request'[x] = request[x], entry'[x] = entry[x]
    PROVE  HandlerOK(x)'
  <1>1. tokens \in Nat /\ tokens' \in Nat /\ tokens' >= tokens
    BY AccountsAssumption DEF AccountInv, AccountsTypeOK, AccountsGrow
  <1>2. at[x] = "session" =>
           /\ up' /\ request[x].user \in DOMAIN users'
           /\ request[x].password = users'[request[x].user].password
    BY DEF HandlerOK, AccountsGrow
  <1>3. ASSUME at[x] \in Writing
        PROVE  /\ request[x].token <= tokens'
               /\ \A s \in sessions' : s.token = request[x].token => s.user = request[x].user
    <2>1. /\ request[x].token \in Nat /\ request[x].token <= tokens
          /\ \A s \in sessions : s.token = request[x].token => s.user = request[x].user
      BY <1>3 DEF HandlerOK, WriteRequest
    <2>2. \A s \in sessions' : s.token = request[x].token => s \in sessions
      BY <1>1, <2>1 DEF AccountsGrow
    <2>3. QED
      BY <1>1, <2>1, <2>2
  <1>4. at[x] \in {"identify", "audit"} =>
           entry[x] \in DOMAIN log' /\ log'[entry[x]] = log[entry[x]]
    BY DEF HandlerOK, SeenStays
  <1>5. QED
    BY <1>2, <1>3, <1>4 DEF HandlerOK

\* An editor whose browser takes no step still shows what was there.
LEMMA ViewStays ==
    ASSUME SeenStays, NEW x \in Clients, ViewOK(x), loaded'[x] = loaded[x],
           at'[x] = at[x], request'[x] = request[x], entry'[x] = entry[x]
    PROVE  ViewOK(x)'
  BY DEF ViewOK, SeenStays, Written

\* An idle handler knows nothing.
LEMMA IdleHandler ==
    ASSUME NEW x \in Clients, at'[x] = "idle", entry'[x] = 0 PROVE HandlerOK(x)'
  BY DEF HandlerOK, Writing

\* So does one whose request has ended without an answer.
LEMMA IdleView ==
    ASSUME SeenStays, NEW x \in Clients, ViewOK(x), loaded'[x] = loaded[x],
           at'[x] \in {"idle", "session"}
    PROVE  ViewOK(x)'
  BY DEF ViewOK, SeenStays, Writing

\* No session with the token is valid.
Ended(token, rows, time) == \A s \in rows : s.token = token => ~(s.expires > time)

\* current_user finds nobody when no session with the token is valid.
LEMMA EndedFor ==
    ASSUME NEW token PROVE current_user(token) = {} <=> Ended(token, sessions, now)
  BY DEF current_user, Ended

\* A session that has ended does not come back.
LEMMA EndedStays ==
    ASSUME AccountInv, AccountsGrow, NEW token \in Nat, token <= tokens,
           Ended(token, sessions, now)
    PROVE  Ended(token, sessions', now')
  <1>1. /\ tokens \in Nat /\ now \in Nat /\ now' \in Nat /\ now' >= now
        /\ \A s \in sessions : s.expires \in Nat
    BY AccountsAssumption DEF AccountInv, AccountsTypeOK, AccountsGrow
  <1>2. \A s \in sessions' : s.token = token => s \in sessions
    BY <1>1 DEF AccountsGrow
  <1>3. QED
    BY <1>1, <1>2 DEF Ended

\* The audit log keeps up with the changes: what a handler lets go of has
\* been recorded, or its session has ended, or a call has failed.
LEMMA AuditKeeps ==
    ASSUME AccountInv, CatalogInv, CatalogInv', AccountsGrow, SeenStays, AuditInv,
           audit \subseteq audit',
           \A row \in audit' \ audit :
              /\ row \in [admin : Names, action : Writes, change : DOMAIN log']
              /\ log'[row.change].op = row.action /\ log'[row.change].user = row.admin,
           \A i \in DOMAIN log' \ DOMAIN log : log'[i].token <= tokens',
           faults' = 0 =>
              /\ faults = 0
              /\ \A x \in Clients :
                    \/ entry'[x] = entry[x] \/ entry[x] = 0
                    \/ \E row \in audit' : row.change = entry[x]
                    \/ Ended(log[entry[x]].token, sessions, now)
              /\ \A i \in DOMAIN log' \ DOMAIN log :
                    log'[i].op = "seed" \/ \E x \in Clients : entry'[x] = i
    PROVE  AuditInv'
  <1>a. DOMAIN log \subseteq DOMAIN log' /\ \A i \in DOMAIN log : log'[i] = log[i] /\ i # 0
    BY DEF SeenStays, CatalogInv
  <1>b. \A i \in DOMAIN log : log[i].token \in Nat /\ log[i].token <= tokens
    <2>1. \A i \in DOMAIN log : log[i] \in LogEntry
      BY DEF CatalogInv
    <2>2. QED
      BY <2>1 DEF AuditInv, LogEntry
  <1>1. audit' \subseteq [admin : Names, action : Writes, change : DOMAIN log']
    BY <1>a DEF AuditInv
  <1>2. \A i \in DOMAIN log' : log'[i].token <= tokens'
    <2>1. tokens \in Nat /\ tokens' \in Nat /\ tokens' >= tokens
      BY AccountsAssumption DEF AccountInv, AccountsTypeOK, AccountsGrow
    <2>2. \A i \in DOMAIN log : log'[i].token <= tokens'
      BY <1>a, <1>b, <2>1
    <2>3. QED
      BY <2>2
  <1>3. \A row \in audit' :
           log'[row.change].op = row.action /\ log'[row.change].user = row.admin
    <2>1. \A row \in audit : row.change \in DOMAIN log
      BY DEF AuditInv
    <2>2. \A row \in audit : log[row.change].op = row.action /\ log[row.change].user = row.admin
      BY DEF AuditInv, AuditMatchesChanges
    <2>3. QED
      BY <1>a, <2>1, <2>2
  <1>4. ASSUME faults' = 0, NEW i \in DOMAIN log'
        PROVE  \/ log'[i].op = "seed"
               \/ \E row \in audit' : row.change = i
               \/ \E x \in Clients : entry'[x] = i
               \/ Ended(log'[i].token, sessions', now')
    <2>1. CASE i \notin DOMAIN log
      BY <1>4, <2>1
    <2>2. CASE i \in DOMAIN log
      <3>1. \/ log[i].op = "seed"
            \/ \E row \in audit : row.change = i
            \/ \E x \in Clients : entry[x] = i
            \/ Ended(log[i].token, sessions, now)
        BY <1>4, <2>2, EndedFor DEF AuditInv, AuditMatchesChanges
      <3>2. Ended(log[i].token, sessions, now) => Ended(log'[i].token, sessions', now')
        BY <1>a, <1>b, <2>2, EndedStays
      <3>3. CASE \E x \in Clients : entry[x] = i
        BY <1>4, <1>a, <2>2, <3>2, <3>3
      <3>4. QED
        BY <1>a, <2>2, <3>1, <3>2, <3>3
    <2>3. QED
      BY <2>1, <2>2
  <1>5. faults' = 0 =>
           \A i \in DOMAIN log' :
              \/ log'[i].op = "seed"
              \/ \E row \in audit' : row.change = i
              \/ \E x \in Clients : entry'[x] = i
              \/ {s.user : s \in {r \in sessions' : r.token = log'[i].token /\ r.expires > now'}} = {}
    BY <1>4 DEF Ended
  <1>6. AuditMatchesChanges'
    BY <1>3, <1>5 DEF AuditMatchesChanges, current_user
  <1>7. QED
    BY <1>1, <1>2, <1>6 DEF AuditInv

\* An edit once explained stays explained.
LEMMA EditsStay ==
    ASSUME CatalogInv, CatalogInv', SeenStays, EditInv,
           \A i \in DOMAIN log' \ DOMAIN log :
              /\ log'[i].over <= Len(log')
              /\ log'[i].op \in Edits =>
                    \/ log'[i].base = log'[i].over
                    \/ /\ log'[i].op = "problem.update"
                       /\ \E p \in log'[i].on : \E j \in (log'[i].base + 1) .. log'[i].over :
                             log'[j].op \in {"problem.create", "seed"} /\ p \in log'[j].on
    PROVE  EditInv'
  <1>a. /\ log \in Seq(LogEntry) /\ log' \in Seq(LogEntry)
        /\ DOMAIN log = 1 .. Len(log) /\ DOMAIN log' = 1 .. Len(log')
        /\ Len(log) \in Nat /\ Len(log') \in Nat
    BY DEF CatalogInv
  <1>b. Len(log') >= Len(log) /\ \A i \in DOMAIN log : log'[i] = log[i] /\ i \in DOMAIN log'
    <2>1. Len(log) = 0 \/ Len(log) \in DOMAIN log
      BY <1>a
    <2>2. DOMAIN log \subseteq DOMAIN log' /\ \A i \in DOMAIN log : log'[i] = log[i]
      BY DEF SeenStays
    <2>3. QED
      BY <1>a, <2>1, <2>2
  <1>c. \A i \in DOMAIN log : log[i].base \in Nat /\ log[i].over \in Nat
    <2>1. \A i \in DOMAIN log : log[i] \in LogEntry
      BY <1>a
    <2>2. QED
      BY <2>1 DEF LogEntry
  <1>1. \A i \in DOMAIN log' : log'[i].over <= Len(log')
    <2>1. \A i \in DOMAIN log : log[i].over <= Len(log)
      BY DEF EditInv
    <2>2. \A i \in DOMAIN log : log'[i].over <= Len(log')
      BY <1>a, <1>b, <1>c, <2>1
    <2>3. QED
      BY <2>2
  <1>2. ASSUME NEW i \in DOMAIN log', log'[i].op \in Edits
        PROVE  \/ log'[i].base = log'[i].over
               \/ /\ log'[i].op = "problem.update"
                  /\ \E p \in log'[i].on : \E j \in (log'[i].base + 1) .. log'[i].over :
                        log'[j].op \in {"problem.create", "seed"} /\ p \in log'[j].on
    <2>1. CASE i \notin DOMAIN log
      BY <1>2, <2>1
    <2>2. CASE i \in DOMAIN log
      <3>1. log'[i] = log[i]
        BY <1>b, <2>2
      <3>2. \/ log[i].base = log[i].over
            \/ /\ log[i].op = "problem.update"
               /\ \E p \in log[i].on : \E j \in (log[i].base + 1) .. log[i].over :
                     log[j].op \in {"problem.create", "seed"} /\ p \in log[j].on
        BY <1>2, <2>2, <3>1 DEF EditInv, EditsReplaceWhatWasLoaded, Restarted
      <3>3. \A j \in (log[i].base + 1) .. log[i].over : log'[j] = log[j]
        <4>1. (log[i].base + 1) .. log[i].over \subseteq DOMAIN log
          BY <1>a, <1>c, <2>2 DEF EditInv
        <4>2. QED
          BY <1>b, <4>1
      <3>4. QED
        BY <3>1, <3>2, <3>3
    <2>3. QED
      BY <2>1, <2>2
  <1>3. EditsReplaceWhatWasLoaded'
    BY <1>2 DEF EditsReplaceWhatWasLoaded, Restarted
  <1>4. QED
    BY <1>1, <1>3 DEF EditInv

----------------------------------------------------------------------------
\* Steps that leave the catalog and its history alone.

States == {"idle", "session", "tests", "change", "identify", "audit"}

\* The handlers and editors of others stay as they are.
OnlyOf(x) ==
    /\ at' \in [Clients -> States]
    /\ DOMAIN request' = Clients /\ DOMAIN entry' = Clients /\ DOMAIN loaded' = Clients
    /\ \A y \in Clients \ {x} :
          /\ at'[y] = at[y] /\ request'[y] = request[y]
          /\ entry'[y] = entry[y] /\ loaded'[y] = loaded[y]

\* The step of one browser: the others' handlers and editors stay as they are.
LEMMA ClientStep ==
    ASSUME SiteInv, NEW x \in Clients, OnlyOf(x), AccountInv', AccountsGrow, CatalogInv',
           SeenStays, AuditInv', EditInv', HandlerOK(x)', ViewOK(x)'
    PROVE  SiteInv'
  <1>1. \A y \in Clients : HandlerOK(y)'
    <2> SUFFICES ASSUME NEW y \in Clients PROVE HandlerOK(y)'
      OBVIOUS
    <2>1. CASE y = x
      BY <2>1
    <2>2. CASE y # x
      BY <2>2, HandlerStays DEF SiteInv, HandlerInv, OnlyOf
    <2>3. QED
      BY <2>1, <2>2
  <1>2. \A y \in Clients : ViewOK(y)'
    <2> SUFFICES ASSUME NEW y \in Clients PROVE ViewOK(y)'
      OBVIOUS
    <2>1. CASE y = x
      BY <2>1
    <2>2. CASE y # x
      BY <2>2, ViewStays DEF SiteInv, ViewInv, OnlyOf
    <2>3. QED
      BY <2>1, <2>2
  <1>3. HandlerInv' /\ ViewInv'
    BY <1>1, <1>2 DEF HandlerInv, ViewInv, OnlyOf, States
  <1>4. QED
    BY <1>3 DEF SiteInv

\* Nothing is written to the catalog or to the audit log.
LEMMA QuietHistory ==
    ASSUME SiteInv, UNCHANGED catalog, UNCHANGED history, AccountsGrow,
           faults' = 0 =>
              /\ faults = 0
              /\ \A x \in Clients : \/ entry'[x] = entry[x]
                                    \/ Ended(log[entry[x]].token, sessions, now)
    PROVE  CatalogInv' /\ SeenStays /\ AuditInv' /\ EditInv'
  <1>1. UNCHANGED log /\ UNCHANGED audit
    BY DEF history
  <1>2. CatalogInv' /\ SeenStays
    BY <1>1, CatalogUnchanged DEF SiteInv
  <1>3. AuditInv'
    BY <1>1, <1>2, AuditKeeps DEF SiteInv
  <1>4. EditInv'
    BY <1>1, <1>2, EditsStay DEF SiteInv
  <1>5. QED
    BY <1>2, <1>3, <1>4

\* What the types say of the accounts, one by one.
LEMMA AccountFacts ==
    ASSUME AccountInv
    PROVE  /\ DOMAIN users \subseteq Names /\ tokens \in Nat /\ now \in Nat
           /\ \A n \in DOMAIN users : users[n].password \in Passwords
           /\ \A s \in sessions : /\ s.token \in 1 .. tokens /\ s.user \in DOMAIN users
                                  /\ s.expires \in Nat
           /\ cookie \in [Clients -> 0 .. tokens]
  BY AccountsAssumption DEF AccountInv, AccountsTypeOK

\* An account is given a password; what it and the others were given before
\* stays.
LEMMA GivesKeeps ==
    ASSUME AccountInv, NEW n \in Names, NEW p \in Passwords, NEW rights \in BOOLEAN,
           Gives(n, p, rights), UNCHANGED <<sessions, tokens, now>>,
           n \in DOMAIN users => rights,
           users' = With(users, n, [password |-> p, is_admin |-> rights])
    PROVE  AccountsTypeOK' /\ GivenInv'
  <1> DEFINE before == IF n \in DOMAIN users THEN given[n] ELSE << >>
             g == [password |-> p, rights |-> rights]
  <1>a. /\ DOMAIN users' = DOMAIN users \cup {n}
        /\ users'[n] = [password |-> p, is_admin |-> rights]
        /\ \A k \in DOMAIN users \ {n} : users'[k] = users[k]
    BY DEF With
  <1>b. /\ DOMAIN given' = DOMAIN users \cup {n}
        /\ given'[n] = Append(before, g)
        /\ \A k \in DOMAIN users \ {n} : given'[k] = given[k]
    BY DEF Gives, With, AccountInv, AccountsTypeOK
  <1>c. /\ users'[n] \in [password : Passwords, is_admin : BOOLEAN]
        /\ users'[n].password = p /\ users'[n].is_admin = rights
        /\ g \in Given /\ g.password = p /\ g.rights = rights
    BY <1>a DEF Given
  <1>1. AccountsTypeOK'
    BY <1>a, <1>b, <1>c DEF AccountInv, AccountsTypeOK
  <1>2. before \in Seq(Given) /\ (n \in DOMAIN users => before = given[n])
    BY DEF AccountInv, GivenInv
  <1>3. before # << >> => n \in DOMAIN users
    OBVIOUS
  <1>4. n \notin DOMAIN users => before = << >>
    OBVIOUS
  <1> HIDE DEF before, g
  <1>5. /\ given'[n] \in Seq(Given) /\ Len(given'[n]) = Len(before) + 1 /\ Len(before) \in Nat
        /\ given'[n][Len(before) + 1] = g
        /\ \A i \in 1 .. Len(before) : given'[n][i] = before[i]
    BY <1>b, <1>c, <1>2
  <1>6. ASSUME NEW k \in DOMAIN users'
        PROVE  /\ given'[k] \in Seq(Given) /\ Len(given'[k]) > 0
               /\ users'[k].password = given'[k][Len(given'[k])].password
               /\ users'[k].is_admin => \E i \in 1 .. Len(given'[k]) : given'[k][i].rights
               /\ \A i \in 2 .. Len(given'[k]) : given'[k][i].rights
    <2>1. CASE k # n
      BY <1>6, <2>1, <1>a, <1>b DEF AccountInv, GivenInv
    <2>2. CASE k = n
      <3>1. Len(given'[n]) > 0 /\ users'[n].password = given'[n][Len(given'[n])].password
        BY <1>5, <1>c
      <3>2. users'[n].is_admin => \E i \in 1 .. Len(given'[n]) : given'[n][i].rights
        <4>1. Len(before) + 1 \in 1 .. Len(given'[n])
          BY <1>5
        <4>2. given'[n][Len(before) + 1].rights = users'[n].is_admin
          BY <1>5, <1>c
        <4>3. QED
          BY <4>1, <4>2, Zenon
      <3>3. ASSUME NEW i \in 2 .. Len(given'[n]) PROVE given'[n][i].rights
        <4>1. n \in DOMAIN users /\ before = given[n]
          BY <3>3, <1>2, <1>4, <1>5
        <4>2. CASE i = Len(before) + 1
          BY <4>1, <4>2, <1>5, <1>c
        <4>3. CASE i \in 2 .. Len(before)
          BY <4>1, <4>3, <1>5 DEF AccountInv, GivenInv
        <4>4. QED
          BY <3>3, <1>5, <4>2, <4>3
      <3>4. QED
        BY <2>2, <3>1, <3>2, <3>3, <1>5
    <2>3. QED
      BY <2>1, <2>2
  <1>7. ASSUME NEW s \in sessions'
        PROVE  /\ s.version \in 0 .. Len(given'[s.user])
               /\ s.version > 0 => s.proof = given'[s.user][s.version].password
    <2>1. /\ s \in sessions /\ s.user \in DOMAIN users
          /\ s.version \in 0 .. Len(given[s.user])
          /\ s.version > 0 => s.proof = given[s.user][s.version].password
          /\ given[s.user] \in Seq(Given)
      BY <1>7 DEF AccountInv, AccountsTypeOK, GivenInv
    <2>2. CASE s.user # n
      BY <2>1, <2>2, <1>b
    <2>3. CASE s.user = n
      <3>1. before = given[n]
        BY <2>1, <2>3, <1>2
      <3>2. QED
        BY <2>1, <2>3, <3>1, <1>5
    <2>4. QED
      BY <2>2, <2>3
  <1>8. QED
    BY <1>1, <1>6, <1>7 DEF GivenInv

\* A new account is no administrator's, and takes no name that is used.
LEMMA InsertsUserKeeps ==
    ASSUME AccountInv, NEW n \in Names, NEW p \in Passwords, InsertsUser(n, p),
           up, UNCHANGED <<cookie, up, faults>>
    PROVE  /\ AccountInv' /\ AccountsGrow
           /\ n \in DOMAIN users' /\ users'[n].password = p
  <1>a. /\ n \notin DOMAIN users /\ DOMAIN users' = DOMAIN users \cup {n}
        /\ users'[n] = [password |-> p, is_admin |-> FALSE]
        /\ \A k \in DOMAIN users : users'[k] = users[k]
        /\ UNCHANGED <<sessions, tokens, now>>
    BY DEF InsertsUser, With
  <1>1. AccountsTypeOK' /\ GivenInv'
    BY <1>a, GivesKeeps DEF InsertsUser
  <1>2. users'[n].password = p
    BY <1>a
  <1>3. AccountInv'
    BY <1>a, <1>1 DEF AccountInv
  <1>4. AccountsGrow
    BY <1>a, AccountFacts DEF AccountsGrow
  <1>5. QED
    BY <1>a, <1>2, <1>3, <1>4

\* register_user, up to the account.
LEMMA register_userStep ==
    ASSUME SiteInv, NEW x \in Clients, register_user(x) PROVE SiteInv'
  <1>1. PICK n \in Names, p \in Passwords :
           InsertsUser(n, p) /\ Asks(x, [op |-> "session", user |-> n, password |-> p])
    BY DEF register_user
  <1>2. /\ up /\ UNCHANGED <<cookie, up, faults>> /\ UNCHANGED <<loaded, entry>>
        /\ UNCHANGED catalog /\ UNCHANGED history
        /\ at[x] = "idle" /\ at' = [at EXCEPT ![x] = "session"]
    BY DEF register_user, Moves, server, client
  <1>3. AccountInv' /\ AccountsGrow /\ n \in DOMAIN users' /\ users'[n].password = p
    BY <1>1, <1>2, InsertsUserKeeps DEF SiteInv
  <1>4. CatalogInv' /\ SeenStays /\ AuditInv' /\ EditInv'
    BY <1>2, <1>3, QuietHistory
  <1>5. /\ at'[x] = "session" /\ request'[x] = [op |-> "session", user |-> n, password |-> p]
        /\ OnlyOf(x)
    BY <1>1, <1>2 DEF Asks, SiteInv, HandlerInv, ViewInv, OnlyOf, States
  <1>6. HandlerOK(x)'
    BY <1>2, <1>3, <1>5 DEF HandlerOK, Writing, SiteInv, HandlerInv
  <1>7. ViewOK(x)'
    BY <1>2, <1>4, <1>5, IdleView DEF SiteInv, ViewInv
  <1>8. QED
    BY <1>3, <1>4, <1>5, <1>6, <1>7, ClientStep

\* login, up to the check of the password.
LEMMA loginStep ==
    ASSUME SiteInv, NEW x \in Clients, login(x) PROVE SiteInv'
  <1>1. PICK n \in DOMAIN users :
           Asks(x, [op |-> "session", user |-> n, password |-> users[n].password])
    BY DEF login
  <1>2. /\ UNCHANGED <<accounts, cookie, up>> /\ faults' = faults /\ UNCHANGED <<loaded, entry>>
        /\ UNCHANGED catalog /\ UNCHANGED history /\ UNCHANGED users /\ up
        /\ at[x] = "idle" /\ at' = [at EXCEPT ![x] = "session"]
    BY DEF login, Moves, server, client, accounts
  <1>3. AccountInv' /\ AccountsGrow
    <2>1. faults' \in 0 .. MaxFaults
      BY <1>2 DEF SiteInv, AccountInv
    <2>2. QED
      BY <1>2, <2>1, AccountsUnchanged DEF SiteInv
  <1>4. CatalogInv' /\ SeenStays /\ AuditInv' /\ EditInv'
    BY <1>2, <1>3, QuietHistory
  <1>5. /\ at'[x] = "session" /\ OnlyOf(x)
        /\ request'[x] = [op |-> "session", user |-> n, password |-> users[n].password]
    BY <1>1, <1>2 DEF Asks, SiteInv, HandlerInv, ViewInv, OnlyOf, States
  <1>6. HandlerOK(x)'
    BY <1>2, <1>5 DEF HandlerOK, Writing, SiteInv, HandlerInv
  <1>7. ViewOK(x)'
    BY <1>2, <1>4, <1>5, IdleView DEF SiteInv, ViewInv
  <1>8. QED
    BY <1>3, <1>4, <1>5, <1>6, <1>7, ClientStep

\* A new session has a token of its own and the password of its account.
LEMMA InsertsSessionKeeps ==
    ASSUME AccountInv, NEW x \in Clients, NEW n \in DOMAIN users,
           InsertsSession(n, users[n].password),
           cookie' = [cookie EXCEPT ![x] = tokens + 1], UNCHANGED <<up, faults>>
    PROVE  AccountInv' /\ AccountsGrow
  <1> DEFINE new == [token |-> tokens + 1, user |-> n, expires |-> now + Lifetime,
                     proof |-> users[n].password, version |-> Len(given[n])]
  <1>a. /\ tokens < MaxSessions /\ tokens' = tokens + 1 /\ sessions' = sessions \cup {new}
        /\ UNCHANGED <<users, given, now>>
    BY DEF InsertsSession
  <1>b. tokens \in Nat /\ now \in Nat /\ Lifetime \in Nat /\ MaxSessions \in Nat
    BY AccountFacts, AccountsAssumption
  <1>n. /\ given[n] \in Seq(Given) /\ Len(given[n]) \in Nat \ {0}
        /\ users[n].password = given[n][Len(given[n])].password
    BY DEF AccountInv, GivenInv
  <1>c. new \in [token : 1 .. (tokens + 1), user : DOMAIN users, expires : Nat, proof : Passwords,
                version : Nat]
    BY <1>b, <1>n, AccountFacts
  <1>d. \A s \in sessions : s \in [token : 1 .. (tokens + 1), user : DOMAIN users, expires : Nat,
                                   proof : Passwords, version : Nat] /\ s.token # tokens + 1
    BY <1>b DEF AccountInv, AccountsTypeOK
  <1>e. /\ new.token = tokens + 1 /\ new.user = n /\ new.proof = users[n].password
        /\ new.version = Len(given[n])
    OBVIOUS
  <1> HIDE DEF new
  <1>1. AccountsTypeOK'
    BY <1>a, <1>b, <1>c, <1>d DEF AccountInv, AccountsTypeOK
  <1>2. cookie' \in [Clients -> 0 .. tokens']
    BY <1>a, <1>b, AccountFacts
  <1>g. GivenInv'
    <2>1. \A s \in sessions' : s \in sessions \/ s = new
      BY <1>a
    <2>2. \A s \in sessions' : /\ s.version \in 0 .. Len(given[s.user])
                               /\ s.version > 0 => s.proof = given[s.user][s.version].password
      BY <2>1, <1>e, <1>n DEF AccountInv, GivenInv
    <2>3. QED
      BY <2>2, <1>a DEF AccountInv, GivenInv
  <1>3. AccountInv'
    BY <1>1, <1>2, <1>a, <1>d, <1>e, <1>g DEF AccountInv
  <1>4. AccountsGrow
    BY <1>a, <1>b, <1>e DEF AccountsGrow
  <1>5. QED
    BY <1>3, <1>4

\* create_session, after a registration or a login.
LEMMA OpenSessionStep ==
    ASSUME SiteInv, NEW x \in Clients, OpenSession(x) PROVE SiteInv'
  <1>1. /\ UNCHANGED <<loaded, entry>> /\ UNCHANGED catalog /\ UNCHANGED history
        /\ at[x] = "session" /\ at' = [at EXCEPT ![x] = "idle"]
        /\ request' = [request EXCEPT ![x] = Nothing]
    BY DEF OpenSession, Moves, Asks
  <1>2. request[x].user \in DOMAIN users /\ request[x].password = users[request[x].user].password
    BY <1>1 DEF SiteInv, HandlerInv, HandlerOK
  <1>3. AccountInv' /\ AccountsGrow /\ (faults' = 0 => faults = 0)
    <2>1. CASE /\ InsertsSession(request[x].user, request[x].password)
               /\ cookie' = [cookie EXCEPT ![x] = tokens + 1] /\ UNCHANGED server
      BY <1>2, <2>1, InsertsSessionKeeps DEF SiteInv, server
    <2>2. CASE Faulty /\ UNCHANGED <<accounts, cookie>>
      BY <2>2, ServerSteps, AccountsUnchanged DEF SiteInv
    <2>3. QED
      BY <2>1, <2>2 DEF OpenSession
  <1>4. CatalogInv' /\ SeenStays /\ AuditInv' /\ EditInv'
    BY <1>1, <1>3, QuietHistory
  <1>5. at'[x] = "idle" /\ OnlyOf(x) /\ entry'[x] = 0
    BY <1>1 DEF SiteInv, HandlerInv, HandlerOK, ViewInv, OnlyOf, States
  <1>6. HandlerOK(x)'
    BY <1>5, IdleHandler
  <1>7. ViewOK(x)'
    BY <1>1, <1>4, <1>5, IdleView DEF SiteInv, ViewInv
  <1>8. QED
    BY <1>3, <1>4, <1>5, <1>6, <1>7, ClientStep

\* logout deletes the session, or fails and leaves the cookie.
LEMMA logoutStep ==
    ASSUME SiteInv, NEW x \in Clients, logout(x) PROVE SiteInv'
  <1>1. /\ UNCHANGED <<at, request, loaded, entry>> /\ UNCHANGED catalog /\ UNCHANGED history
    BY DEF logout, handler
  <1>2. AccountInv' /\ AccountsGrow /\ (faults' = 0 => faults = 0)
    <2>1. CASE /\ DeletesSession(cookie[x]) /\ cookie' = [cookie EXCEPT ![x] = 0]
               /\ UNCHANGED server
      <3>1. /\ sessions' \subseteq sessions
            /\ UNCHANGED <<users, given, tokens, now, up, faults>>
            /\ cookie' \in [Clients -> 0 .. tokens]
        BY <2>1, AccountFacts DEF DeletesSession, server, SiteInv
      <3>2. AccountsTypeOK' /\ GivenInv'
        BY <3>1 DEF SiteInv, AccountInv, AccountsTypeOK, GivenInv
      <3>3. AccountInv'
        BY <3>1, <3>2 DEF SiteInv, AccountInv
      <3>4. AccountsGrow
        BY <3>1, AccountFacts DEF SiteInv, AccountsGrow
      <3>5. QED
        BY <3>1, <3>3, <3>4
    <2>2. CASE Faulty /\ UNCHANGED <<accounts, cookie>>
      BY <2>2, ServerSteps, AccountsUnchanged DEF SiteInv
    <2>3. QED
      BY <2>1, <2>2 DEF logout
  <1>3. CatalogInv' /\ SeenStays /\ AuditInv' /\ EditInv'
    BY <1>1, <1>2, QuietHistory
  <1>4. OnlyOf(x)
    BY <1>1 DEF SiteInv, HandlerInv, ViewInv, OnlyOf, States
  <1>5. HandlerOK(x)'
    BY <1>1, <1>2, <1>3, HandlerStays DEF SiteInv, HandlerInv
  <1>6. ViewOK(x)'
    BY <1>1, <1>3, ViewStays DEF SiteInv, ViewInv
  <1>7. QED
    BY <1>2, <1>3, <1>4, <1>5, <1>6, ClientStep

\* The row of a problem, and those of its tests, are what they are.
LEMMA ReadsSee ==
    ASSUME CatalogInv
    PROVE  /\ \A p \in DOMAIN problems :
                 ProblemSeen(p, problems[p].revision, problems[p].content, problems, log)
           /\ \A t \in DOMAIN tests :
                 TestSeen(t, tests[t].revision, tests[t].content, tests, test_seq, log)
  <1>1. /\ DOMAIN problems \subseteq ProblemIds /\ DOMAIN tests \subseteq 1 .. test_seq
        /\ \A p \in DOMAIN problems :
              problems[p].revision \in Nat /\ problems[p].content \in 0 .. Len(log)
        /\ \A t \in DOMAIN tests :
              tests[t].revision \in Nat /\ tests[t].content \in 0 .. Len(log)
    BY DEF CatalogInv, ProblemsTypeOK, ProblemRow, TestRow
  <1>2. QED
    BY <1>1 DEF ProblemSeen, TestSeen

\* The read of a problem for the editor: its row,
LEMMA admin_get_problemStep ==
    ASSUME SiteInv, NEW x \in Clients, admin_get_problem(x) PROVE SiteInv'
  <1>1. PICK p \in DOMAIN problems :
           Asks(x, [op |-> "load", problem |-> p, revision |-> problems[p].revision,
                    content |-> problems[p].content])
    BY DEF admin_get_problem
  <1>2. /\ UNCHANGED <<accounts, cookie, up>> /\ faults' = faults /\ UNCHANGED <<loaded, entry>>
        /\ UNCHANGED catalog /\ UNCHANGED history
        /\ at[x] = "idle" /\ at' = [at EXCEPT ![x] = "tests"]
    BY DEF admin_get_problem, Moves, server, client
  <1>3. AccountInv' /\ AccountsGrow
    <2>1. faults' \in 0 .. MaxFaults
      BY <1>2 DEF SiteInv, AccountInv
    <2>2. QED
      BY <1>2, <2>1, AccountsUnchanged DEF SiteInv
  <1>4. CatalogInv' /\ SeenStays /\ AuditInv' /\ EditInv'
    BY <1>2, <1>3, QuietHistory
  <1>5. /\ at'[x] = "tests" /\ OnlyOf(x)
        /\ request'[x] = [op |-> "load", problem |-> p, revision |-> problems[p].revision,
                          content |-> problems[p].content]
    BY <1>1, <1>2 DEF Asks, SiteInv, HandlerInv, ViewInv, OnlyOf, States
  <1>6. HandlerOK(x)'
    BY <1>2, <1>5 DEF HandlerOK, Writing, SiteInv, HandlerInv
  <1>7. ViewOK(x)'
    <2>1. ProblemSeen(p, problems[p].revision, problems[p].content, problems', log')
      BY <1>4, ReadsSee DEF SiteInv, SeenStays
    <2>2. /\ loaded'[x] # NothingLoaded =>
                ProblemSeen(loaded'[x].problem, loaded'[x].revision, loaded'[x].content,
                            problems', log')
          /\ \A t \in DOMAIN loaded'[x].tests :
                TestSeen(t, loaded'[x].tests[t].revision, loaded'[x].tests[t].content,
                         tests', test_seq', log')
      BY <1>2, <1>4 DEF SiteInv, ViewInv, ViewOK, SeenStays
    <2>3. QED
      BY <1>5, <2>1, <2>2 DEF ViewOK, Writing
  <1>8. QED
    BY <1>3, <1>4, <1>5, <1>6, <1>7, ClientStep

\* and its tests, by a query of its own.
LEMMA LoadTestsStep ==
    ASSUME SiteInv, NEW x \in Clients, LoadTests(x) PROVE SiteInv'
  <1>1. /\ UNCHANGED <<accounts, cookie>> /\ UNCHANGED entry
        /\ UNCHANGED catalog /\ UNCHANGED history /\ (UNCHANGED server \/ Faulty)
        /\ at[x] = "tests" /\ at' = [at EXCEPT ![x] = "idle"]
        /\ request' = [request EXCEPT ![x] = Nothing]
    BY DEF LoadTests, Moves, Asks
  <1>2. AccountInv' /\ AccountsGrow /\ (faults' = 0 => faults = 0)
    BY <1>1, ServerSteps, AccountsUnchanged DEF SiteInv
  <1>3. CatalogInv' /\ SeenStays /\ AuditInv' /\ EditInv'
    BY <1>1, <1>2, QuietHistory
  <1> DEFINE p == request[x].problem
             shown == [t \in TestsOf(p) |-> [revision |-> tests[t].revision,
                                             content |-> tests[t].content]]
  <1>4. \/ loaded' = [loaded EXCEPT ![x] = Loaded(p, request[x], shown)]
        \/ loaded' = loaded
    BY DEF LoadTests
  <1>5. at'[x] = "idle" /\ OnlyOf(x) /\ entry'[x] = 0
    BY <1>1, <1>4 DEF SiteInv, HandlerInv, HandlerOK, ViewInv, OnlyOf, States
  <1>6. HandlerOK(x)'
    BY <1>5, IdleHandler
  <1>7. ViewOK(x)'
    <2>1. CASE loaded' = loaded
      BY <1>3, <1>5, <2>1, IdleView DEF SiteInv, ViewInv
    <2>2. CASE loaded' = [loaded EXCEPT ![x] = Loaded(p, request[x], shown)]
      <3>1. /\ loaded'[x].problem = p /\ loaded'[x].revision = request[x].revision
            /\ loaded'[x].content = request[x].content /\ loaded'[x].tests = shown
        BY <2>2 DEF SiteInv, ViewInv, Loaded
      <3>2. ProblemSeen(p, request[x].revision, request[x].content, problems', log')
        BY <1>1, <1>3 DEF SiteInv, ViewInv, ViewOK, SeenStays
      <3>3. \A t \in DOMAIN shown :
               TestSeen(t, shown[t].revision, shown[t].content, tests', test_seq', log')
        <4>1. \A t \in DOMAIN shown : /\ t \in DOMAIN tests
                                      /\ shown[t].revision = tests[t].revision
                                      /\ shown[t].content = tests[t].content
          BY DEF TestsOf
        <4>2. QED
          BY <1>3, <4>1, ReadsSee DEF SiteInv, SeenStays
      <3> HIDE DEF p, shown
      <3>4. QED
        BY <1>5, <3>1, <3>2, <3>3 DEF ViewOK, Writing
    <2>3. QED
      BY <1>4, <2>1, <2>2
  <1>8. QED
    BY <1>2, <1>3, <1>5, <1>6, <1>7, ClientStep

\* A request to write carries what its sender's editor holds.
LEMMA RequestFacts ==
    ASSUME SiteInv, NEW x \in Clients, NEW r \in RequestsOf(x)
    PROVE  /\ r \in [op : Writes, problem : ProblemIds, test : Nat,
                     position : Positions \cup {0}, revision : Nat, base : Nat,
                     user : {"none"}, token : {0}, admin : {"none"}]
           /\ r.op \in {"problem-test.create", "problem-test.update"} => r.position \in Positions
           /\ r.op # "problem.create" => loaded[x] # NothingLoaded
           /\ r.op = "problem.update" =>
                 ProblemSeen(r.problem, r.revision, r.base, problems, log)
           /\ r.op = "problem-test.update" =>
                 TestSeen(r.test, r.revision, r.base, tests, test_seq, log)
  <1>a. /\ loaded[x] # NothingLoaded =>
              ProblemSeen(loaded[x].problem, loaded[x].revision, loaded[x].content, problems, log)
        /\ \A t \in DOMAIN loaded[x].tests :
              TestSeen(t, loaded[x].tests[t].revision, loaded[x].tests[t].content,
                       tests, test_seq, log)
    BY DEF SiteInv, ViewInv, ViewOK
  <1>b. /\ loaded[x] # NothingLoaded =>
              /\ loaded[x].problem \in ProblemIds
              /\ loaded[x].revision \in Nat /\ loaded[x].content \in Nat
        /\ \A t \in DOMAIN loaded[x].tests :
              /\ t \in Nat /\ loaded[x].tests[t].revision \in Nat
              /\ loaded[x].tests[t].content \in Nat
    <2>1. test_seq \in Nat
      BY ProblemsAssumption DEF SiteInv, CatalogInv, ProblemsTypeOK
    <2>2. QED
      BY <1>a, <2>1 DEF ProblemSeen, TestSeen
  <1>1. CASE \E p \in ProblemIds : r = Request("problem.create", p, 0, 0, 0, 0)
    BY <1>1 DEF Request, Writes
  <1>2. CASE /\ loaded[x] # NothingLoaded
             /\ \E op \in {"problem.update", "problem.delete"} :
                   r = Request(op, loaded[x].problem, 0, 0, loaded[x].revision, loaded[x].content)
    BY <1>2, <1>a, <1>b DEF Request, Writes, Edits
  <1>3. CASE /\ loaded[x] # NothingLoaded
             /\ \E k \in Positions : r = Request("problem-test.create", loaded[x].problem, 0, k, 0, 0)
    BY <1>3, <1>b DEF Request, Writes
  <1>4. CASE /\ loaded[x] # NothingLoaded
             /\ \E op \in {"problem-test.update", "problem-test.delete"},
                   t \in DOMAIN loaded[x].tests, k \in Positions :
                   r = Request(op, loaded[x].problem, t, k, loaded[x].tests[t].revision,
                               loaded[x].tests[t].content)
    BY <1>4, <1>a, <1>b DEF Request, Writes, Edits
  <1>5. QED
    BY <1>1, <1>2, <1>3, <1>4 DEF RequestsOf, CreateRequests, ProblemRequests, TestRequests

\* A request passes require_admin with a session of an administrator.
LEMMA require_adminStep ==
    ASSUME SiteInv, NEW x \in Clients, require_admin(x) PROVE SiteInv'
  <1>1. PICK user \in current_user(cookie[x]), r \in RequestsOf(x) :
           Asks(x, [r EXCEPT !.user = user, !.token = cookie[x]])
    BY DEF require_admin
  <1>2. /\ UNCHANGED <<accounts, cookie, up>> /\ faults' = faults /\ UNCHANGED <<loaded, entry>>
        /\ UNCHANGED catalog /\ UNCHANGED history
        /\ UNCHANGED <<sessions, tokens, problems, tests, test_seq, log>>
        /\ at[x] = "idle" /\ at' = [at EXCEPT ![x] = "change"]
    BY DEF require_admin, Moves, server, client, accounts, catalog, history
  <1>3. AccountInv' /\ AccountsGrow
    <2>1. faults' \in 0 .. MaxFaults
      BY <1>2 DEF SiteInv, AccountInv
    <2>2. QED
      BY <1>2, <2>1, AccountsUnchanged DEF SiteInv
  <1>4. CatalogInv' /\ SeenStays /\ AuditInv' /\ EditInv'
    BY <1>2, <1>3, QuietHistory
  <1>5. /\ at'[x] = "change" /\ OnlyOf(x)
        /\ request'[x] = [r EXCEPT !.user = user, !.token = cookie[x]]
    BY <1>1, <1>2 DEF Asks, SiteInv, HandlerInv, ViewInv, OnlyOf, States
  <1>6. /\ user \in Names /\ cookie[x] \in Nat /\ cookie[x] <= tokens
        /\ \A s \in sessions : s.token = cookie[x] => s.user = user
    <2>1. PICK s \in sessions : s.token = cookie[x] /\ s.user = user
      BY <1>1 DEF current_user
    <2>2. s.user \in Names /\ cookie[x] \in 0 .. tokens /\ tokens \in Nat
      BY AccountFacts DEF SiteInv
    <2>3. QED
      BY <2>1, <2>2 DEF SiteInv, AccountInv
  <1>7. /\ request'[x] \in WriteRequest
        /\ request'[x].user = user /\ request'[x].token = cookie[x]
        /\ request'[x].op = r.op /\ request'[x].problem = r.problem /\ request'[x].test = r.test
        /\ request'[x].position = r.position /\ request'[x].revision = r.revision
        /\ request'[x].base = r.base
    <2>1. r \in [op : Writes, problem : ProblemIds, test : Nat,
                 position : Positions \cup {0}, revision : Nat, base : Nat,
                 user : {"none"}, token : {0}, admin : {"none"}]
      BY RequestFacts
    <2>2. request'[x] = [op |-> r.op, problem |-> r.problem, test |-> r.test,
                         position |-> r.position, revision |-> r.revision, base |-> r.base,
                         user |-> user, token |-> cookie[x], admin |-> "none"]
      BY <1>5, <2>1
    <2>3. QED
      BY <1>6, <2>1, <2>2 DEF WriteRequest
  <1>8. HandlerOK(x)'
    <2>1. entry'[x] = 0
      BY <1>2 DEF SiteInv, HandlerInv, HandlerOK
    <2>2. r.op \in {"problem-test.create", "problem-test.update"} => r.position \in Positions
      BY RequestFacts
    <2>3. QED
      BY <1>2, <1>5, <1>6, <1>7, <2>1, <2>2 DEF HandlerOK
  <1>9. ViewOK(x)'
    <2>1. /\ r.op # "problem.create" => loaded'[x] # NothingLoaded
          /\ r.op = "problem.update" =>
                ProblemSeen(r.problem, r.revision, r.base, problems', log')
          /\ r.op = "problem-test.update" =>
                TestSeen(r.test, r.revision, r.base, tests', test_seq', log')
      BY <1>2, RequestFacts
    <2>2. QED
      BY <1>2, <1>5, <1>7, <2>1 DEF SiteInv, ViewInv, ViewOK
  <1>10. QED
    BY <1>3, <1>4, <1>5, <1>8, <1>9, ClientStep

----------------------------------------------------------------------------
\* The change, and what follows it.

\* The row that a statement has written is as the answer will show it.
LEMMA StatementShows ==
    ASSUME CatalogInv, NEW r \in WriteRequest, NEW c \in Nat, Statement(r, c), c <= Len(log'),
           Len(log') \in Nat, test_seq' \in Nat
    PROVE  /\ r.op = "problem.create" => ProblemSeen(r.problem, 1, c, problems', log')
           /\ r.op = "problem.update" =>
                 ProblemSeen(r.problem, r.revision + 1, c, problems', log')
           /\ r.op = "problem-test.create" =>
                 TestSeen(test_seq', 1, c, tests', test_seq', log')
           /\ r.op = "problem-test.update" =>
                 TestSeen(r.test, r.revision + 1, c, tests', test_seq', log')
  <1>a. r.problem \in ProblemIds /\ r.revision \in Nat /\ c \in 0 .. Len(log')
    BY DEF WriteRequest
  <1>b. test_seq \in Nat /\ DOMAIN tests \subseteq 1 .. test_seq
    BY ProblemsAssumption DEF CatalogInv, ProblemsTypeOK
  <1>1. ASSUME r.op = "problem.create" PROVE ProblemSeen(r.problem, 1, c, problems', log')
    <2>1. create(r.problem, TRUE, c)
      BY <1>1 DEF Statement, admin_write_problem, admin_delete_problem, admin_write_test,
                  admin_delete_test
    <2>2. problems'[r.problem].revision = 1 /\ problems'[r.problem].content = c
      BY <2>1 DEF create, With, NewProblem
    <2>3. QED
      BY <1>a, <2>2 DEF ProblemSeen
  <1>2. ASSUME r.op = "problem.update"
        PROVE  ProblemSeen(r.problem, r.revision + 1, c, problems', log')
    <2>1. update(r.problem, r.revision, TRUE, c)
      BY <1>2 DEF Statement, admin_write_problem, admin_delete_problem, admin_write_test,
                  admin_delete_test
    <2>2. /\ problems'[r.problem].revision = r.revision + 1
          /\ problems'[r.problem].content = c
      BY <2>1 DEF update
    <2>3. QED
      BY <1>a, <2>2 DEF ProblemSeen
  <1>3. ASSUME r.op = "problem-test.create"
        PROVE  TestSeen(test_seq', 1, c, tests', test_seq', log')
    <2>1. create_test(r.problem, r.position, TRUE, c)
      BY <1>3 DEF Statement, admin_write_problem, admin_delete_problem, admin_write_test,
                  admin_delete_test
    <2>2. /\ test_seq' = test_seq + 1
          /\ tests'[test_seq + 1].revision = 1 /\ tests'[test_seq + 1].content = c
      BY <2>1 DEF create_test, With, NewTest
    <2>3. QED
      BY <1>a, <1>b, <2>2 DEF TestSeen
  <1>4. ASSUME r.op = "problem-test.update"
        PROVE  TestSeen(r.test, r.revision + 1, c, tests', test_seq', log')
    <2>1. update_test(r.problem, r.test, r.revision, r.position, TRUE, c)
      BY <1>4 DEF Statement, admin_write_problem, admin_delete_problem, admin_write_test,
                  admin_delete_test
    <2>2. /\ r.test \in DOMAIN tests /\ test_seq' = test_seq
          /\ tests'[r.test].revision = r.revision + 1 /\ tests'[r.test].content = c
      BY <2>1 DEF update_test, TestsOf
    <2>3. QED
      BY <1>a, <1>b, <2>2 DEF TestSeen
  <1>5. QED
    BY <1>1, <1>2, <1>3, <1>4

\* The guarded UPDATE finds the revision that was loaded: then the content is
\* the one that was loaded too, or the problem was created again since.
LEMMA OverFacts ==
    ASSUME CatalogInv, NEW r \in WriteRequest, NEW c, Statement(r, c), r.op \in Edits,
           r.op = "problem.update" => ProblemSeen(r.problem, r.revision, r.base, problems, log),
           r.op = "problem-test.update" =>
               TestSeen(r.test, r.revision, r.base, tests, test_seq, log)
    PROVE  /\ Over(r) \in Nat /\ Over(r) <= Len(log)
           /\ \/ r.base = Over(r)
              \/ /\ r.op = "problem.update"
                 /\ \E j \in (r.base + 1) .. Over(r) :
                       log[j].op \in {"problem.create", "seed"} /\ r.problem \in log[j].on
  <1>a. /\ \A p \in DOMAIN problems :
              problems[p].revision \in Nat /\ problems[p].content \in 0 .. Len(log)
        /\ \A t \in DOMAIN tests :
              tests[t].revision \in Nat /\ tests[t].content \in 0 .. Len(log)
        /\ Len(log) \in Nat
    BY DEF CatalogInv, ProblemsTypeOK, ProblemRow, TestRow
  <1>1. CASE r.op = "problem.update"
    <2>1. r.problem \in DOMAIN problems /\ problems[r.problem].revision = r.revision
      BY <1>1 DEF Statement, admin_write_problem, admin_delete_problem, admin_write_test,
                  admin_delete_test, update
    <2>2. Over(r) = problems[r.problem].content
      BY <1>1 DEF Over
    <2>3. QED
      BY <1>1, <1>a, <2>1, <2>2 DEF ProblemSeen
  <1>2. CASE r.op = "problem-test.update"
    <2>1. r.test \in DOMAIN tests /\ tests[r.test].revision = r.revision
      BY <1>2 DEF Statement, admin_write_problem, admin_delete_problem, admin_write_test,
                  admin_delete_test, update_test, TestsOf
    <2>2. Over(r) = tests[r.test].content
      BY <1>2 DEF Over
    <2>3. QED
      BY <1>2, <1>a, <2>1, <2>2 DEF TestSeen
  <1>3. QED
    BY <1>1, <1>2 DEF Edits

\* A change is logged under its number; an edit replaced what was loaded.
LEMMA ChangesKeep ==
    ASSUME SiteInv, NEW x \in Clients, at[x] = "change", Changes(x)
    PROVE  /\ CatalogInv' /\ SeenStays /\ EditInv'
           /\ DOMAIN log' \ DOMAIN log = {Len(log) + 1}
           /\ log'[Len(log) + 1].op = request[x].op
           /\ log'[Len(log) + 1].user = request[x].user
           /\ log'[Len(log) + 1].token = request[x].token
           /\ Len(log) + 1 \in DOMAIN log'
  <1> DEFINE r == request[x]
             e == [op |-> r.op, on |-> {r.problem}, user |-> r.user, token |-> r.token,
                   base |-> IF r.op \in Edits THEN r.base ELSE 0,
                   over |-> IF r.op \in Edits THEN Over(r) ELSE 0]
  <1>a. /\ r \in WriteRequest
        /\ r.op \in {"problem-test.create", "problem-test.update"} => r.position \in Positions
        /\ r.op = "problem.update" => ProblemSeen(r.problem, r.revision, r.base, problems, log)
        /\ r.op = "problem-test.update" =>
              TestSeen(r.test, r.revision, r.base, tests, test_seq, log)
    BY DEF SiteInv, HandlerInv, HandlerOK, ViewInv, ViewOK, Writing
  <1>b. Statement(r, Len(log) + 1) /\ log' = Append(log, e)
    BY DEF Changes
  <1>c. CatalogInv /\ Len(log) \in Nat /\ log \in Seq(LogEntry)
    BY DEF SiteInv, CatalogInv
  <1>d. r.op \in Edits =>
           /\ Over(r) \in Nat /\ Over(r) <= Len(log)
           /\ \/ r.base = Over(r)
              \/ /\ r.op = "problem.update"
                 /\ \E j \in (r.base + 1) .. Over(r) :
                       log[j].op \in {"problem.create", "seed"} /\ r.problem \in log[j].on
    BY <1>a, <1>b, <1>c, OverFacts
  <1> HIDE DEF r
  <1>f. /\ r.op \in Writes /\ r.problem \in ProblemIds /\ r.user \in Names /\ r.token \in Nat
        /\ r.base \in Nat
    BY <1>a DEF WriteRequest
  <1>e. e \in LogEntry
    BY <1>d, <1>f DEF LogEntry
  <1>g. ProblemsTypeOK' /\ Evolves(Len(log) + 1, r.op, {r.problem})
    <2>1. ProblemsTypeOK
      BY <1>c DEF CatalogInv
    <2>2. Len(log) + 1 \in Nat
      BY <1>c
    <2>3. CASE admin_write_problem(r, Len(log) + 1) \/ admin_delete_problem(r)
      BY <1>a, <2>1, <2>2, <2>3, ProblemStatement
    <2>4. CASE admin_write_test(r, Len(log) + 1) \/ admin_delete_test(r)
      BY <1>a, <2>1, <2>2, <2>4, TestStatement
    <2>5. QED
      BY <1>b, <2>3, <2>4 DEF Statement
  <1>h. /\ e.op = r.op /\ e.on = {r.problem} /\ e.user = r.user /\ e.token = r.token
        /\ r.op \in Edits => e.base = r.base /\ e.over = Over(r)
        /\ r.op \notin Edits => e.over = 0
    OBVIOUS
  <1> HIDE DEF e
  <1>1. /\ CatalogInv' /\ SeenStays /\ Len(log') = Len(log) + 1 /\ log'[Len(log) + 1] = e
    BY <1>b, <1>c, <1>e, <1>g, <1>h, ChangeKeeps
  <1>2. DOMAIN log' \ DOMAIN log = {Len(log) + 1} /\ Len(log) + 1 \in DOMAIN log'
    BY <1>b, <1>c
  <1>3. EditInv'
    <2>1. e.over <= Len(log')
      BY <1>1, <1>c, <1>d, <1>h
    <2>2. e.op \in Edits =>
             \/ e.base = e.over
             \/ /\ e.op = "problem.update"
                /\ \E p \in e.on : \E j \in (e.base + 1) .. e.over :
                      log'[j].op \in {"problem.create", "seed"} /\ p \in log'[j].on
      <3>1. ASSUME r.op \in Edits, r.op = "problem.update",
                   NEW j \in (r.base + 1) .. Over(r),
                   log[j].op \in {"problem.create", "seed"}, r.problem \in log[j].on
            PROVE  log'[j] = log[j]
        <4>1. j \in DOMAIN log
          BY <1>c, <1>d, <1>f, <3>1
        <4>2. QED
          BY <1>1, <4>1 DEF SeenStays
      <3>2. QED
        BY <1>d, <1>h, <3>1
    <2>3. QED
      BY <1>1, <1>2, <1>c, <2>1, <2>2, EditsStay DEF SiteInv
  <1>4. QED
    BY <1>1, <1>2, <1>3, <1>h DEF r

\* A change is made, and its handler goes on to audit it.
LEMMA ChangeMade ==
    ASSUME SiteInv, NEW x \in Clients, Moves(x, "change", "identify"), Changes(x),
           entry' = [entry EXCEPT ![x] = Len(log) + 1],
           Asks(x, IF request[x].op = "problem-test.create"
                   THEN [request[x] EXCEPT !.test = test_seq'] ELSE request[x]),
           UNCHANGED server, UNCHANGED <<accounts, client, audit>>
    PROVE  SiteInv'
  <1>1. /\ UNCHANGED <<accounts, cookie, up>> /\ faults' = faults /\ UNCHANGED <<loaded, audit>>
        /\ UNCHANGED <<sessions, tokens>>
        /\ at[x] = "change" /\ at' = [at EXCEPT ![x] = "identify"]
    BY DEF Moves, server, client, accounts
  <1>2. AccountInv' /\ AccountsGrow
    <2>1. faults' \in 0 .. MaxFaults
      BY <1>1 DEF SiteInv, AccountInv
    <2>2. QED
      BY <1>1, <2>1, AccountsUnchanged DEF SiteInv
  <1>3. /\ CatalogInv' /\ SeenStays /\ EditInv'
        /\ DOMAIN log' \ DOMAIN log = {Len(log) + 1} /\ Len(log) + 1 \in DOMAIN log'
        /\ log'[Len(log) + 1].op = request[x].op
        /\ log'[Len(log) + 1].user = request[x].user
        /\ log'[Len(log) + 1].token = request[x].token
    BY <1>1, ChangesKeep
  <1>4. /\ request[x] \in WriteRequest /\ request[x].token <= tokens /\ entry[x] = 0
        /\ request[x].op \in {"problem-test.create", "problem-test.update"} =>
              request[x].position \in Positions
        /\ \A s \in sessions : s.token = request[x].token => s.user = request[x].user
    BY <1>1 DEF SiteInv, HandlerInv, HandlerOK, Writing
  <1>5. test_seq' \in Nat /\ Len(log) \in Nat /\ Len(log') \in Nat /\ Len(log) + 1 <= Len(log')
    <2>1. test_seq' \in Nat
      BY <1>3, ProblemsAssumption DEF CatalogInv, ProblemsTypeOK
    <2>2. Len(log) \in Nat /\ Len(log') \in Nat /\ DOMAIN log' = 1 .. Len(log')
      BY <1>3 DEF SiteInv, CatalogInv
    <2>3. QED
      BY <1>3, <2>1, <2>2
  <1>6. /\ at'[x] = "identify" /\ OnlyOf(x) /\ entry'[x] = Len(log) + 1
        /\ request'[x] = IF request[x].op = "problem-test.create"
                         THEN [request[x] EXCEPT !.test = test_seq'] ELSE request[x]
    BY <1>1 DEF Asks, SiteInv, HandlerInv, ViewInv, OnlyOf, States
  <1>7. /\ request'[x] \in WriteRequest
        /\ request'[x].op = request[x].op /\ request'[x].problem = request[x].problem
        /\ request'[x].position = request[x].position /\ request'[x].base = request[x].base
        /\ request'[x].revision = request[x].revision
        /\ request'[x].user = request[x].user /\ request'[x].token = request[x].token
        /\ request'[x].test = IF request[x].op = "problem-test.create"
                              THEN test_seq' ELSE request[x].test
    <2>1. CASE request[x].op = "problem-test.create"
      BY <1>4, <1>5, <1>6, <2>1 DEF WriteRequest
    <2>2. CASE request[x].op # "problem-test.create"
      BY <1>4, <1>6, <2>2
    <2>3. QED
      BY <2>1, <2>2
  <1>8. AuditInv'
    <2>1. \A i \in DOMAIN log' \ DOMAIN log : log'[i].token <= tokens'
      BY <1>1, <1>3, <1>4
    <2>2. \A y \in Clients : entry'[y] = entry[y] \/ entry[y] = 0
      BY <1>4, <1>6 DEF OnlyOf
    <2>3. \A i \in DOMAIN log' \ DOMAIN log : \E y \in Clients : entry'[y] = i
      BY <1>3, <1>6
    <2>4. QED
      BY <1>1, <1>2, <1>3, <2>1, <2>2, <2>3, AuditKeeps DEF SiteInv
  <1>9. HandlerOK(x)'
    BY <1>1, <1>3, <1>4, <1>6, <1>7 DEF HandlerOK
  <1>10. ViewOK(x)'
    <2>1. Statement(request[x], Len(log) + 1)
      BY DEF Changes
    <2>2. /\ request[x].op = "problem.create" =>
                ProblemSeen(request[x].problem, 1, Len(log) + 1, problems', log')
          /\ request[x].op = "problem.update" =>
                ProblemSeen(request[x].problem, request[x].revision + 1, Len(log) + 1,
                            problems', log')
          /\ request[x].op = "problem-test.create" =>
                TestSeen(test_seq', 1, Len(log) + 1, tests', test_seq', log')
          /\ request[x].op = "problem-test.update" =>
                TestSeen(request[x].test, request[x].revision + 1, Len(log) + 1,
                         tests', test_seq', log')
      <3>1. Len(log) + 1 \in Nat /\ CatalogInv
        BY <1>5 DEF SiteInv
      <3>2. QED
        BY <1>4, <1>5, <2>1, <3>1, StatementShows
    <2>3. /\ request[x].op # "problem.create" => loaded[x] # NothingLoaded
          /\ request[x].op = "problem.update" =>
                ProblemSeen(request[x].problem, request[x].revision, request[x].base,
                            problems', log')
          /\ request[x].op = "problem-test.update" =>
                TestSeen(request[x].test, request[x].revision, request[x].base,
                         tests', test_seq', log')
          /\ loaded[x] # NothingLoaded =>
                ProblemSeen(loaded[x].problem, loaded[x].revision, loaded[x].content,
                            problems', log')
          /\ \A t \in DOMAIN loaded[x].tests :
                TestSeen(t, loaded[x].tests[t].revision, loaded[x].tests[t].content,
                         tests', test_seq', log')
      BY <1>1, <1>3 DEF SiteInv, ViewInv, ViewOK, Writing, SeenStays
    <2>4. /\ Written(x)'.revision = IF request[x].op \in Edits THEN request[x].revision + 1 ELSE 1
          /\ "problem.create" \notin Edits /\ "problem-test.create" \notin Edits
          /\ "problem.update" \in Edits /\ "problem-test.update" \in Edits
      BY <1>7 DEF Written, Edits
    <2>5. QED
      BY <1>1, <1>6, <1>7, <2>2, <2>3, <2>4 DEF ViewOK, Written, Edits
  <1>11. QED
    BY <1>2, <1>3, <1>6, <1>8, <1>9, <1>10, ClientStep

\* A call that is refused or fails; it may have made the change.
LEMMA ChangeLost ==
    ASSUME SiteInv, NEW x \in Clients, Moves(x, "change", "idle"), Asks(x, Nothing),
           \/ UNCHANGED <<catalog, log, server>>
           \/ Faulty /\ UNCHANGED <<catalog, log>>
           \/ Faulty /\ Changes(x),
           UNCHANGED entry, UNCHANGED <<accounts, client, audit>>
    PROVE  SiteInv'
  <1>1. /\ UNCHANGED <<accounts, cookie>> /\ UNCHANGED <<loaded, audit, entry, tokens>>
        /\ at[x] = "change" /\ at' = [at EXCEPT ![x] = "idle"]
        /\ request' = [request EXCEPT ![x] = Nothing]
        /\ UNCHANGED server \/ Faulty
    BY DEF Moves, Asks, client, accounts
  <1>2. AccountInv' /\ AccountsGrow /\ (faults' = 0 => faults = 0) /\ (Faulty => faults' # 0)
    BY <1>1, ServerSteps, AccountsUnchanged DEF SiteInv
  <1>3. CatalogInv' /\ SeenStays /\ AuditInv' /\ EditInv'
    <2>1. CASE UNCHANGED <<catalog, log>>
      BY <1>1, <1>2, <2>1, QuietHistory DEF history
    <2>2. CASE Faulty /\ Changes(x)
      <3>1. /\ CatalogInv' /\ SeenStays /\ EditInv'
            /\ DOMAIN log' \ DOMAIN log = {Len(log) + 1}
            /\ log'[Len(log) + 1].token = request[x].token
        BY <1>1, <2>2, ChangesKeep
      <3>2. request[x].token <= tokens'
        BY <1>1 DEF SiteInv, HandlerInv, HandlerOK, Writing
      <3>3. AuditInv'
        BY <1>1, <1>2, <2>2, <3>1, <3>2, AuditKeeps DEF SiteInv
      <3>4. QED
        BY <3>1, <3>3
    <2>3. QED
      BY <2>1, <2>2
  <1>4. at'[x] = "idle" /\ OnlyOf(x) /\ entry'[x] = 0
    BY <1>1 DEF SiteInv, HandlerInv, HandlerOK, ViewInv, OnlyOf, States
  <1>5. HandlerOK(x)'
    BY <1>4, IdleHandler
  <1>6. ViewOK(x)'
    BY <1>1, <1>3, <1>4, IdleView DEF SiteInv, ViewInv
  <1>7. QED
    BY <1>2, <1>3, <1>4, <1>5, <1>6, ClientStep

\* The statement of a request: made, refused or lost.
LEMMA ChangeStep ==
    ASSUME SiteInv, NEW x \in Clients, Change(x) PROVE SiteInv'
  BY ChangeMade, ChangeLost DEF Change

\* The second look at the session, for the audit row.
LEMMA authenticated_admin_idStep ==
    ASSUME SiteInv, NEW x \in Clients, authenticated_admin_id(x) PROVE SiteInv'
  <1>1. /\ UNCHANGED <<accounts, cookie>> /\ UNCHANGED <<loaded, sessions, tokens, log>>
        /\ UNCHANGED catalog /\ UNCHANGED history /\ (UNCHANGED server \/ Faulty)
        /\ UNCHANGED <<problems, tests, test_seq>> /\ at[x] = "identify"
    BY DEF authenticated_admin_id, client, accounts, Moves, history, catalog
  <1>2. AccountInv' /\ AccountsGrow /\ (faults' = 0 => faults = 0) /\ (Faulty => faults' # 0)
    BY <1>1, ServerSteps, AccountsUnchanged DEF SiteInv
  <1>3. /\ request[x] \in WriteRequest /\ request[x].token <= tokens
        /\ request[x].op \in {"problem-test.create", "problem-test.update"} =>
              request[x].position \in Positions
        /\ \A s \in sessions : s.token = request[x].token => s.user = request[x].user
        /\ entry[x] \in DOMAIN log
        /\ log[entry[x]].op = request[x].op
        /\ log[entry[x]].user = request[x].user
        /\ log[entry[x]].token = request[x].token
    BY <1>1 DEF SiteInv, HandlerInv, HandlerOK, Writing
  <1>4. CASE /\ at' = [at EXCEPT ![x] = "audit"] /\ UNCHANGED entry
             /\ \E user \in current_user(request[x].token) :
                   Asks(x, [request[x] EXCEPT !.admin = user])
    <2>1. PICK user \in current_user(request[x].token) :
             request' = [request EXCEPT ![x] = [request[x] EXCEPT !.admin = user]]
      BY <1>4 DEF Asks
    <2>2. user = request[x].user
      BY <1>3 DEF current_user
    <2>3. CatalogInv' /\ SeenStays /\ AuditInv' /\ EditInv'
      BY <1>1, <1>2, <1>4, QuietHistory
    <2>4. at'[x] = "audit" /\ OnlyOf(x) /\ request'[x] = [request[x] EXCEPT !.admin = user]
      BY <1>1, <1>4, <2>1 DEF SiteInv, HandlerInv, ViewInv, OnlyOf, States
    <2>5. request[x].user \in Names
      BY <1>3 DEF WriteRequest
    <2>6. /\ request'[x] \in WriteRequest /\ request'[x].admin = user
          /\ request'[x].op = request[x].op /\ request'[x].problem = request[x].problem
          /\ request'[x].test = request[x].test /\ request'[x].position = request[x].position
          /\ request'[x].revision = request[x].revision /\ request'[x].base = request[x].base
          /\ request'[x].user = request[x].user /\ request'[x].token = request[x].token
      BY <1>3, <2>2, <2>4, <2>5 DEF WriteRequest
    <2>7. HandlerOK(x)'
      BY <1>1, <1>3, <1>4, <2>2, <2>4, <2>6 DEF HandlerOK
    <2>8. ViewOK(x)'
      <3>1. ViewOK(x)
        BY DEF SiteInv, ViewInv
      <3>2. QED
        BY <1>1, <1>4, <2>4, <2>6, <3>1 DEF ViewOK, Written, Writing
    <2>9. QED
      BY <1>2, <2>3, <2>4, <2>7, <2>8, ClientStep
  <1>5. CASE /\ at' = [at EXCEPT ![x] = "idle"] /\ Asks(x, Nothing)
             /\ entry' = [entry EXCEPT ![x] = 0]
             /\ current_user(request[x].token) = {} \/ Faulty
    <2>1. faults' = 0 => Ended(log[entry[x]].token, sessions, now)
      <3>1. current_user(request[x].token) = {} => Ended(request[x].token, sessions, now)
        BY EndedFor
      <3>2. QED
        BY <1>2, <1>3, <1>5, <3>1
    <2>2. /\ at'[x] = "idle" /\ OnlyOf(x) /\ entry'[x] = 0
          /\ \A y \in Clients \ {x} : entry'[y] = entry[y]
      BY <1>1, <1>5 DEF Asks, SiteInv, HandlerInv, ViewInv, OnlyOf, States
    <2>3. CatalogInv' /\ SeenStays /\ AuditInv' /\ EditInv'
      <3>1. faults' = 0 => \A y \in Clients : \/ entry'[y] = entry[y]
                                              \/ Ended(log[entry[y]].token, sessions, now)
        BY <2>1, <2>2
      <3>2. QED
        BY <1>1, <1>2, <3>1, QuietHistory
    <2>4. HandlerOK(x)'
      BY <2>2, IdleHandler
    <2>5. ViewOK(x)'
      BY <1>1, <2>2, <2>3, IdleView DEF SiteInv, ViewInv
    <2>6. QED
      BY <1>2, <2>2, <2>3, <2>4, <2>5, ClientStep
  <1>6. QED
    BY <1>4, <1>5 DEF authenticated_admin_id, Moves

\* What the editor shows after the answer is what was written, beside what it
\* showed before.
LEMMA ShownSeen ==
    ASSUME SiteInv, SeenStays, NEW x \in Clients, at[x] = "audit",
           loaded' = [loaded EXCEPT ![x] = Shown(x)], at'[x] = "idle"
    PROVE  ViewOK(x)'
  <1>a. /\ loaded[x] # NothingLoaded =>
              ProblemSeen(loaded[x].problem, loaded[x].revision, loaded[x].content,
                          problems', log')
        /\ \A t \in DOMAIN loaded[x].tests :
              TestSeen(t, loaded[x].tests[t].revision, loaded[x].tests[t].content,
                       tests', test_seq', log')
        /\ request[x].op # "problem.create" => loaded[x] # NothingLoaded
        /\ request[x].op \in {"problem.create", "problem.update"} =>
              ProblemSeen(request[x].problem, Written(x).revision, entry[x], problems', log')
        /\ request[x].op \in {"problem-test.create", "problem-test.update"} =>
              TestSeen(request[x].test, Written(x).revision, entry[x], tests', test_seq', log')
    BY DEF SiteInv, ViewInv, ViewOK, Writing, SeenStays
  <1>b. loaded'[x] = Shown(x) /\ Written(x).content = entry[x] /\ request[x].op \in Writes
    <2>1. request[x] \in WriteRequest
      BY DEF SiteInv, HandlerInv, HandlerOK, Writing
    <2>2. QED
      BY <2>1 DEF SiteInv, ViewInv, Written, WriteRequest
  <1>1. SUFFICES /\ Shown(x) # NothingLoaded =>
                       ProblemSeen(Shown(x).problem, Shown(x).revision, Shown(x).content,
                                   problems', log')
                 /\ \A t \in DOMAIN Shown(x).tests :
                       TestSeen(t, Shown(x).tests[t].revision, Shown(x).tests[t].content,
                                tests', test_seq', log')
    BY <1>b DEF ViewOK, Writing
  <1>2. CASE request[x].op \in {"problem.create", "problem.update"}
    <2>1. Shown(x) = [problem |-> request[x].problem, revision |-> Written(x).revision,
                      content |-> Written(x).content, tests |-> loaded[x].tests]
      BY <1>2 DEF Shown, save, Loaded
    <2>2. QED
      BY <1>2, <1>a, <1>b, <2>1
  <1>3. CASE request[x].op = "problem.delete"
    <2>1. Shown(x) = loaded[x]
      BY <1>3 DEF Shown
    <2>2. QED
      BY <1>a, <2>1
  <1>4. CASE request[x].op = "problem-test.delete"
    <2>1. Shown(x) = [problem |-> loaded[x].problem, revision |-> loaded[x].revision,
                      content |-> loaded[x].content,
                      tests |-> Without(loaded[x].tests, {request[x].test})]
      BY <1>4 DEF Shown, HiddenTests, Loaded
    <2>2. \A t \in DOMAIN Without(loaded[x].tests, {request[x].test}) :
             /\ t \in DOMAIN loaded[x].tests
             /\ Without(loaded[x].tests, {request[x].test})[t] = loaded[x].tests[t]
      BY DEF Without
    <2>3. /\ Shown(x).problem = loaded[x].problem /\ Shown(x).revision = loaded[x].revision
          /\ Shown(x).content = loaded[x].content
          /\ Shown(x).tests = Without(loaded[x].tests, {request[x].test})
      BY <2>1
    <2>4. loaded[x] # NothingLoaded
      BY <1>4, <1>a
    <2>5. QED
      BY <1>a, <2>2, <2>3, <2>4
  <1>5. CASE request[x].op \in {"problem-test.create", "problem-test.update"}
    <2>1. Shown(x) = [problem |-> loaded[x].problem, revision |-> loaded[x].revision,
                      content |-> loaded[x].content,
                      tests |-> With(loaded[x].tests, request[x].test, Written(x))]
      BY <1>5 DEF Shown, HiddenTests, Loaded
    <2>2. \A t \in DOMAIN With(loaded[x].tests, request[x].test, Written(x)) :
             \/ /\ t = request[x].test
                /\ With(loaded[x].tests, request[x].test, Written(x))[t] = Written(x)
             \/ /\ t \in DOMAIN loaded[x].tests
                /\ With(loaded[x].tests, request[x].test, Written(x))[t] = loaded[x].tests[t]
      BY DEF With
    <2>3. QED
      BY <1>5, <1>a, <1>b, <2>1, <2>2
  <1>6. QED
    BY <1>b, <1>2, <1>3, <1>4, <1>5 DEF Writes, Edits

\* The audit row is written, or lost.
LEMMA audit_admin_changeStep ==
    ASSUME SiteInv, NEW x \in Clients, audit_admin_change(x) PROVE SiteInv'
  <1>1. /\ UNCHANGED <<accounts, cookie>> /\ UNCHANGED log /\ UNCHANGED catalog
        /\ UNCHANGED server \/ Faulty
        /\ at[x] = "audit" /\ at' = [at EXCEPT ![x] = "idle"]
        /\ request' = [request EXCEPT ![x] = Nothing] /\ entry' = [entry EXCEPT ![x] = 0]
        /\ loaded' = [loaded EXCEPT ![x] = Shown(x)]
        /\ audit' = audit \cup {AuditRow(x)} \/ (Faulty /\ audit' = audit)
    BY DEF audit_admin_change, Moves, Asks
  <1>2. AccountInv' /\ AccountsGrow /\ (faults' = 0 => faults = 0) /\ (Faulty => faults' # 0)
    BY <1>1, ServerSteps, AccountsUnchanged DEF SiteInv
  <1>3. CatalogInv' /\ SeenStays
    BY <1>1, CatalogUnchanged DEF SiteInv
  <1>4. EditInv'
    BY <1>1, <1>3, EditsStay DEF SiteInv
  <1>5. at'[x] = "idle" /\ OnlyOf(x) /\ entry'[x] = 0
    BY <1>1 DEF SiteInv, HandlerInv, ViewInv, OnlyOf, States
  <1>6. AuditInv'
    <2>1. /\ request[x].op \in Writes /\ request[x].user \in Names
          /\ request[x].admin = request[x].user /\ entry[x] \in DOMAIN log
          /\ log[entry[x]].op = request[x].op /\ log[entry[x]].user = request[x].user
      BY <1>1 DEF SiteInv, HandlerInv, HandlerOK, Writing, WriteRequest
    <2>2. /\ AuditRow(x) \in [admin : Names, action : Writes, change : DOMAIN log']
          /\ AuditRow(x).change = entry[x]
          /\ log'[AuditRow(x).change].op = AuditRow(x).action
          /\ log'[AuditRow(x).change].user = AuditRow(x).admin
      BY <1>1, <2>1 DEF AuditRow
    <2>3. faults' = 0 => \A y \in Clients : \/ entry'[y] = entry[y]
                                            \/ \E row \in audit' : row.change = entry[y]
      <3>1. \A y \in Clients \ {x} : entry'[y] = entry[y]
        BY <1>5 DEF OnlyOf
      <3>2. faults' = 0 => \E row \in audit' : row.change = entry[x]
        BY <1>1, <1>2, <2>2
      <3>3. QED
        BY <3>1, <3>2
    <2>4. \A row \in audit' \ audit : row = AuditRow(x)
      BY <1>1
    <2>5. audit \subseteq audit' /\ DOMAIN log' \ DOMAIN log = {}
      BY <1>1
    <2>6. QED
      BY <1>2, <1>3, <2>2, <2>3, <2>4, <2>5, AuditKeeps DEF SiteInv
  <1>7. HandlerOK(x)'
    BY <1>5, IdleHandler
  <1>8. ViewOK(x)'
    BY <1>1, <1>3, <1>5, ShownSeen
  <1>9. QED
    BY <1>2, <1>3, <1>4, <1>5, <1>6, <1>7, <1>8, ClientStep

----------------------------------------------------------------------------
\* The backend and the clock, and the theorems.

\* A step no browser takes.
LEMMA AllStay ==
    ASSUME SiteInv, AccountInv', AccountsGrow, CatalogInv', SeenStays, AuditInv', EditInv',
           UNCHANGED <<at, request, entry, loaded>>
    PROVE  SiteInv'
  <1>1. \A y \in Clients : HandlerOK(y)'
    BY HandlerStays DEF SiteInv, HandlerInv
  <1>2. \A y \in Clients : ViewOK(y)'
    BY ViewStays DEF SiteInv, ViewInv
  <1>3. QED
    BY <1>1, <1>2 DEF SiteInv, HandlerInv, ViewInv

\* Time passes; sessions expire.
LEMMA ClockStep ==
    ASSUME SiteInv, Clock PROVE SiteInv'
  <1>1. /\ now < MaxTime /\ now' = now + 1 /\ UNCHANGED <<users, given, sessions, tokens>>
        /\ UNCHANGED <<cookie, up, faults>> /\ UNCHANGED <<at, request, entry, loaded>>
        /\ UNCHANGED catalog /\ UNCHANGED history
    BY DEF Clock, Tick, client, server, handler
  <1>2. AccountInv'
    <2>1. AccountsTypeOK' /\ GivenInv'
      BY <1>1, AccountsAssumption DEF SiteInv, AccountInv, AccountsTypeOK, GivenInv
    <2>2. QED
      BY <1>1, <2>1 DEF SiteInv, AccountInv
  <1>3. AccountsGrow
    BY <1>1, AccountFacts DEF SiteInv, AccountsGrow
  <1>4. CatalogInv' /\ SeenStays /\ AuditInv' /\ EditInv'
    BY <1>1, <1>3, QuietHistory
  <1>5. QED
    BY <1>1, <1>2, <1>3, <1>4, AllStay

\* A crash ends every handler; what is committed stays.
LEMMA CrashStep ==
    ASSUME SiteInv, Crash PROVE SiteInv'
  <1>1. /\ up' = FALSE /\ faults < MaxFaults /\ faults' = faults + 1
        /\ UNCHANGED <<users, given, sessions, tokens, now, cookie>> /\ UNCHANGED loaded
        /\ at' = [x \in Clients |-> "idle"] /\ request' = [x \in Clients |-> Nothing]
        /\ entry' = [x \in Clients |-> 0]
        /\ UNCHANGED catalog /\ UNCHANGED history
    BY DEF Crash, client, accounts
  <1>2. faults' \in 0 .. MaxFaults /\ faults' # 0
    BY <1>1, SiteAssumption DEF SiteInv, AccountInv
  <1>3. AccountInv'
    <2>1. AccountsTypeOK' /\ GivenInv'
      BY <1>1 DEF SiteInv, AccountInv, AccountsTypeOK, GivenInv
    <2>2. QED
      BY <1>1, <1>2, <2>1 DEF SiteInv, AccountInv
  <1>4. AccountsGrow
    BY <1>1, AccountFacts DEF SiteInv, AccountsGrow
  <1>5. CatalogInv' /\ SeenStays /\ AuditInv' /\ EditInv'
    BY <1>1, <1>2, <1>4, QuietHistory
  <1>6. HandlerInv'
    BY <1>1, IdleHandler DEF HandlerInv
  <1>7. ViewInv'
    BY <1>1, <1>5, IdleView DEF SiteInv, ViewInv
  <1>8. QED
    BY <1>3, <1>5, <1>6, <1>7 DEF SiteInv

\* The configured account gets the rights and the password.
LEMMA EnsureAdminKeeps ==
    ASSUME AccountInv, NEW n \in AdminNames, NEW p \in AdminPasswords, ensure_admin(n, p),
           ~up, up' = TRUE, UNCHANGED <<faults, cookie>>
    PROVE  AccountInv' /\ AccountsGrow
  <1>1. AccountsTypeOK' /\ GivenInv'
    BY AccountsAssumption, GivesKeeps DEF ensure_admin
  <1>2. DOMAIN users \subseteq DOMAIN users' /\ UNCHANGED <<sessions, tokens, now>>
    BY DEF ensure_admin, With
  <1>3. AccountInv'
    BY <1>1, <1>2 DEF AccountInv
  <1>4. AccountsGrow
    BY <1>2, AccountFacts DEF AccountsGrow
  <1>5. QED
    BY <1>3, <1>4

\* A start seeds the catalog and sees to the administrator's account.
LEMMA StartStep ==
    ASSUME SiteInv, Start PROVE SiteInv'
  <1>0. PICK n \in AdminNames, p \in AdminPasswords :
           /\ ensure_admin(n, p)
           /\ log' = IF Missing = {} THEN log
                     ELSE Append(log, [op |-> "seed", on |-> Missing, user |-> n,
                                       token |-> 0, base |-> 0, over |-> 0])
    BY DEF Start
  <1>1. /\ ~up /\ up' = TRUE /\ Seed(Len(log) + 1)
        /\ UNCHANGED <<faults, cookie>> /\ UNCHANGED <<at, request, entry, loaded>>
        /\ UNCHANGED audit
    BY DEF Start, client, handler
  <1>2. AccountInv' /\ AccountsGrow
    BY <1>0, <1>1, EnsureAdminKeeps DEF SiteInv
  <1>3. /\ CatalogInv /\ ProblemsTypeOK /\ Len(log) \in Nat /\ Len(log) + 1 \in Nat
        /\ log \in Seq(LogEntry)
    BY DEF SiteInv, CatalogInv
  <1>4. /\ ProblemsTypeOK' /\ Evolves(Len(log) + 1, "seed", Missing)
        /\ Missing = {} => RowsStay
    BY <1>1, <1>3, SeedStatement
  <1>5. CASE Missing = {}
    <2>1. UNCHANGED log
      BY <1>0, <1>5
    <2>2. CatalogInv' /\ SeenStays
      BY <1>3, <1>4, <1>5, <2>1, RowsStayKeeps
    <2>3. AuditInv'
      BY <1>1, <1>2, <2>1, <2>2, AuditKeeps DEF SiteInv
    <2>4. EditInv'
      BY <2>1, <2>2, EditsStay DEF SiteInv
    <2>5. QED
      BY <1>1, <1>2, <2>2, <2>3, <2>4, AllStay
  <1>6. CASE Missing # {}
    <2> DEFINE e == [op |-> "seed", on |-> Missing, user |-> n, token |-> 0,
                     base |-> 0, over |-> 0]
    <2>1. log' = Append(log, e)
      BY <1>0, <1>6
    <2>2. e \in LogEntry /\ e.op = "seed" /\ e.on = Missing /\ e.token = 0 /\ e.over = 0
      BY ProblemsAssumption, AccountsAssumption DEF LogEntry, Missing
    <2> HIDE DEF e
    <2>3. CatalogInv' /\ SeenStays /\ Len(log') = Len(log) + 1 /\ log'[Len(log) + 1] = e
      BY <1>3, <1>4, <2>1, <2>2, ChangeKeeps
    <2>4. \A i \in DOMAIN log' \ DOMAIN log : log'[i] = e
      BY <1>3, <2>1
    <2>5. AuditInv'
      <3>1. tokens' \in Nat
        BY <1>2 DEF AccountsGrow
      <3>2. \A i \in DOMAIN log' \ DOMAIN log : log'[i].token <= tokens' /\ log'[i].op = "seed"
        BY <2>2, <2>4, <3>1
      <3>3. QED
        BY <1>1, <1>2, <2>3, <3>2, AuditKeeps DEF SiteInv
    <2>6. EditInv'
      <3>1. \A i \in DOMAIN log' \ DOMAIN log : log'[i].over <= Len(log') /\ log'[i].op \notin Edits
        BY <1>3, <2>2, <2>3, <2>4 DEF Edits
      <3>2. QED
        BY <2>3, <3>1, EditsStay DEF SiteInv
    <2>7. QED
      BY <1>1, <1>2, <2>3, <2>5, <2>6, AllStay
  <1>7. QED
    BY <1>5, <1>6

\* What the transfer may have left, and nobody served.
LEMMA SiteInvInit == SiteInit => SiteInv
  <1> SUFFICES ASSUME SiteInit PROVE SiteInv
    OBVIOUS
  <1> USE DEF SiteInit
  <1>1. AccountInv
    <2>1. PICK copied \in SUBSET CopiedNames :
             users \in [copied -> [password : Passwords, is_admin : BOOLEAN]]
      BY DEF AccountsInit
    <2>2. PICK row \in [1 .. tokens ->
                           [user : DOMAIN users, expires : 0 .. Lifetime, proof : Passwords]] :
             sessions = {[token |-> k, user |-> row[k].user, expires |-> row[k].expires,
                          proof |-> row[k].proof, version |-> 0] : k \in 1 .. tokens}
      BY DEF AccountsInit
    <2>3. /\ tokens \in 0 .. MaxSessions /\ tokens \in Nat /\ now \in 0 .. MaxTime
          /\ cookie \in [Clients -> 0 .. tokens]
          /\ up \in BOOLEAN /\ faults \in 0 .. MaxFaults
      <3>1. tokens \in 0 .. MaxSessions /\ tokens \in Nat
        BY AccountsAssumption DEF AccountsInit
      <3>2. now \in 0 .. MaxTime /\ faults \in 0 .. MaxFaults
        BY AccountsAssumption, SiteAssumption DEF AccountsInit
      <3>3. cookie \in [Clients -> 0 .. tokens] /\ up \in BOOLEAN
        OBVIOUS
      <3>4. QED
        BY <3>1, <3>2, <3>3
    <2>4. /\ DOMAIN users \subseteq Names
          /\ \A n \in DOMAIN users : users[n] \in [password : Passwords, is_admin : BOOLEAN]
      BY <2>1, AccountsAssumption
    <2>5. /\ DOMAIN given = DOMAIN users
          /\ \A n \in DOMAIN users :
                given[n] = <<[password |-> users[n].password, rights |-> users[n].is_admin]>>
      BY DEF AccountsInit
    <2>6. \A s \in sessions :
             /\ s \in [token : 1 .. tokens, user : DOMAIN users, expires : Nat,
                       proof : Passwords, version : Nat]
             /\ s.version = 0 /\ s.user = row[s.token].user
      <3>1. \A k \in 1 .. tokens : /\ row[k].user \in DOMAIN users /\ row[k].expires \in Nat
                                   /\ row[k].proof \in Passwords
        <4>1. \A k \in 1 .. tokens :
                 row[k] \in [user : DOMAIN users, expires : 0 .. Lifetime, proof : Passwords]
          BY <2>2
        <4>2. 0 .. Lifetime \subseteq Nat
          BY AccountsAssumption
        <4>3. QED
          BY <4>1, <4>2
      <3>2. QED
        BY <2>2, <2>3, <3>1
    <2>7. AccountsTypeOK
      BY <2>3, <2>4, <2>5, <2>6 DEF AccountsTypeOK
    <2>8. ASSUME NEW n \in DOMAIN users
          PROVE  /\ given[n] \in Seq(Given) /\ Len(given[n]) = 1
                 /\ given[n][1].password = users[n].password
                 /\ given[n][1].rights = users[n].is_admin
      <3>1. [password |-> users[n].password, rights |-> users[n].is_admin] \in Given
        BY <2>4, <2>8 DEF Given
      <3> DEFINE g == [password |-> users[n].password, rights |-> users[n].is_admin]
      <3>2. g.password = users[n].password /\ g.rights = users[n].is_admin
        OBVIOUS
      <3>3. given[n] = <<g>> /\ g \in Given
        BY <2>5, <2>8, <3>1
      <3> HIDE DEF g
      <3>4. given[n] \in Seq(Given) /\ Len(given[n]) = 1 /\ given[n][1] = g
        BY <3>3
      <3>5. QED
        BY <3>2, <3>4
    <2>9. GivenInv
      <3>1. \A s \in sessions : s.version \in 0 .. Len(given[s.user]) /\ ~(s.version > 0)
        BY <2>6, <2>8
      <3>2. QED
        BY <2>8, <3>1 DEF GivenInv
    <2>10. QED
      BY <2>3, <2>6, <2>7, <2>9 DEF AccountInv
  <1>2. CatalogInv
    BY ProblemsAssumption DEF CatalogInit, CatalogInv, ProblemsTypeOK
  <1>3. HandlerInv
    BY DEF HandlerInv, HandlerOK, Writing
  <1>4. AuditInv
    BY DEF AuditInv, AuditMatchesChanges
  <1>5. ViewInv
    BY DEF ViewInv, ViewOK, NothingLoaded, Writing
  <1>6. EditInv
    BY DEF EditInv, EditsReplaceWhatWasLoaded
  <1>7. QED
    BY <1>1, <1>2, <1>3, <1>4, <1>5, <1>6 DEF SiteInv

\* One step per action.
LEMMA SiteInvStep == SiteInv /\ [Next]_vars => SiteInv'
  <1> SUFFICES ASSUME SiteInv, [Next]_vars PROVE SiteInv'
    OBVIOUS
  <1>1. CASE \E x \in Clients :
                \/ register_user(x) \/ login(x) \/ OpenSession(x) \/ logout(x)
                \/ admin_get_problem(x) \/ LoadTests(x)
    BY <1>1, register_userStep, loginStep, OpenSessionStep, logoutStep, admin_get_problemStep,
       LoadTestsStep
  <1>2. CASE \E x \in Clients :
                \/ require_admin(x) \/ Change(x) \/ authenticated_admin_id(x)
                \/ audit_admin_change(x)
    BY <1>2, require_adminStep, ChangeStep, authenticated_admin_idStep, audit_admin_changeStep
  <1>3. CASE Clock \/ Crash \/ Start
    BY <1>3, ClockStep, CrashStep, StartStep
  <1>4. CASE UNCHANGED vars
    <2>1. /\ UNCHANGED <<accounts, cookie, up>> /\ faults' = faults
          /\ UNCHANGED <<at, request, entry, loaded>>
          /\ UNCHANGED catalog /\ UNCHANGED history
      BY <1>4 DEF vars, server, client, handler
    <2>2. AccountInv' /\ AccountsGrow
      <3>1. faults' \in 0 .. MaxFaults
        BY <2>1 DEF SiteInv, AccountInv
      <3>2. QED
        BY <2>1, <3>1, AccountsUnchanged DEF SiteInv
    <2>3. CatalogInv' /\ SeenStays /\ AuditInv' /\ EditInv'
      BY <2>1, <2>2, QuietHistory
    <2>4. QED
      BY <2>1, <2>2, <2>3, AllStay
  <1>5. QED
    BY <1>1, <1>2, <1>3, <1>4 DEF Next

\* The inductive invariant holds in every reachable state: of the accounts, the
\* catalog, the handlers under way, the audit log and the editors.
THEOREM SiteInvariant == SiteSpec => []SiteInv
  BY SiteInvInit, SiteInvStep, PTL DEF SiteSpec

\* For any number of browsers, accounts and problems: no test outlives its
\* problem, no session its account, and no handler audits a change that was
\* not made.
THEOREM SiteTypes == SiteSpec => []SiteTypeOK
  <1>1. SiteInv => SiteTypeOK
    <2> SUFFICES ASSUME SiteInv PROVE SiteTypeOK
      OBVIOUS
    <2>1. \A x \in Clients : at[x] \in {"identify", "audit"} => entry[x] \in DOMAIN log
      BY DEF SiteInv, HandlerInv, HandlerOK
    <2>2. QED
      BY <2>1 DEF SiteInv, AccountInv, CatalogInv, HandlerInv, AuditInv, SiteTypeOK
  <1>2. QED
    BY <1>1, SiteInvariant, PTL

\* For any number of editors and lost answers: an accepted edit replaces what
\* its sender had loaded, unless the problem was deleted and made again
\* (update, update_test).
THEOREM EditsAreGuarded == SiteSpec => []EditsReplaceWhatWasLoaded
  <1>1. SiteInv => EditsReplaceWhatWasLoaded
    BY DEF SiteInv, EditInv
  <1>2. QED
    BY <1>1, SiteInvariant, PTL

\* For any number of requests in flight: an audit row names the change, the
\* action and the administrator, and a change without one has a cause
\* (authenticated_admin_id, audit_admin_change).
THEOREM AuditIsComplete == SiteSpec => []AuditMatchesChanges
  <1>1. SiteInv => AuditMatchesChanges
    BY DEF SiteInv, AuditInv
  <1>2. QED
    BY <1>1, SiteInvariant, PTL

\* For any number of browsers, registrations, logins and starts with any
\* settings, on any tables a transfer has left: a session was opened with the
\* password its account had at that moment, an account keeps its password
\* unless a start gives it another, and administrator's rights come from a
\* start or from the transfer (register_user, login, ensure_admin).
THEOREM SessionsAreProved == SiteSpec => []SessionsProved
  <1>1. SiteInv => SessionsProved
    <2> SUFFICES ASSUME SiteInv PROVE SessionsProved
      OBVIOUS
    <2>1. ASSUME NEW s \in sessions, s.version > 0
          PROVE  /\ s.proof = given[s.user][s.version].password
                 /\ \/ s.proof = users[s.user].password
                    \/ \E i \in (s.version + 1) .. Len(given[s.user]) : given[s.user][i].rights
      <3>1. /\ s.user \in DOMAIN users /\ s.version \in 1 .. Len(given[s.user])
            /\ s.proof = given[s.user][s.version].password
            /\ given[s.user] \in Seq(Given)
            /\ users[s.user].password = given[s.user][Len(given[s.user])].password
            /\ \A i \in 2 .. Len(given[s.user]) : given[s.user][i].rights
        BY <2>1 DEF SiteInv, AccountInv, AccountsTypeOK, GivenInv
      <3>2. CASE s.version = Len(given[s.user])
        BY <3>1, <3>2
      <3>3. CASE s.version < Len(given[s.user])
        BY <3>1, <3>3
      <3>4. QED
        BY <3>1, <3>2, <3>3
    <2>2. ASSUME NEW n \in DOMAIN users, users[n].is_admin
          PROVE  \E g \in Range(given[n]) : g.rights
      <3>1. PICK i \in 1 .. Len(given[n]) : given[n][i].rights
        BY <2>2 DEF SiteInv, AccountInv, GivenInv
      <3>2. given[n][i] \in Range(given[n])
        BY <2>2, <3>1 DEF SiteInv, AccountInv, GivenInv, Range
      <3>3. QED
        BY <3>1, <3>2
    <2>3. ASSUME NEW n \in DOMAIN users
          PROVE  \/ users[n].password = given[n][1].password
                 \/ \E i \in 2 .. Len(given[n]) : given[n][i].rights
      <3>1. /\ given[n] \in Seq(Given) /\ Len(given[n]) > 0
            /\ users[n].password = given[n][Len(given[n])].password
            /\ \A i \in 2 .. Len(given[n]) : given[n][i].rights
        BY <2>3 DEF SiteInv, AccountInv, GivenInv
      <3>2. CASE Len(given[n]) = 1
        BY <3>1, <3>2
      <3>3. CASE Len(given[n]) >= 2
        BY <3>1, <3>3
      <3>4. QED
        BY <3>1, <3>2, <3>3
    <2>4. QED
      BY <2>1, <2>2, <2>3 DEF SessionsProved
  <1>2. QED
    BY <1>1, SiteInvariant, PTL

=============================================================================
