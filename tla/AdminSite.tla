----------------------------- MODULE AdminSite ------------------------------
(***************************************************************************)
(* The handlers of main.cpp that sign users in and out and administer      *)
(* problems, over the tables of Accounts and Problems, with the browsers   *)
(* that call them.                                                         *)
(*                                                                         *)
(* A request that writes runs in four steps, with others in between:       *)
(*                                                                         *)
(*    require_admin -> repository call -> authenticated_admin_id -> audit  *)
(*                                                                         *)
(* and an administrator edits what a browser loaded earlier. A request     *)
(* that is refused before it changes anything (400, 401, 403, 404, 409) is *)
(* no step, or ends its handler.                                           *)
(***************************************************************************)
EXTENDS Accounts, Problems

CONSTANTS
    Clients,        \* browsers, each with one request of a kind at a time
    MaxChanges,     \* bound of the model: changes to the catalog
    MaxFaults       \* bound of the model: failing database calls and crashes

ASSUME SiteAssumption == MaxChanges \in Nat /\ MaxFaults \in Nat

VARIABLES
    up,         \* the backend serves requests
    faults,     \* failing database calls and crashes so far
    cookie,     \* cookie[x]: the token browser x holds, 0 for none
    at,         \* at[x]: where the handler of x's request is
    request,    \* request[x]: what it was asked, with the token it came with
    loaded,     \* loaded[x]: the problem in x's editor, as the server sent it
    log,        \* history: the changes to the catalog, in order
    entry,      \* history: the change the handler of x has made
    audit       \* admin_audit_log, each row with the change it is about

server == <<up, faults>>
client == <<cookie, loaded>>
handler == <<at, request, entry>>
history == <<log, audit>>
vars == <<accounts, catalog, server, client, handler, history>>

Nothing == [op |-> "none"]

NothingLoaded == [problem |-> "none", revision |-> 0, content |-> 0, tests |-> << >>]

Edits == {"problem.update", "problem-test.update"}

Writes == Edits \cup {"problem.create", "problem.delete", "problem-test.create",
                      "problem-test.delete"}

\* One type invariant for the tables and the handlers: it holds as long as
\* no test outlives its problem, no session its account and no handler
\* audits a change that was not made.
SiteTypeOK ==
    /\ AccountsTypeOK /\ ProblemsTypeOK
    /\ cookie \in [Clients -> 0 .. tokens]
    /\ at \in [Clients -> {"idle", "session", "tests", "change", "identify", "audit"}]
    /\ \A x \in Clients : at[x] \in {"identify", "audit"} => entry[x] \in DOMAIN log
    /\ audit \subseteq [admin : Names, action : Writes, change : DOMAIN log]
    /\ faults \in 0 .. MaxFaults

----------------------------------------------------------------------------
\* Steps of a handler.

Moves(x, from, to) == at[x] = from /\ at' = [at EXCEPT ![x] = to]

\* A database call that fails.
Faulty ==
    /\ faults < MaxFaults
    /\ faults' = faults + 1
    /\ UNCHANGED up

Asks(x, r) == request' = [request EXCEPT ![x] = r]

----------------------------------------------------------------------------
\* Signing in and out.

\* The page offers both to a browser whose session restoreSession did not find.
register_user(x) ==
    /\ up /\ current_user(cookie[x]) = {}
    /\ Moves(x, "idle", "session")
    /\ \E n \in Names, p \in Passwords :
          InsertsUser(n, p) /\ Asks(x, [op |-> "session", user |-> n, password |-> p])
    /\ UNCHANGED <<catalog, server, client, entry, history>>

login(x) ==
    /\ up /\ current_user(cookie[x]) = {}
    /\ Moves(x, "idle", "session")
    /\ \E n \in DOMAIN users :
          Asks(x, [op |-> "session", user |-> n, password |-> users[n].password])
    /\ UNCHANGED <<accounts, catalog, server, client, entry, history>>

\* The second statement of both; auth_result sets the cookie. When it fails
\* after a registration the account stays, and its owner can log in.
OpenSession(x) ==
    /\ Moves(x, "session", "idle")
    /\ Asks(x, Nothing)
    /\ \/ /\ InsertsSession(request[x].user, request[x].password)
          /\ cookie' = [cookie EXCEPT ![x] = tokens + 1]
          /\ UNCHANGED server
       \/ /\ Faulty
          /\ UNCHANGED <<accounts, cookie>>
    /\ UNCHANGED <<catalog, loaded, entry, history>>

\* A browser can sign out while another of its requests is being handled.
logout(x) ==
    /\ up /\ cookie[x] # 0
    /\ \/ /\ DeletesSession(cookie[x])
          /\ cookie' = [cookie EXCEPT ![x] = 0]
          /\ UNCHANGED server
       \/ /\ Faulty
          /\ UNCHANGED <<accounts, cookie>>
    /\ UNCHANGED <<catalog, loaded, handler, history>>

----------------------------------------------------------------------------
\* Reading a problem into the editor: find_any, two queries.

admin_get_problem(x) ==
    /\ up /\ has_admin_access(cookie[x])
    /\ Moves(x, "idle", "tests")
    /\ \E p \in DOMAIN problems :
          Asks(x, [op |-> "load", problem |-> p, revision |-> problems[p].revision,
                   content |-> problems[p].content])
    /\ UNCHANGED <<accounts, catalog, server, client, entry, history>>

\* What the editor holds of a problem.
Loaded(p, row, rows) ==
    [problem |-> p, revision |-> row.revision, content |-> row.content, tests |-> rows]

LoadTests(x) ==
    /\ Moves(x, "tests", "idle")
    /\ Asks(x, Nothing)
    /\ \/ /\ loaded' = [loaded EXCEPT ![x] =
                           Loaded(request[x].problem, request[x],
                                  [t \in TestsOf(request[x].problem) |->
                                      [revision |-> tests[t].revision,
                                       content |-> tests[t].content]])]
          /\ UNCHANGED server
       \/ /\ Faulty
          /\ UNCHANGED loaded
    /\ UNCHANGED <<accounts, catalog, cookie, entry, history>>

----------------------------------------------------------------------------
\* Writing. A request carries what parse_admin_problem and parse_admin_test
\* accept: the revision that was loaded, for an update, and new content. What
\* its sender had seen of the row is base.

Request(op, p, t, position, revision, base) ==
    [op |-> op, problem |-> p, test |-> t, position |-> position, revision |-> revision,
     base |-> base, user |-> "none", token |-> 0, admin |-> "none"]

CreateRequests == {Request("problem.create", p, 0, 0, 0, 0) : p \in ProblemIds}

ProblemRequests(x) ==
    {Request(op, loaded[x].problem, 0, 0, loaded[x].revision, loaded[x].content) :
        op \in {"problem.update", "problem.delete"}}

TestRequests(x) ==
    {Request("problem-test.create", loaded[x].problem, 0, i, 0, 0) : i \in Positions}
        \cup {Request(op, loaded[x].problem, t, i, loaded[x].tests[t].revision,
                      loaded[x].tests[t].content) :
                 op \in {"problem-test.update", "problem-test.delete"},
                 t \in DOMAIN loaded[x].tests, i \in Positions}

RequestsOf(x) ==
    CreateRequests \cup (IF loaded[x] = NothingLoaded THEN {}
                        ELSE ProblemRequests(x) \cup TestRequests(x))

require_admin(x) ==
    /\ up /\ Moves(x, "idle", "change")
    /\ \E user \in current_user(cookie[x]), r \in RequestsOf(x) :
          /\ users[user].is_admin
          /\ Asks(x, [r EXCEPT !.user = user, !.token = cookie[x]])
    /\ UNCHANGED <<accounts, catalog, server, client, entry, history>>

\* The statement of the request r, writing content c, by the handler it is
\* sent to. Whether a row is enabled is part of the content here.
admin_write_problem(r, c) ==
    \/ r.op = "problem.create" /\ create(r.problem, TRUE, c)
    \/ r.op = "problem.update" /\ update(r.problem, r.revision, TRUE, c)

admin_delete_problem(r) == r.op = "problem.delete" /\ remove(r.problem)

admin_write_test(r, c) ==
    \/ r.op = "problem-test.create" /\ create_test(r.problem, r.position, TRUE, c)
    \/ /\ r.op = "problem-test.update"
       /\ update_test(r.problem, r.test, r.revision, r.position, TRUE, c)

admin_delete_test(r) == r.op = "problem-test.delete" /\ remove_test(r.problem, r.test)

Statement(r, c) ==
    \/ admin_write_problem(r, c) \/ admin_delete_problem(r)
    \/ admin_write_test(r, c) \/ admin_delete_test(r)

\* What an edit replaces.
Over(r) ==
    IF r.op = "problem.update" THEN problems[r.problem].content ELSE tests[r.test].content

\* The change number c to the catalog writes the content c.
Changes(x) ==
    LET r == request[x]
    IN /\ Len(log) < MaxChanges
       /\ Statement(r, Len(log) + 1)
       /\ log' = Append(log, [op |-> r.op, on |-> {r.problem}, user |-> r.user,
                              token |-> r.token, base |-> IF r.op \in Edits THEN r.base ELSE 0,
                              over |-> IF r.op \in Edits THEN Over(r) ELSE 0])

\* 404 or 409: the row is gone, has another revision or breaks a constraint.
Refused(x) ==
    /\ request[x].op = "problem-test.create" => test_seq < MaxTests
    /\ ~ENABLED Statement(request[x], 0)

\* The repository call. A call that fails may have taken effect, when only
\* its answer is lost; the handler takes it for a refusal either way.
Change(x) ==
    /\ \/ /\ Moves(x, "change", "identify")
          /\ Changes(x)
          /\ entry' = [entry EXCEPT ![x] = Len(log) + 1]
          /\ Asks(x, IF request[x].op = "problem-test.create"
                     THEN [request[x] EXCEPT !.test = test_seq'] ELSE request[x])
          /\ UNCHANGED server
       \/ /\ Moves(x, "change", "idle")
          /\ Asks(x, Nothing)
          /\ \/ Refused(x) /\ UNCHANGED <<catalog, log, server>>
             \/ Faulty /\ UNCHANGED <<catalog, log>>
             \/ Faulty /\ Changes(x)
          /\ UNCHANGED entry
    /\ UNCHANGED <<accounts, client, audit>>

IdentifyUnlessDelete(x) ==
    /\ \/ /\ Moves(x, "identify", "audit")
          /\ request[x].op # "problem.delete"
          /\ \E user \in current_user(request[x].token) :
                Asks(x, [request[x] EXCEPT !.admin = user])
          /\ UNCHANGED <<entry, server>>
       \/ /\ Moves(x, "identify", "idle")
          /\ Asks(x, Nothing)
          /\ entry' = [entry EXCEPT ![x] = 0]
          /\ \/ current_user(request[x].token) = {} /\ UNCHANGED server
             \/ request[x].op = "problem.delete" /\ UNCHANGED server
             \/ Faulty
    /\ UNCHANGED <<accounts, catalog, client, history>>

\* authenticated_admin_id: the token is looked up a second time. When the
\* session has ended, or the lookup fails, std::get throws: the change stands,
\* is not audited, and the browser sees an error.
authenticated_admin_id(x) ==
    /\ \/ /\ Moves(x, "identify", "audit")
          /\ \E user \in current_user(request[x].token) :
                Asks(x, [request[x] EXCEPT !.admin = user])
          /\ UNCHANGED <<entry, server>>
       \/ /\ Moves(x, "identify", "idle")
          /\ Asks(x, Nothing)
          /\ entry' = [entry EXCEPT ![x] = 0]
          /\ \/ current_user(request[x].token) = {} /\ UNCHANGED server
             \/ Faulty
    /\ UNCHANGED <<accounts, catalog, client, history>>

\* What the editor shows after the answer: the row as it was written, of a
\* problem (save) or of a test (createTest, toggle, remove).
Written(x) ==
    [revision |-> IF request[x].op \in Edits THEN request[x].revision + 1 ELSE 1,
     content |-> entry[x]]

save(x) == Loaded(request[x].problem, Written(x), loaded[x].tests)

HiddenTests(x) ==
    Loaded(loaded[x].problem, loaded[x],
           IF request[x].op = "problem-test.delete"
           THEN Without(loaded[x].tests, {request[x].test})
           ELSE With(loaded[x].tests, request[x].test, Written(x)))

Shown(x) ==
    CASE request[x].op \in {"problem.create", "problem.update"} -> save(x)
      [] request[x].op = "problem.delete" -> loaded[x]
      [] OTHER -> HiddenTests(x)

\* The row PostgreSQLSubmissionRepository::audit inserts.
AuditRow(x) == [admin |-> request[x].admin, action |-> request[x].op, change |-> entry[x]]

\* audit_admin_change: a failure is only logged, and the answer is sent.
audit_admin_change(x) ==
    /\ Moves(x, "audit", "idle")
    /\ Asks(x, Nothing)
    /\ entry' = [entry EXCEPT ![x] = 0]
    /\ \/ /\ audit' = audit \cup {AuditRow(x)}
          /\ UNCHANGED server
       \/ /\ Faulty
          /\ UNCHANGED audit
    /\ loaded' = [loaded EXCEPT ![x] = Shown(x)]
    /\ UNCHANGED <<accounts, catalog, cookie, log>>

----------------------------------------------------------------------------
\* The backend.

Clock ==
    /\ Tick
    /\ UNCHANGED <<catalog, server, client, handler, history>>

Crash ==
    /\ up /\ up' = FALSE
    /\ faults < MaxFaults /\ faults' = faults + 1
    /\ at' = [x \in Clients |-> "idle"]
    /\ request' = [x \in Clients |-> Nothing]
    /\ entry' = [x \in Clients |-> 0]
    /\ UNCHANGED <<accounts, catalog, client, history>>

\* main: the default problems that are missing are seeded and the configured
\* administrator is made one before the first request is served.
Start ==
    /\ ~up /\ up' = TRUE
    /\ Seed(Len(log) + 1)
    /\ \E n \in AdminNames, p \in AdminPasswords :
          /\ ensure_admin(n, p)
          /\ log' = IF Missing = {} THEN log
                    ELSE Append(log, [op |-> "seed", on |-> Missing, user |-> n,
                                      token |-> 0, base |-> 0, over |-> 0])
    /\ UNCHANGED <<faults, client, handler, audit>>

SiteInit ==
    /\ AccountsInit /\ CatalogInit
    /\ up = FALSE /\ faults = 0
    /\ cookie \in [Clients -> 0 .. tokens]
    /\ \A x, y \in Clients : cookie[x] = cookie[y] => x = y \/ cookie[x] = 0
    /\ loaded = [x \in Clients |-> NothingLoaded]
    /\ at = [x \in Clients |-> "idle"]
    /\ request = [x \in Clients |-> Nothing]
    /\ entry = [x \in Clients |-> 0]
    /\ log = << >> /\ audit = {}

Next ==
    \/ \E x \in Clients :
          \/ register_user(x) \/ login(x) \/ OpenSession(x) \/ logout(x)
          \/ admin_get_problem(x) \/ LoadTests(x)
          \/ require_admin(x) \/ Change(x) \/ authenticated_admin_id(x)
          \/ audit_admin_change(x)
    \/ Clock \/ Crash \/ Start

SiteSpec == SiteInit /\ [][Next]_vars

----------------------------------------------------------------------------

\* A change to a problem's row by create or by seeding starts its revisions
\* again at 1.
Restarted(p, from, to) ==
    \E j \in (from + 1) .. to : log[j].op \in {"problem.create", "seed"} /\ p \in log[j].on

\* An accepted edit replaces exactly what its sender had loaded: of editors
\* who start from one revision the first wins and the others get 409, also
\* when a failed call had taken effect (update, update_test: the guarded
\* UPDATE). A problem that was deleted and made again is another row with the
\* same revisions, and the one exception; the ids of tests are not used twice.
EditsReplaceWhatWasLoaded ==
    \A i \in DOMAIN log :
        log[i].op \in Edits =>
            \/ log[i].base = log[i].over
            \/ /\ log[i].op = "problem.update"
               /\ \E p \in log[i].on : Restarted(p, log[i].base, log[i].over)

\* The same without the exception: what docs/database.md promises.
NoUnseenOverwrite ==
    \A i \in DOMAIN log : log[i].op \in Edits => log[i].base = log[i].over

\* A row of the audit log names a change that was made, the action it was and
\* the administrator who asked for it. A change that is not recorded, and not
\* about to be, needs a cause: its session ended meanwhile, a database call
\* failed, or the backend died.
AuditMatchesChanges ==
    /\ \A row \in audit : log[row.change].op = row.action /\ log[row.change].user = row.admin
    /\ faults = 0 =>
          \A i \in DOMAIN log :
              \/ log[i].op = "seed"
              \/ \E row \in audit : row.change = i
              \/ \E x \in Clients : entry[x] = i
              \/ current_user(log[i].token) = {}

\* A session that was opened here was opened with the password its account
\* had at that moment, although the check and the INSERT are two statements;
\* if the account has another password now, a start has given it that since
\* (the session stays). An account keeps the password it was made with, also
\* when its first session could not be stored, and gets another only by a
\* start. Whoever has administrator's rights was given them by a start or came
\* with them: two who register one name, a registration that failed half-way,
\* or a restart with other settings give nobody the account or the rights of
\* another (register_user, login, ensure_admin).
SessionsProved ==
    /\ \A s \in sessions :
          s.version > 0 =>
              /\ s.proof = given[s.user][s.version].password
              /\ \/ s.proof = users[s.user].password
                 \/ \E i \in (s.version + 1) .. Len(given[s.user]) : given[s.user][i].rights
    /\ \A n \in DOMAIN users :
          /\ \/ users[n].password = given[n][1].password
             \/ \E i \in 2 .. Len(given[n]) : given[n][i].rights
          /\ users[n].is_admin => \E g \in Range(given[n]) : g.rights

=============================================================================
