------------------------------ MODULE Frontend ------------------------------
(***************************************************************************)
(* The page of App.tsx in one browser tab, and the handlers of main.cpp it *)
(* calls. A call is sent with the cookie of that moment, is handled by the *)
(* server later, and its answer arrives later still; meanwhile the user    *)
(* signs out and in, moves between views, selects problems and submits.    *)
(*                                                                         *)
(* The effects React runs after a render are part of the action that       *)
(* changed what they depend on. An effect that runs again aborts the fetch *)
(* it had started; submit and pollSubmission abort nothing, and keep the   *)
(* user and the problem of the render they were created in.                *)
(***************************************************************************)
EXTENDS Integers, Sequences, FiniteSets

CONSTANTS
    Users, ProblemIds,
    Default,            \* the problem selected at first
    None,               \* undefined
    MaxSubmissions,     \* bound of the model: submissions made
    MaxFaults           \* bound of the model: calls that fail

ASSUME FrontendAssumption ==
    /\ Default \in ProblemIds /\ None \notin Users \cup ProblemIds
    /\ MaxSubmissions \in Nat /\ MaxFaults \in Nat

VARIABLES
    submissions,    \* the server's table: [user, problem, status], by id
    session,        \* the account the cookie stands for
    user, view, selected, problem, profile, history,
    historyShows,   \* "history", "loading" or "error" (historyLoading, historyError)
    problemLoads, profileLoads, historyLoads,
                    \* fetches of the three effects that are not aborted
    auth,           \* the call of restoreSession, authenticate or logout
    submitting,     \* the call of submit
    polls,          \* the running pollSubmissions
    faults

table == <<submissions, session>>
page == <<user, view, selected, problem, profile>>
list == <<history, historyShows>>
loads == <<problemLoads, profileLoads, historyLoads>>
calls == <<auth, submitting, polls>>
vars == <<table, page, list, loads, calls, faults>>

Fails == faults < MaxFaults /\ faults' = faults + 1

----------------------------------------------------------------------------
\* The effects.

StartsWithoutAbort(old, new) == old \cup {new}

\* The cleanup of the effect aborts the fetch it replaces.
Starts(old, new) == {new}

\* The render that follows an action which leaves the loads pl, fl and hl, the
\* history h and the state s of its list.
loadProblem(pl) ==
    problemLoads' = IF selected' = selected THEN pl ELSE Starts(pl, selected')

loadProfile(fl) ==
    profileLoads' =
        IF <<user', view'>> = <<user, view>> THEN fl
        ELSE IF view' # "profile" \/ user' = None THEN {}
        ELSE Starts(fl, [as |-> session, answer |-> None])

loadHistory(hl, h, s) ==
    IF <<problem', user'>> = <<problem, user>>
    THEN historyLoads' = hl /\ history' = h /\ historyShows' = s
    ELSE IF user' = None \/ problem' = None
    THEN /\ historyLoads' = {} /\ history' = << >>
         /\ historyShows' = IF s = "error" THEN "history" ELSE s
    ELSE /\ historyLoads' = Starts(hl, [as |-> session, of |-> problem', answer |-> None])
         /\ history' = h /\ historyShows' = "loading"

Renders(pl, fl, hl, h, s) == loadProblem(pl) /\ loadProfile(fl) /\ loadHistory(hl, h, s)

\* ... and which changes nothing else on the page but by its effects.
Rerenders == Renders(problemLoads, profileLoads, historyLoads, history, historyShows)

----------------------------------------------------------------------------
\* What the user does.

Navigate ==
    /\ user # None
    /\ view' \in {"profile", "problems"} \ {view}
    /\ UNCHANGED <<user, selected, problem, profile>>
    /\ Rerenders
    /\ UNCHANGED <<table, calls, faults>>

\* loadProblem clears the problem before it asks for the new one.
Select ==
    /\ user # None /\ view = "problems"
    /\ view' = "problem"
    /\ selected' \in ProblemIds
    /\ problem' = IF selected' = selected THEN problem ELSE None
    /\ UNCHANGED <<user, profile>>
    /\ Rerenders
    /\ UNCHANGED <<table, calls, faults>>

authenticate ==
    /\ user = None /\ auth = None
    /\ \E u \in Users : auth' = [op |-> "login", user |-> u, done |-> FALSE]
    /\ UNCHANGED <<table, page, list, loads, submitting, polls, faults>>

logout ==
    /\ user # None /\ auth = None
    /\ auth' = [op |-> "logout", user |-> user, done |-> FALSE]
    /\ UNCHANGED <<table, page, list, loads, submitting, polls, faults>>

submit ==
    /\ user # None /\ view = "problem" /\ problem # None /\ submitting = None
    /\ Len(submissions) < MaxSubmissions
    /\ submitting' = [as |-> session, of |-> problem, id |-> 0]
    /\ UNCHANGED <<table, page, list, loads, auth, polls, faults>>

----------------------------------------------------------------------------
\* The effects' answers.

ProblemArrives ==
    /\ \E p \in problemLoads :
          /\ problem' = p
          /\ UNCHANGED <<user, view, selected, profile>>
          /\ Renders(problemLoads \ {p}, profileLoads, historyLoads, history, historyShows)
    /\ UNCHANGED <<table, calls, faults>>

\* The handlers of /api/profile and of a problem's submissions answer for the
\* session the request came with, if it still lives; the newest come first.
OfUser(u, p) ==
    LET ids == {i \in DOMAIN submissions : submissions[i].user = u /\ submissions[i].problem = p}
    IN [k \in 1 .. Cardinality(ids) |->
           LET i == CHOOSE i \in ids : Cardinality({j \in ids : j >= i}) = k
           IN [id |-> i, status |-> submissions[i].status]]

Signed(f) == f.as # None /\ f.as = session

ServeProfile ==
    /\ \E f \in profileLoads :
          /\ f.answer = None
          /\ profileLoads' = (profileLoads \ {f}) \cup
                 {[f EXCEPT !.answer = IF Signed(f) THEN <<session>> ELSE << >>]}
    /\ UNCHANGED <<table, page, list, problemLoads, historyLoads, calls, faults>>

ServeHistory ==
    /\ \E f \in historyLoads :
          /\ f.answer = None
          /\ historyLoads' = (historyLoads \ {f}) \cup
                 {[f EXCEPT !.answer = IF Signed(f) THEN <<OfUser(session, f.of)>> ELSE << >>]}
    /\ UNCHANGED <<table, page, list, problemLoads, profileLoads, calls, faults>>

ProfileArrives ==
    /\ \E f \in profileLoads :
          /\ f.answer # None
          /\ profile' = IF f.answer = << >> THEN profile ELSE f.answer[1]
          /\ profileLoads' = profileLoads \ {f}
    /\ UNCHANGED <<table, user, view, selected, problem, list, problemLoads, historyLoads, calls,
                   faults>>

HistoryArrives ==
    /\ \E f \in historyLoads :
          /\ f.answer # None
          /\ history' = IF f.answer = << >> THEN history ELSE f.answer[1]
          /\ historyShows' = IF f.answer = << >> THEN "error" ELSE "history"
          /\ historyLoads' = historyLoads \ {f}
    /\ UNCHANGED <<table, page, problemLoads, profileLoads, calls, faults>>

\* An error leaves the page without what was asked for.
LoadFails ==
    /\ Fails
    /\ \/ \E p \in problemLoads :
             /\ problemLoads' = problemLoads \ {p}
             /\ UNCHANGED <<list, profileLoads, historyLoads>>
       \/ \E f \in profileLoads :
             /\ profileLoads' = profileLoads \ {f}
             /\ UNCHANGED <<list, problemLoads, historyLoads>>
       \/ \E f \in historyLoads :
             /\ historyLoads' = historyLoads \ {f}
             /\ historyShows' = "error"
             /\ UNCHANGED <<history, problemLoads, profileLoads>>
    /\ UNCHANGED <<table, page, calls>>

----------------------------------------------------------------------------
\* Signing in and out, and the session found at first.

ServeAuth ==
    /\ auth # None /\ ~auth.done
    /\ auth' = [auth EXCEPT !.done = TRUE]
    /\ session' = CASE auth.op = "login" -> auth.user
                    [] auth.op = "logout" -> None
                    [] OTHER -> session
    /\ UNCHANGED <<submissions, page, list, loads, submitting, polls, faults>>

AuthArrivesKeepingProfile ==
    /\ auth # None /\ auth.done /\ auth' = None
    /\ user' = session
    /\ view' = IF auth.op = "logout" THEN "problem" ELSE "profile"
    /\ UNCHANGED <<table, profile, selected, problem, submitting, polls, faults>>
    /\ Rerenders

\* logout clears the profile and goes to the problem; the others show the
\* profile of the account.
AuthArrives ==
    /\ auth # None /\ auth.done /\ auth' = None
    /\ user' = session
    /\ view' = IF session = None THEN (IF auth.op = "logout" THEN "problem" ELSE view)
               ELSE "profile"
    /\ profile' = IF auth.op = "logout" THEN None ELSE profile
    /\ UNCHANGED <<table, selected, problem, submitting, polls, faults>>
    /\ Rerenders

\* A call that fails, or whose answer is lost, leaves the page as it was.
AuthFails ==
    /\ auth # None /\ Fails
    /\ auth' = None
    /\ UNCHANGED <<table, page, list, loads, submitting, polls>>

----------------------------------------------------------------------------
\* Submitting and polling.

\* The row's owner is the session of the request, if it still lives.
ServeSubmit ==
    /\ submitting # None /\ submitting.id = 0
    /\ submitting' = [submitting EXCEPT !.id = Len(submissions) + 1]
    /\ submissions' = Append(submissions,
          [user |-> IF submitting.as = session THEN session ELSE None,
           problem |-> submitting.of, status |-> "Queued"])
    /\ UNCHANGED <<session, page, list, loads, auth, polls, faults>>

\* 429, 500 or no answer, whether or not the row was inserted.
SubmitFails ==
    /\ submitting # None /\ Fails
    /\ submitting' = None
    /\ UNCHANGED <<table, page, list, loads, auth, polls>>

\* The entry goes first; the list it goes to is the one of this moment.
Prepends(id, status) ==
    history' = <<[id |-> id, status |-> status]>> \o
                   SelectSeq(history, LAMBDA e : e.id # id)

SubmitArrives ==
    /\ submitting # None /\ submitting.id # 0
    /\ submitting' = None
    /\ Prepends(submitting.id, "Queued")
    /\ polls' = polls \cup {[id |-> submitting.id, status |-> None]}
    /\ UNCHANGED <<table, page, historyShows, loads, auth, faults>>

\* The row with that id, read alone.
find(i) == submissions[i]

\* get_submission, half a second after the last answer.
ServePoll(i) ==
    /\ \E p \in polls :
          /\ p.id = i /\ p.status = None
          /\ polls' = (polls \ {p}) \cup {[p EXCEPT !.status = find(p.id).status]}
    /\ UNCHANGED <<table, page, list, loads, auth, submitting, faults>>

PollArrivesUntilCompleted(i) ==
    /\ \E p \in polls :
          /\ p.id = i /\ p.status # None
          /\ Prepends(p.id, p.status)
          /\ polls' = (polls \ {p}) \cup (IF p.status = "Completed" THEN {}
                                          ELSE {[p EXCEPT !.status = None]})
    /\ UNCHANGED <<table, page, historyShows, loads, auth, submitting, faults>>

PollArrives(i) ==
    /\ \E p \in polls :
          /\ p.id = i /\ p.status # None
          /\ Prepends(p.id, p.status)
          /\ polls' = (polls \ {p}) \cup (IF p.status \in {"Completed", "Failed"} THEN {}
                                          ELSE {[p EXCEPT !.status = None]})
    /\ UNCHANGED <<table, page, historyShows, loads, auth, submitting, faults>>

\* Any error ends the polling for good.
PollFails ==
    /\ Fails
    /\ \E p \in polls : polls' = polls \ {p}
    /\ UNCHANGED <<table, page, list, loads, auth, submitting>>

\* The worker pool finishes a submission (SubmissionQueue).
Judged(i) ==
    /\ i \in DOMAIN submissions /\ submissions[i].status = "Queued"
    /\ \E s \in {"Completed", "Failed"} :
          submissions' = [submissions EXCEPT ![i].status = s]
    /\ UNCHANGED <<session, page, list, loads, calls, faults>>

----------------------------------------------------------------------------

\* The browser may come with a cookie.
FrontendInit ==
    /\ submissions = << >>
    /\ session \in Users \cup {None}
    /\ user = None /\ view = "profile" /\ selected = Default /\ problem = None
    /\ profile = None /\ history = << >> /\ historyShows = "history"
    /\ problemLoads = {Default} /\ profileLoads = {} /\ historyLoads = {}
    /\ auth = [op |-> "restore", user |-> None, done |-> FALSE]
    /\ submitting = None /\ polls = {} /\ faults = 0

ByUser == Navigate \/ Select \/ authenticate \/ logout \/ submit

Calls ==
    \/ ProblemArrives \/ ServeProfile \/ ServeHistory \/ ProfileArrives \/ HistoryArrives
    \/ LoadFails
    \/ ServeAuth \/ AuthArrives \/ AuthFails
    \/ ServeSubmit \/ SubmitFails \/ SubmitArrives

Polling == PollFails \/ \E i \in 1 .. MaxSubmissions : ServePoll(i) \/ PollArrives(i) \/ Judged(i)

FrontendSpec == FrontendInit /\ [][ByUser \/ Calls \/ Polling]_vars

\* Submissions are judged (SubmissionQueue, QueueDrains); timers expire and
\* polls are answered.
FrontendFairSpec ==
    /\ FrontendSpec
    /\ \A i \in 1 .. MaxSubmissions :
          WF_vars(Judged(i)) /\ WF_vars(ServePoll(i)) /\ WF_vars(PollArrives(i))

----------------------------------------------------------------------------

\* The problem on the page is the one the user selected last, however the
\* answers to the fetches of earlier selections are delayed (loadProblem and
\* its AbortController).
ShownProblemIsSelected == problem \in {None, selected}

\* The profile kept in the page is of the account that is signed in: none
\* remains, or arrives late, when one user follows another in the same tab
\* (loadProfile, logout).
ProfileIsOfUser == profile \in {None, user}

\* Polling does not go on for ever: every submission's poll ends once the
\* submission is judged, whatever its result.
PollsEnd == []<>(polls = {})

\* The history shown under a problem is of that problem, and of no account but
\* the one signed in: what the page and docs/database.md say of it.
HistoryIsOfShownProblem ==
    (user # None /\ problem # None /\ historyShows = "history") =>
        \A k \in DOMAIN history :
            LET row == submissions[history[k].id]
            IN row.problem = problem /\ row.user \in {user, None}

=============================================================================
