--------------------------- MODULE FrontendProofs ---------------------------
(* What the page shows, for any users and problems, however answers are    *)
(* delayed, reordered or lost.                                             *)
EXTENDS Frontend, TLAPS

FrontendNext == ByUser \/ Calls \/ Polling

----------------------------------------------------------------------------
\* The problem.

\* A fetch that was not aborted is for the selected problem.
ShownInv == problemLoads \subseteq {selected} /\ problem \in {None, selected}

\* The problem on the page is the selected one (loadProblem).
THEOREM SelectedIsShown == FrontendSpec => []ShownProblemIsSelected
  <1>1. FrontendInit => ShownInv
    BY DEF FrontendInit, ShownInv
  <1>2. ShownInv /\ [FrontendNext]_vars => ShownInv'
    <2> SUFFICES ASSUME ShownInv, [FrontendNext]_vars PROVE ShownInv'
      OBVIOUS
    <2> USE DEF ShownInv
    <2>1. CASE Navigate
      BY <2>1 DEF Navigate, Rerenders, Renders, loadProblem
    <2>2. CASE Select
      BY <2>2 DEF Select, Rerenders, Renders, loadProblem, Starts
    <2>3. CASE ProblemArrives
      BY <2>3 DEF ProblemArrives, Renders, loadProblem
    <2>4. CASE LoadFails
      BY <2>4 DEF LoadFails, page
    <2>5. CASE AuthArrives
      BY <2>5 DEF AuthArrives, Rerenders, Renders, loadProblem
    <2>6. CASE UNCHANGED <<problemLoads, selected, problem>>
      BY <2>6
    <2>7. CASE authenticate \/ logout \/ submit
      BY <2>6, <2>7 DEF authenticate, logout, submit, page, loads
    <2>8. CASE ServeProfile \/ ServeHistory \/ ProfileArrives \/ HistoryArrives
      BY <2>6, <2>8 DEF ServeProfile, ServeHistory, ProfileArrives, HistoryArrives, page
    <2>9. CASE ServeAuth \/ AuthFails \/ ServeSubmit \/ SubmitFails \/ SubmitArrives
      BY <2>6, <2>9 DEF ServeAuth, AuthFails, ServeSubmit, SubmitFails, SubmitArrives, page, loads
    <2>10. CASE Polling
      BY <2>6, <2>10 DEF Polling, PollFails, ServePoll, PollArrives, Judged, page, loads
    <2>11. CASE UNCHANGED vars
      BY <2>6, <2>11 DEF vars, page, loads
    <2>12. QED
      BY <2>1, <2>2, <2>3, <2>4, <2>5, <2>7, <2>8, <2>9, <2>10, <2>11
         DEF FrontendNext, ByUser, Calls
  <1>3. ShownInv => ShownProblemIsSelected
    BY DEF ShownInv, ShownProblemIsSelected
  <1>4. QED
    BY <1>1, <1>2, <1>3, PTL DEF FrontendSpec, FrontendNext

----------------------------------------------------------------------------
\* The profile.

\* While a user is signed in on the page, the cookie is that user's or dead;
\* of the calls that change it only logout is made then.
SessionInv ==
    /\ session \in Users \cup {None} /\ user \in Users \cup {None}
    /\ user # None => session \in {user, None}
    /\ auth # None =>
          /\ auth \in [op : {"restore", "login", "logout"}, user : Users \cup {None},
                       done : BOOLEAN]
          /\ auth.op = "logout" <=> user # None
          /\ auth.op = "logout" /\ auth.done => session = None

\* A fetch of a profile that was not aborted carries the session of the user
\* on the page, and its answer is that user's profile or an error.
ProfileInv ==
    /\ profile \in {None, user}
    /\ profileLoads \subseteq [as : {user, None}, answer : {None, << >>, <<user>>}]
    /\ user = None => profile = None /\ profileLoads = {}

\* An answer to logout or to a login starts afresh.
LEMMA AuthKeepsProfile ==
    ASSUME SessionInv, ProfileInv, AuthArrives PROVE SessionInv' /\ ProfileInv'
  <1>1. user' = session /\ session' = session /\ auth' = None
    BY DEF AuthArrives, table
  <1>2. SessionInv'
    BY <1>1 DEF SessionInv
  <1>3. profile' = None
    BY DEF AuthArrives, SessionInv, ProfileInv
  <1>4. profileLoads' = {} \/ (user' # None /\ profileLoads' = {[as |-> session, answer |-> None]})
    <2>1. CASE <<user', view'>> = <<user, view>>
      <3>1. user = None
        BY <2>1 DEF AuthArrives, SessionInv
      <3>2. QED
        BY <2>1, <3>1 DEF AuthArrives, Rerenders, Renders, loadProfile, ProfileInv
    <2>2. CASE <<user', view'>> # <<user, view>>
      BY <2>2 DEF AuthArrives, Rerenders, Renders, loadProfile, Starts
    <2>3. QED
      BY <2>1, <2>2
  <1>5. ProfileInv'
    BY <1>1, <1>3, <1>4 DEF ProfileInv
  <1>6. QED
    BY <1>2, <1>5

\* What a user does who stays signed in, and the problem that arrives.
LEMMA RendersKeepProfile ==
    ASSUME SessionInv, ProfileInv, Navigate \/ Select \/ ProblemArrives
    PROVE  SessionInv' /\ ProfileInv'
  <1>1. UNCHANGED <<session, user, auth, profile>>
    BY DEF Navigate, Select, ProblemArrives, table, calls
  <1>2. SessionInv'
    BY <1>1 DEF SessionInv
  <1>3. loadProfile(profileLoads)
    BY DEF Navigate, Select, ProblemArrives, Rerenders, Renders
  <1>4. \/ profileLoads' = profileLoads \/ profileLoads' = {}
        \/ user # None /\ profileLoads' = {[as |-> session, answer |-> None]}
    BY <1>1, <1>3 DEF loadProfile, Starts
  <1>5. ProfileInv'
    BY <1>1, <1>4 DEF ProfileInv, SessionInv
  <1>6. QED
    BY <1>2, <1>5

\* The handler answers with the profile of the session it finds.
LEMMA ServeKeepsProfile ==
    ASSUME SessionInv, ProfileInv, ServeProfile PROVE SessionInv' /\ ProfileInv'
  <1>1. UNCHANGED <<session, user, auth, profile>>
    BY DEF ServeProfile, table, calls, page
  <1>2. SessionInv'
    BY <1>1 DEF SessionInv
  <1>3. PICK f \in profileLoads :
            profileLoads' = (profileLoads \ {f}) \cup
                {[f EXCEPT !.answer = IF Signed(f) THEN <<session>> ELSE << >>]}
    BY DEF ServeProfile
  <1>4. f \in [as : {user, None}, answer : {None, << >>, <<user>>}]
    BY DEF ProfileInv
  <1>5. Signed(f) => session = user
    BY <1>4 DEF Signed
  <1>6. [f EXCEPT !.answer = IF Signed(f) THEN <<session>> ELSE << >>]
            \in [as : {user, None}, answer : {None, << >>, <<user>>}]
    BY <1>4, <1>5
  <1>7. ProfileInv'
    BY <1>1, <1>3, <1>6 DEF ProfileInv
  <1>8. QED
    BY <1>2, <1>7

\* The profile in the page is of the account that is signed in (loadProfile,
\* logout).
THEOREM ProfileBelongs == FrontendSpec => []ProfileIsOfUser
  <1>1. FrontendInit => SessionInv /\ ProfileInv
    BY DEF FrontendInit, SessionInv, ProfileInv
  <1>2. SessionInv /\ ProfileInv /\ [FrontendNext]_vars => SessionInv' /\ ProfileInv'
    <2> SUFFICES ASSUME SessionInv, ProfileInv, [FrontendNext]_vars PROVE SessionInv' /\ ProfileInv'
      OBVIOUS
    <2>1. CASE UNCHANGED <<session, user, auth, profile, profileLoads>>
      BY <2>1 DEF SessionInv, ProfileInv
    <2>2. CASE authenticate \/ logout
      <3>1. UNCHANGED <<session, user, profile, profileLoads>>
        BY <2>2 DEF authenticate, logout, table, page, loads
      <3>2. PICK op \in {"login", "logout"}, u \in Users :
                auth' = [op |-> op, user |-> u, done |-> FALSE] /\ (op = "logout" <=> user # None)
        BY <2>2 DEF authenticate, logout, SessionInv
      <3>3. SessionInv'
        BY <3>1, <3>2 DEF SessionInv
      <3>4. QED
        BY <3>1, <3>3 DEF ProfileInv
    <2>3. CASE ServeAuth
      BY <2>3 DEF ServeAuth, page, loads, SessionInv, ProfileInv
    <2>4. CASE AuthFails
      BY <2>4 DEF AuthFails, table, page, loads, SessionInv, ProfileInv
    <2>5. CASE ProfileArrives
      BY <2>5 DEF ProfileArrives, table, calls, SessionInv, ProfileInv
    <2>6. CASE LoadFails
      BY <2>6 DEF LoadFails, table, page, calls, SessionInv, ProfileInv
    <2>7. CASE submit \/ ServeHistory \/ HistoryArrives
      BY <2>1, <2>7 DEF submit, ServeHistory, HistoryArrives, table, page, loads, calls
    <2>8. CASE ServeSubmit \/ SubmitFails \/ SubmitArrives
      BY <2>1, <2>8 DEF ServeSubmit, SubmitFails, SubmitArrives, table, page, loads
    <2>9. CASE Polling
      BY <2>1, <2>9 DEF Polling, PollFails, ServePoll, PollArrives, Judged, table, page, loads, calls
    <2>10. CASE UNCHANGED vars
      BY <2>1, <2>10 DEF vars, table, page, loads, calls
    <2>11. QED
      BY <2>2, <2>3, <2>4, <2>5, <2>6, <2>7, <2>8, <2>9, <2>10, AuthKeepsProfile,
         RendersKeepProfile, ServeKeepsProfile DEF FrontendNext, ByUser, Calls
  <1>3. ProfileInv => ProfileIsOfUser
    BY DEF ProfileInv, ProfileIsOfUser
  <1>4. QED
    BY <1>1, <1>2, <1>3, PTL DEF FrontendSpec, FrontendNext

=============================================================================
