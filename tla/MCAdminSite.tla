---------------------------- MODULE MCAdminSite -----------------------------
(* Instances of AdminSite. Browsers differ in nothing.                     *)
EXTENDS AdminSite

Browsers == Permutations(Clients)

\* The only account is that of the administrator, and every start has the same
\* settings: a start gave it its password, and again after each crash.
OneSetting ==
    /\ DOMAIN users \subseteq {"admin"}
    /\ \A n \in DOMAIN users :
          /\ Len(given[n]) <= 1 + faults
          /\ \A g \in Range(given[n]) : g.password = "p1" /\ g.rights

\* Nobody edits problems.
NobodyEdits ==
    \A x \in Clients : loaded[x] = NothingLoaded /\ at[x] \in {"idle", "session"}

\* Bound of the run: passwords, administrators and copied tables vary as long
\* as nobody edits problems, whose statements do not look at them.
AccountsOrEdits == OneSetting \/ NobodyEdits

=============================================================================
