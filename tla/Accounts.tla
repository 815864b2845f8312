------------------------------ MODULE Accounts ------------------------------
(***************************************************************************)
(* The tables users and sessions and the statements PostgreSQLAuthService  *)
(* runs against them. register_user and login are two statements each; the *)
(* handlers in AdminSite take them apart.                                  *)
(*                                                                         *)
(* A user name stands for all its spellings in upper and lower case, as    *)
(* the index on lower(username) does, and for the account, which is never  *)
(* deleted. A password is compared as a value: hashing and verification    *)
(* are libsodium's. A token is the number of the session it opened:        *)
(* 256 random bits are not drawn twice.                                    *)
(*                                                                         *)
(* The tables may have been filled from SQLite, and the administrator that *)
(* is configured may be another at every start, or have another password.  *)
(***************************************************************************)
EXTENDS Integers, Sequences, Tables

CONSTANTS
    Names,              \* user names that pass pg_validate
    Passwords,          \* passwords that pass pg_validate
    AdminNames,         \* values ALGORITHM_TRAINER_ADMIN_USERNAME may have
    AdminPasswords,     \* values ALGORITHM_TRAINER_ADMIN_PASSWORD may have
    CopiedNames,        \* accounts that may have come with the transfer
    Lifetime,           \* session_lifetime_seconds
    MaxTime,            \* bound of the model: the clock
    MaxCopied,          \* bound of the model: sessions that came with the transfer
    MaxSessions         \* bound of the model: sessions ever opened

ASSUME AccountsAssumption ==
    /\ AdminNames \subseteq Names /\ AdminPasswords \subseteq Passwords
    /\ CopiedNames \subseteq Names
    /\ Lifetime \in Nat /\ MaxTime \in Nat /\ MaxSessions \in Nat
    /\ MaxCopied \in 0 .. MaxSessions

VARIABLES
    users,      \* users[n]: the row of the account n
    given,      \* history: the passwords account n was given, and if with rights
    sessions,   \* the rows of sessions; history: proof is the password presented
                \* for it, version the last one given then, 0 for a copied session
    tokens,     \* tokens handed out
    now         \* clock_timestamp()

accounts == <<users, given, sessions, tokens, now>>

AccountsTypeOK ==
    /\ DOMAIN users \subseteq Names /\ DOMAIN given = DOMAIN users
    /\ \A n \in DOMAIN users : users[n] \in [password : Passwords, is_admin : BOOLEAN]
    /\ sessions \subseteq [token : 1 .. tokens, user : DOMAIN users,
                           expires : Nat, proof : Passwords, version : Nat]
    /\ tokens \in 0 .. MaxSessions
    /\ now \in 0 .. MaxTime

----------------------------------------------------------------------------

\* current_user: the account a token stands for, if any. Rows of expired
\* sessions stay in the table.
current_user(token) ==
    {s.user : s \in {r \in sessions : r.token = token /\ r.expires > now}}

has_admin_access(token) == \E n \in current_user(token) : users[n].is_admin

Gives(n, password, rights) ==
    given' = With(given, n, Append(IF n \in DOMAIN users THEN given[n] ELSE << >>,
                                   [password |-> password, rights |-> rights]))

InsertsUserAgain(n, password) ==
    /\ users' = With(users, n, [password |-> password, is_admin |-> FALSE])
    /\ Gives(n, password, FALSE)
    /\ UNCHANGED <<sessions, tokens, now>>

\* ON CONFLICT DO NOTHING: of two who ask for a name, one gets it.
InsertsUser(n, password) ==
    /\ n \notin DOMAIN users
    /\ users' = With(users, n, [password |-> password, is_admin |-> FALSE])
    /\ Gives(n, password, FALSE)
    /\ UNCHANGED <<sessions, tokens, now>>

InsertsSession(n, password) ==
    /\ tokens < MaxSessions
    /\ tokens' = tokens + 1
    /\ sessions' = sessions \cup {[token |-> tokens + 1, user |-> n,
                                   expires |-> now + Lifetime, proof |-> password,
                                   version |-> Len(given[n])]}
    /\ UNCHANGED <<users, given, now>>

DeletesSession(token) ==
    /\ sessions' = {s \in sessions : s.token # token}
    /\ UNCHANGED <<users, given, tokens, now>>

\* The configured account exists, is an administrator and has the configured
\* password, whoever registered the name and whatever the password was. Its
\* sessions stay.
ensure_admin(n, password) ==
    /\ users' = With(users, n, [password |-> password, is_admin |-> TRUE])
    /\ Gives(n, password, TRUE)
    /\ UNCHANGED <<sessions, tokens, now>>

Tick ==
    /\ now < MaxTime
    /\ now' = now + 1
    /\ UNCHANGED <<users, given, sessions, tokens>>

\* What the transfer may have left: accounts, some of administrators, and
\* sessions, opened with whatever password.
AccountsInit ==
    /\ \E copied \in SUBSET CopiedNames :
          users \in [copied -> [password : Passwords, is_admin : BOOLEAN]]
    /\ given = [n \in DOMAIN users |->
                   <<[password |-> users[n].password, rights |-> users[n].is_admin]>>]
    /\ tokens \in 0 .. MaxCopied
    /\ \E row \in [1 .. tokens ->
                      [user : DOMAIN users, expires : 0 .. Lifetime, proof : Passwords]] :
          sessions = {[token |-> k, user |-> row[k].user, expires |-> row[k].expires,
                       proof |-> row[k].proof, version |-> 0] : k \in 1 .. tokens}
    /\ now = 0

=============================================================================
