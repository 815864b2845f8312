----------------------- MODULE LockedStatementsProofs -----------------------
(* The statements under the advisory locks, for any number of connections, *)
(* users and rows and any limits: what each transaction has counted still  *)
(* holds when it commits.                                                  *)
EXTENDS LockedStatements, FiniteSetTheorems, TLAPS

----------------------------------------------------------------------------
\* The inductive invariant.

RowsType ==
    /\ sequence \in Nat
    /\ rows \in [Ids -> Row] /\ Ids \subseteq 1 .. sequence

SessionType ==
    /\ step \in [Connections -> {"idle", "begun", "locked", "executed", "recovering"}]
    /\ DOMAIN call = Connections /\ DOMAIN write = Connections /\ DOMAIN lock = Keys
    /\ \A c \in Connections : step[c] \in {"begun", "locked", "executed"} =>
          /\ call[c].op \in {"create", "retry", "claim_next"}
          /\ call[c].op = "create" => call[c].user \in Users
          /\ call[c].op = "retry" => call[c].id \in Ids

\* A transaction past pg_advisory_xact_lock holds its lock.
LockInv ==
    \A c \in Connections : step[c] \in {"locked", "executed"} => lock[KeyOf(call[c].op)] = c

\* What the new row n of the user u, a retry of o unless o is 0, was admitted
\* for is still so: nobody else inserts, and what others do makes room.
MayAdd(n, u, o) ==
    /\ n = sequence /\ n \notin Ids /\ n \in Nat \ {0} /\ u \in Users /\ o \in Nat
    /\ Admits(u)
    /\ o # 0 => /\ o \in Ids /\ rows[o].owner = u
                /\ rows[o].status = "failed" \/ rows[o].verdict = "runtime_error"
                /\ Retries(o) = {}

\* The row s may still be started: nobody else claims, and its user's earlier
\* rows have not come back.
MayStart(s) ==
    /\ s \in Ids /\ Claimable(s)
    /\ MaxRunningPerUser = 1 =>
          \A t \in Ids : t < s /\ rows[t].owner = rows[s].owner => rows[t].status \in Terminal

AddReady(c) ==
    /\ call[c].op # "claim_next"
    /\ \E n \in Nat, u \in Users, o \in Nat :
          MayAdd(n, u, o) /\ DOMAIN write[c] = {n} /\ write[c][n] = NewRow(u, o)

StartReady(c) ==
    /\ call[c].op = "claim_next"
    /\ \E s \in Ids :
          /\ MayStart(s) /\ DOMAIN write[c] = {s}
          /\ write[c][s] = [rows[s] EXCEPT !.status = "running"]

WriteOK(c) ==
    /\ step[c] # "executed" => DOMAIN write[c] = {}
    /\ DOMAIN write[c] # {} => AddReady(c) \/ StartReady(c)

WriteInv == \A c \in Connections : WriteOK(c)

\* retry_of REFERENCES submissions(id), which may have gaps here.
OriginalsExist == \A r \in Ids : rows[r].retry_of # 0 => rows[r].retry_of \in Ids

RowsInv ==
    /\ AdmissionLimits /\ RunningLimit /\ InOrderPerUser /\ RowShape
    /\ OriginalsExist /\ RetryLineage

LockedInv == RowsType /\ SessionType /\ LockInv /\ WriteInv /\ RowsInv

----------------------------------------------------------------------------
\* Facts about the rows.

\* The ids are positive and at most the last identity value; rows are rows.
LEMMA RowFacts ==
    ASSUME RowsType
    PROVE  \A s \in Ids : /\ s \in Nat /\ s > 0 /\ s <= sequence
                          /\ rows[s] \in Row
                          /\ rows[s].status \in Pending \cup Terminal
                          /\ rows[s].owner \in Users /\ rows[s].retry_of \in Nat
  <1>1. \A s \in Ids : rows[s] \in Row
    BY DEF RowsType
  <1>2. QED
    BY <1>1 DEF RowsType, Row

\* What the statements count is finite.
LEMMA Finite ==
    ASSUME RowsType
    PROVE  /\ IsFiniteSet(Active) /\ Cardinality(Active) \in Nat
           /\ \A u : IsFiniteSet(ActiveOf(u)) /\ Cardinality(ActiveOf(u)) \in Nat
           /\ \A u : IsFiniteSet(RunningOf(u)) /\ Cardinality(RunningOf(u)) \in Nat
  <1>1. IsFiniteSet(1 .. sequence)
    BY FS_Interval DEF RowsType
  <1>2. Active \in SUBSET (1 .. sequence)
    BY DEF Active, RowsType
  <1>3. \A u : ActiveOf(u) \in SUBSET (1 .. sequence)
    BY <1>2 DEF ActiveOf
  <1>4. \A u : RunningOf(u) \in SUBSET (1 .. sequence)
    BY DEF RunningOf, RowsType
  <1>5. QED
    BY <1>1, <1>2, <1>3, <1>4, FS_Subset, FS_CardinalityType

\* A row with a final state, or a verdict, is a finished one.
LEMMA FinishedRows ==
    ASSUME RowsType, RowShape, NEW s \in Ids,
           rows[s].status = "failed" \/ rows[s].verdict = "runtime_error"
    PROVE  rows[s].status \in Terminal
  BY RowFacts, VerdictsAssumption DEF RowShape, Pending, Terminal

----------------------------------------------------------------------------
\* The ways in which a transaction changes the rows.

\* complete, fail and recover_running: running rows are finished or queued.
Settles ==
    /\ Ids' = Ids
    /\ \A s \in Ids : rows'[s] # rows[s] =>
          /\ rows'[s].owner = rows[s].owner /\ rows'[s].retry_of = rows[s].retry_of
          /\ rows[s].status = "running"
          /\ \/ /\ rows'[s].status = "queued"
                /\ rows'[s].verdict = rows[s].verdict /\ rows'[s].error = rows[s].error
             \/ /\ rows'[s].status = "completed" /\ rows'[s].verdict # Null
                /\ rows'[s].verdict = "runtime_error" <=> rows'[s].error # Null
             \/ /\ rows'[s].status = "failed" /\ rows'[s].verdict = rows[s].verdict
                /\ rows'[s].error \in WorkerErrors

\* create and retry: one row more.
Adds(n, u, o) ==
    /\ Ids' = Ids \cup {n} /\ rows'[n] = NewRow(u, o)
    /\ \A s \in Ids : rows'[s] = rows[s]

\* claim_next: one row goes from queued to running.
Starts(s) ==
    /\ Ids' = Ids /\ rows'[s] = [rows[s] EXCEPT !.status = "running"]
    /\ \A t \in Ids : t # s => rows'[t] = rows[t]

\* Finished rows stay as they are; no row goes away or changes hands.
Kept ==
    \A s \in Ids :
        /\ s \in DOMAIN rows'
        /\ rows'[s].owner = rows[s].owner /\ rows'[s].retry_of = rows[s].retry_of
        /\ rows[s].status \in Terminal => rows'[s] = rows[s]

\* Counted sets that lose rows, or keep them, keep the limits and make room.
LEMMA Shrinks ==
    ASSUME RowsType, Active' \subseteq Active,
           \A u \in Users : ActiveOf(u)' \subseteq ActiveOf(u)
    PROVE  /\ AdmissionLimits => AdmissionLimits'
           /\ \A u \in Users : Admits(u) => Admits(u)'
  <1>1. Cardinality(Active') <= Cardinality(Active) /\ Cardinality(Active') \in Nat
    BY Finite, FS_Subset, FS_CardinalityType
  <1>2. \A u \in Users : /\ Cardinality(ActiveOf(u)') <= Cardinality(ActiveOf(u))
                         /\ Cardinality(ActiveOf(u)') \in Nat
    BY Finite, FS_Subset, FS_CardinalityType
  <1>3. Cardinality(Active) \in Nat /\ (\A u : Cardinality(ActiveOf(u)) \in Nat)
    BY Finite
  <1>4. AdmissionLimits => AdmissionLimits'
    BY <1>1, <1>2, <1>3, LimitsAssumption DEF AdmissionLimits
  <1>5. \A u \in Users : Admits(u) => Admits(u)'
    BY <1>1, <1>2, <1>3, LimitsAssumption DEF Admits
  <1>6. QED
    BY <1>4, <1>5

\* The same of the running rows of one user.
LEMMA FewerRunning ==
    ASSUME RowsType, NEW u, RunningOf(u)' \subseteq RunningOf(u)
    PROVE  /\ Cardinality(RunningOf(u)') <= Cardinality(RunningOf(u))
           /\ Cardinality(RunningOf(u)') \in Nat /\ Cardinality(RunningOf(u)) \in Nat
  BY Finite, FS_Subset, FS_CardinalityType

\* complete, fail and recover_running shrink the sets the others count.
LEMMA SettlesShrinks ==
    ASSUME RowsType, Settles
    PROVE  /\ Active' \subseteq Active
           /\ \A u : ActiveOf(u)' \subseteq ActiveOf(u)
           /\ \A u : RunningOf(u)' \subseteq RunningOf(u)
           /\ \A s \in Ids : rows'[s].owner = rows[s].owner /\ rows'[s].retry_of = rows[s].retry_of
           /\ \A s \in Ids : rows[s].status # "running" => rows'[s] = rows[s]
           /\ \A s \in Ids : rows[s].status \in Terminal => rows'[s] = rows[s]
  <1>1. /\ \A s \in Ids : rows'[s].owner = rows[s].owner /\ rows'[s].retry_of = rows[s].retry_of
        /\ \A s \in Ids : rows[s].status # "running" => rows'[s] = rows[s]
        /\ \A s \in Ids : rows'[s].status = "running" => rows[s].status = "running"
    BY DEF Settles
  <1>2. Active' \subseteq Active
    BY <1>1 DEF Active, Settles, Pending
  <1>3. \A u : ActiveOf(u)' \subseteq ActiveOf(u)
    BY <1>1, <1>2 DEF ActiveOf, Active, Settles
  <1>4. \A u : RunningOf(u)' \subseteq RunningOf(u)
    BY <1>1 DEF RunningOf, Settles
  <1>5. QED
    BY <1>1, <1>2, <1>3, <1>4 DEF Terminal

\* They keep what is said of the rows.
LEMMA SettlesKeeps ==
    ASSUME RowsType, RowsInv, Settles, audit' = audit PROVE RowsInv'
  <1> USE DEF RowsInv
  <1>1. AdmissionLimits'
    BY SettlesShrinks, Shrinks
  <1>2. RunningLimit'
    BY SettlesShrinks, FewerRunning, LimitsAssumption DEF RunningLimit
  <1>3. InOrderPerUser'
    <2> SUFFICES ASSUME MaxRunningPerUser = 1, NEW s \in Ids, NEW t \in Ids, s < t,
                        rows'[s].owner = rows'[t].owner, rows'[t].status # "queued"
                 PROVE  rows'[s].status \in Terminal
      BY DEF InOrderPerUser, Settles
    <2>1. rows[s].owner = rows[t].owner /\ rows[t].status # "queued"
      BY SettlesShrinks
    <2>2. rows[s].status \in Terminal
      BY <2>1 DEF InOrderPerUser
    <2>3. QED
      BY <2>2, SettlesShrinks
  <1>4. RowShape'
    <2> SUFFICES ASSUME NEW s \in Ids
                 PROVE  /\ rows'[s].status \in Pending =>
                              rows'[s].verdict = Null /\ rows'[s].error = Null
                        /\ rows'[s].status = "completed" =>
                              /\ rows'[s].verdict # Null
                              /\ rows'[s].verdict = "runtime_error" <=> rows'[s].error # Null
                        /\ rows'[s].status = "failed" =>
                              rows'[s].verdict = Null /\ rows'[s].error \in WorkerErrors
      BY DEF RowShape, Settles
    <2>1. CASE rows'[s] = rows[s]
      BY <2>1 DEF RowShape
    <2>2. CASE rows'[s] # rows[s]
      <3>1. rows[s].verdict = Null /\ rows[s].error = Null
        BY <2>2 DEF RowShape, Settles, Pending
      <3>2. QED
        BY <2>2, <3>1 DEF Settles, Pending
    <2>3. QED
      BY <2>1, <2>2
  <1>5. RetryLineage'
    <2>1. \A r \in Ids : rows[r].retry_of # 0 => rows'[rows[r].retry_of] = rows[rows[r].retry_of]
      BY SettlesShrinks, FinishedRows DEF RetryLineage, OriginalsExist
    <2>2. \A r \in Ids : rows'[r].retry_of = rows[r].retry_of /\ rows'[r].owner = rows[r].owner
      BY SettlesShrinks
    <2>3. audit' = {<<rows'[r].retry_of, r>> : r \in {q \in Ids : rows'[q].retry_of # 0}}
      BY <2>2 DEF RetryLineage
    <2>4. QED
      BY <2>1, <2>2, <2>3 DEF RetryLineage, Settles
  <1>6. OriginalsExist'
    BY SettlesShrinks DEF OriginalsExist, Settles
  <1>7. QED
    BY <1>1, <1>2, <1>3, <1>4, <1>5, <1>6

\* A row is added: what was admitted is counted once.
LEMMA AddsKeeps ==
    ASSUME RowsType, RowsInv, NEW n, NEW u, NEW o, MayAdd(n, u, o), Adds(n, u, o),
           audit' = audit \cup (IF o = 0 THEN {} ELSE {<<o, n>>})
    PROVE  RowsInv'
  <1> USE DEF RowsInv
  <1>a. /\ n \notin Ids /\ n \in Nat /\ u \in Users /\ o \in Nat /\ Admits(u)
        /\ \A s \in Ids : s < n /\ s \in Nat /\ s > 0
    BY RowFacts DEF MayAdd, RowsType
  <1>b. /\ Ids' = Ids \cup {n} /\ \A s \in Ids : rows'[s] = rows[s]
        /\ rows'[n].status = "queued" /\ rows'[n].owner = u /\ rows'[n].retry_of = o
        /\ rows'[n].verdict = Null /\ rows'[n].error = Null
    BY DEF Adds, NewRow
  <1>1. AdmissionLimits'
    <2>1. Active' = Active \cup {n} /\ n \notin Active
      BY <1>a, <1>b DEF Active, Pending
    <2>2. ActiveOf(u)' = ActiveOf(u) \cup {n} /\ n \notin ActiveOf(u)
      BY <1>a, <1>b, <2>1 DEF ActiveOf, Active
    <2>3. \A v \in Users : v # u => ActiveOf(v)' = ActiveOf(v)
      BY <1>a, <1>b, <2>1 DEF ActiveOf, Active
    <2>4. Cardinality(Active)' = Cardinality(Active) + 1
      BY <2>1, Finite, FS_AddElement, Zenon
    <2>5. Cardinality(ActiveOf(u))' = Cardinality(ActiveOf(u)) + 1
      BY <2>2, Finite, FS_AddElement, Zenon
    <2>6. Cardinality(Active)' <= MaxActive /\ Cardinality(ActiveOf(u))' <= MaxActivePerUser
      BY <1>a, <2>4, <2>5, Finite, LimitsAssumption DEF Admits
    <2>7. QED
      BY <2>3, <2>6 DEF AdmissionLimits
  <1>2. RunningLimit'
    <2>1. \A v \in Users : RunningOf(v)' = RunningOf(v)
      BY <1>a, <1>b DEF RunningOf
    <2>2. QED
      BY <2>1 DEF RunningLimit
  <1>3. InOrderPerUser'
    BY <1>a, <1>b DEF InOrderPerUser
  <1>4. RowShape'
    BY <1>a, <1>b DEF RowShape, Pending
  <1>5. OriginalsExist'
    BY <1>a, <1>b DEF OriginalsExist, MayAdd
  <1>6. RetryLineage'
    <2>1. \A r \in Ids' : rows'[r].retry_of # 0 =>
             /\ rows'[r].retry_of \in 1 .. (r - 1)
             /\ rows'[rows'[r].retry_of].owner = rows'[r].owner
             /\ \/ rows'[rows'[r].retry_of].status = "failed"
                \/ rows'[rows'[r].retry_of].verdict = "runtime_error"
      <3>1. ASSUME NEW r \in Ids, rows'[r].retry_of # 0
            PROVE  /\ rows'[r].retry_of \in 1 .. (r - 1)
                   /\ rows'[rows'[r].retry_of].owner = rows'[r].owner
                   /\ \/ rows'[rows'[r].retry_of].status = "failed"
                      \/ rows'[rows'[r].retry_of].verdict = "runtime_error"
        BY <1>b, <3>1 DEF OriginalsExist, RetryLineage
      <3>2. o # 0 => /\ o \in 1 .. (n - 1) /\ rows'[o].owner = u
                     /\ rows'[o].status = "failed" \/ rows'[o].verdict = "runtime_error"
        BY <1>a, <1>b DEF MayAdd
      <3>3. QED
        BY <1>b, <3>1, <3>2
    <2>2. o # 0 => \A r \in Ids : rows[r].retry_of # o
      BY DEF MayAdd, Retries
    <2>3. \A r, q \in Ids' : rows'[r].retry_of = rows'[q].retry_of /\ rows'[r].retry_of # 0
             => r = q
      BY <1>b, <2>2 DEF RetryLineage
    <2>4. {q \in Ids' : rows'[q].retry_of # 0} =
             {q \in Ids : rows[q].retry_of # 0} \cup (IF o = 0 THEN {} ELSE {n})
      BY <1>b
    <2>5. audit' = {<<rows'[r].retry_of, r>> : r \in {q \in Ids' : rows'[q].retry_of # 0}}
      BY <1>a, <1>b, <2>4 DEF RetryLineage
    <2>6. QED
      BY <2>1, <2>3, <2>5 DEF RetryLineage
  <1>7. QED
    BY <1>1, <1>2, <1>3, <1>4, <1>5, <1>6

\* A row is started: its user had room, and nothing earlier is left to judge.
LEMMA StartsKeeps ==
    ASSUME RowsType, RowsInv, NEW s, MayStart(s), Starts(s), audit' = audit PROVE RowsInv'
  <1> USE DEF RowsInv
  <1>a. /\ s \in Ids /\ Claimable(s) /\ rows[s].status = "queued" /\ rows[s] \in Row
        /\ rows[s].owner \in Users
    BY RowFacts DEF MayStart, Claimable
  <1>b. /\ Ids' = Ids /\ \A t \in Ids : t # s => rows'[t] = rows[t]
        /\ rows'[s].status = "running" /\ rows'[s].owner = rows[s].owner
        /\ rows'[s].verdict = rows[s].verdict /\ rows'[s].error = rows[s].error
        /\ rows'[s].retry_of = rows[s].retry_of
    BY <1>a DEF Starts, Row
  <1>c. /\ \A t \in Ids : rows'[t].owner = rows[t].owner /\ rows'[t].retry_of = rows[t].retry_of
        /\ \A t \in Ids : rows[t].status \in Terminal => rows'[t] = rows[t]
    BY <1>a, <1>b DEF Terminal
  <1>1. AdmissionLimits'
    <2>1. Active' \subseteq Active
      BY <1>a, <1>b DEF Active, Pending
    <2>2. \A u \in Users : ActiveOf(u)' \subseteq ActiveOf(u)
      BY <1>b, <1>c, <2>1 DEF ActiveOf, Active
    <2>3. QED
      BY <2>1, <2>2, Shrinks
  <1>2. RunningLimit'
    <2> PICK u \in Users : u = rows[s].owner
      BY <1>a
    <2>1. RunningOf(u)' = RunningOf(u) \cup {s} /\ s \notin RunningOf(u)
      BY <1>a, <1>b DEF RunningOf
    <2>2. \A v \in Users : v # u => RunningOf(v)' = RunningOf(v)
      BY <1>a, <1>b DEF RunningOf
    <2>3. Cardinality(RunningOf(u)) < MaxRunningPerUser
      BY <1>a DEF Claimable
    <2>4. Cardinality(RunningOf(u)') = Cardinality(RunningOf(u)) + 1
      BY <2>1, Finite, FS_AddElement, Zenon
    <2>5. Cardinality(RunningOf(u)') <= MaxRunningPerUser
      BY <2>3, <2>4, Finite, LimitsAssumption
    <2>6. QED
      BY <2>2, <2>5 DEF RunningLimit
  <1>3. InOrderPerUser'
    <2> SUFFICES ASSUME MaxRunningPerUser = 1, NEW r \in Ids, NEW t \in Ids, r < t,
                        rows'[r].owner = rows'[t].owner, rows'[t].status # "queued"
                 PROVE  rows'[r].status \in Terminal
      BY <1>b DEF InOrderPerUser
    <2>1. rows[r].status \in Terminal
      BY <1>b, <1>c DEF InOrderPerUser, MayStart
    <2>2. QED
      BY <1>c, <2>1
  <1>4. RowShape'
    BY <1>a, <1>b DEF RowShape, Pending
  <1>5. OriginalsExist'
    BY <1>b, <1>c DEF OriginalsExist
  <1>6. RetryLineage'
    <2>1. \A r \in Ids : rows[r].retry_of # 0 => rows'[rows[r].retry_of] = rows[rows[r].retry_of]
      BY <1>c, FinishedRows DEF RetryLineage, OriginalsExist
    <2>2. audit' = {<<rows'[r].retry_of, r>> : r \in {q \in Ids : rows'[q].retry_of # 0}}
      BY <1>c DEF RetryLineage
    <2>3. QED
      BY <1>b, <1>c, <2>1, <2>2 DEF RetryLineage
  <1>7. QED
    BY <1>1, <1>2, <1>3, <1>4, <1>5, <1>6

----------------------------------------------------------------------------
\* What a transaction has counted and selected stays so until it commits.

\* Rows that are finished or queued again take nothing away from it.
LEMMA SettlesReady ==
    ASSUME RowsType, RowsInv, Settles, sequence' = sequence
    PROVE  /\ \A n, u, o : MayAdd(n, u, o) => MayAdd(n, u, o)'
           /\ \A s : MayStart(s) => MayStart(s)' /\ rows'[s] = rows[s]
  <1> USE DEF RowsInv
  <1>1. ASSUME NEW n, NEW u, NEW o, MayAdd(n, u, o) PROVE MayAdd(n, u, o)'
    <2>1. Admits(u)'
      BY <1>1, SettlesShrinks, Shrinks DEF MayAdd
    <2>2. o # 0 => o \in Ids /\ rows'[o] = rows[o] /\ Retries(o)' = {}
      <3>1. o # 0 => o \in Ids /\ rows[o].status \in Terminal
        BY <1>1, FinishedRows DEF MayAdd
      <3>2. QED
        BY <1>1, <3>1, SettlesShrinks DEF MayAdd, Retries, Settles
    <2>3. QED
      BY <1>1, <2>1, <2>2 DEF MayAdd, Settles
  <1>2. ASSUME NEW s, MayStart(s) PROVE MayStart(s)' /\ rows'[s] = rows[s]
    <2>1. s \in Ids /\ rows[s].status = "queued" /\ rows'[s] = rows[s]
      BY <1>2, SettlesShrinks DEF MayStart, Claimable
    <2>2. Cardinality(RunningOf(rows[s].owner)') < MaxRunningPerUser
      BY <1>2, SettlesShrinks, FewerRunning, LimitsAssumption DEF MayStart, Claimable
    <2>3. Claimable(s)'
      BY <2>1, <2>2 DEF Claimable
    <2>4. MaxRunningPerUser = 1 =>
             \A t \in Ids : t < s /\ rows'[t].owner = rows'[s].owner => rows'[t].status \in Terminal
      BY <1>2, <2>1, SettlesShrinks DEF MayStart
    <2>5. QED
      BY <2>1, <2>3, <2>4 DEF MayStart, Settles
  <1>3. QED
    BY <1>1, <1>2

\* A new row has a later id, and is not running.
LEMMA AddsReady ==
    ASSUME RowsType, NEW n, NEW u, NEW o, MayAdd(n, u, o), Adds(n, u, o)
    PROVE  \A s : MayStart(s) => MayStart(s)' /\ rows'[s] = rows[s]
  <1> SUFFICES ASSUME NEW s, MayStart(s) PROVE MayStart(s)' /\ rows'[s] = rows[s]
    OBVIOUS
  <1>a. /\ n \notin Ids /\ n \in Nat /\ \A t \in Ids : t < n /\ t \in Nat
        /\ Ids' = Ids \cup {n} /\ \A t \in Ids : rows'[t] = rows[t]
        /\ rows'[n].status = "queued" /\ s \in Ids
    BY RowFacts DEF MayAdd, Adds, NewRow, MayStart, RowsType
  <1>1. \A v : RunningOf(v)' = RunningOf(v)
    BY <1>a DEF RunningOf
  <1>2. Claimable(s)'
    BY <1>a, <1>1 DEF Claimable, MayStart
  <1>3. QED
    BY <1>a, <1>2 DEF MayStart

\* A row that is started is still counted, and was not finished.
LEMMA StartsReady ==
    ASSUME RowsType, RowsInv, NEW s, MayStart(s), Starts(s), sequence' = sequence
    PROVE  \A n, u, o : MayAdd(n, u, o) => MayAdd(n, u, o)'
  <1> SUFFICES ASSUME NEW n, NEW u, NEW o, MayAdd(n, u, o) PROVE MayAdd(n, u, o)'
    OBVIOUS
  <1>a. s \in Ids /\ rows[s].status = "queued" /\ rows[s] \in Row
    BY RowFacts DEF MayStart, Claimable
  <1>b. /\ Ids' = Ids /\ \A t \in Ids : t # s => rows'[t] = rows[t]
        /\ rows'[s].owner = rows[s].owner /\ rows'[s].retry_of = rows[s].retry_of
    BY <1>a DEF Starts, Row
  <1>1. Active' \subseteq Active
    BY <1>a, <1>b DEF Active, Pending
  <1>2. \A v \in Users : ActiveOf(v)' \subseteq ActiveOf(v)
    BY <1>b, <1>1 DEF ActiveOf, Active
  <1>3. Admits(u)'
    BY <1>1, <1>2, Shrinks DEF MayAdd
  <1>4. o # 0 => o \in Ids /\ rows'[o] = rows[o] /\ Retries(o)' = {}
    <2>1. o # 0 => o \in Ids /\ rows[o].status \in Terminal
      BY FinishedRows DEF MayAdd, RowsInv
    <2>2. QED
      BY <1>a, <1>b, <2>1 DEF MayAdd, Retries, Terminal
  <1>5. QED
    BY <1>b, <1>3, <1>4 DEF MayAdd

\* Two transactions with the same advisory lock are never past it together.
LEMMA Exclusion ==
    ASSUME SessionType, LockInv, NEW c \in Connections, NEW d \in Connections, c # d,
           step[c] \in {"locked", "executed"}, step[d] \in {"locked", "executed"}
    PROVE  call[c].op = "claim_next" <=> call[d].op # "claim_next"
  BY DEF SessionType, LockInv, KeyOf

----------------------------------------------------------------------------
\* The steps of a connection.

OthersStay(c) ==
    /\ DOMAIN write' = Connections
    /\ \A d \in Connections \ {c} :
          step'[d] = step[d] /\ call'[d] = call[d] /\ write'[d] = write[d]

\* What a connection that takes no step is about to commit.
LEMMA OtherWrites ==
    ASSUME NEW d \in Connections, WriteOK(d),
           step'[d] = step[d] /\ call'[d] = call[d] /\ write'[d] = write[d],
           AddReady(d) => \A n, u, o : MayAdd(n, u, o) => MayAdd(n, u, o)',
           StartReady(d) => \A s : MayStart(s) => MayStart(s)' /\ rows'[s] = rows[s]
    PROVE  WriteOK(d)'
  <1>1. ASSUME AddReady(d) PROVE AddReady(d)'
    BY <1>1 DEF AddReady
  <1>2. ASSUME StartReady(d) PROVE StartReady(d)'
    <2>1. PICK s \in Ids : /\ MayStart(s) /\ DOMAIN write[d] = {s}
                           /\ write[d][s] = [rows[s] EXCEPT !.status = "running"]
      BY <1>2 DEF StartReady
    <2>2. MayStart(s)' /\ rows'[s] = rows[s]
      BY <1>2, <2>1
    <2>3. s \in Ids'
      BY <2>2 DEF MayStart
    <2>4. QED
      BY <1>2, <2>1, <2>2, <2>3 DEF StartReady
  <1>3. QED
    BY <1>1, <1>2 DEF WriteOK

\* A step that finishes rows, queues them again or leaves them alone.
LEMMA SettlingStep ==
    ASSUME LockedInv, NEW c \in Connections, Settles, audit' = audit, sequence' = sequence,
           rows' \in [Ids' -> Row], OthersStay(c), SessionType', LockInv', WriteOK(c)'
    PROVE  LockedInv' /\ Kept
  <1> USE DEF LockedInv
  <1>1. RowsType'
    BY DEF RowsType, Settles
  <1>2. RowsInv'
    BY SettlesKeeps
  <1>3. \A d \in Connections : d # c => WriteOK(d)'
    BY OtherWrites, SettlesReady DEF OthersStay, WriteInv
  <1>4. Kept
    BY SettlesShrinks DEF Kept, Settles, Ids
  <1>5. QED
    BY <1>1, <1>2, <1>3, <1>4 DEF WriteInv

\* The end of a transaction leaves the others their locks.
LEMMA ReleasesKeeps ==
    ASSUME LockedInv, NEW c \in Connections, Releases(c), Ids \subseteq Ids'
    PROVE  SessionType' /\ LockInv' /\ OthersStay(c) /\ WriteOK(c)'
  <1> USE DEF LockedInv
  <1>1. /\ DOMAIN write = Connections /\ DOMAIN step = Connections /\ DOMAIN call = Connections
        /\ write'[c] = NoRows /\ step'[c] = "idle" /\ DOMAIN write' = Connections
        /\ DOMAIN NoRows = {}
    BY DEF SessionType, Releases, NoRows
  <1>2. OthersStay(c)
    BY <1>1 DEF Releases, OthersStay
  <1>3. SessionType'
    BY <1>1, <1>2 DEF SessionType, Releases, OthersStay
  <1>4. LockInv'
    BY <1>1, <1>2 DEF SessionType, Releases, OthersStay, LockInv, KeyOf, Keys
  <1>5. WriteOK(c)'
    BY <1>1 DEF WriteOK
  <1>6. QED
    BY <1>2, <1>3, <1>4, <1>5

\* BEGIN.
LEMMA BeginStep ==
    ASSUME LockedInv, NEW c \in Connections, Begin(c) PROVE LockedInv'
  <1> USE DEF LockedInv
  <1>1. PICK k \in Calls : (k.op = "retry" => k.id \in Ids) /\ call' = [call EXCEPT ![c] = k]
    BY DEF Begin
  <1>2. /\ step[c] = "idle" /\ step' = [step EXCEPT ![c] = "begun"]
        /\ UNCHANGED <<rows, audit, write, lock, sequence>>
    BY DEF Begin, table
  <1>3. /\ k.op \in {"create", "retry", "claim_next"}
        /\ k.op = "create" => k.user \in Users
    BY <1>1 DEF Calls, NoCall
  <1>4. Settles /\ rows' \in [Ids' -> Row] /\ Ids' = Ids
    BY <1>2 DEF Settles, Ids, RowsType
  <1>5. OthersStay(c)
    BY <1>1, <1>2 DEF OthersStay, SessionType
  <1>6. SessionType'
    BY <1>1, <1>2, <1>3, <1>4 DEF SessionType
  <1>7. LockInv'
    BY <1>1, <1>2 DEF SessionType, LockInv
  <1>8. WriteOK(c)'
    BY <1>2 DEF SessionType, WriteInv, WriteOK
  <1>9. QED
    BY <1>2, <1>4, <1>5, <1>6, <1>7, <1>8, SettlingStep

\* pg_advisory_xact_lock returns: nobody held the lock.
LEMMA LockStep ==
    ASSUME LockedInv, NEW c \in Connections, Lock(c) PROVE LockedInv'
  <1> USE DEF LockedInv
  <1>1. /\ step[c] = "begun" /\ step' = [step EXCEPT ![c] = "locked"]
        /\ lock[KeyOf(call[c].op)] = None /\ lock' = [lock EXCEPT ![KeyOf(call[c].op)] = c]
        /\ UNCHANGED <<rows, audit, call, write, sequence>>
    BY DEF Lock, table
  <1>2. Settles /\ rows' \in [Ids' -> Row] /\ Ids' = Ids
    BY <1>1 DEF Settles, Ids, RowsType
  <1>3. OthersStay(c)
    BY <1>1 DEF OthersStay, SessionType
  <1>4. SessionType'
    BY <1>1, <1>2 DEF SessionType
  <1>5. LockInv'
    <2>1. KeyOf(call[c].op) \in DOMAIN lock
      BY DEF SessionType, KeyOf, Keys
    <2>2. lock'[KeyOf(call[c].op)] = c
      BY <1>1, <2>1
    <2>3. ASSUME NEW d \in Connections, d # c, step'[d] \in {"locked", "executed"}
          PROVE  lock'[KeyOf(call'[d].op)] = d
      <3>1. lock[KeyOf(call[d].op)] = d /\ d # None
        BY <1>1, <2>3, NoneAssumption DEF LockInv, SessionType
      <3>2. KeyOf(call[d].op) # KeyOf(call[c].op)
        BY <1>1, <3>1
      <3>3. QED
        BY <1>1, <3>1, <3>2
    <2>4. QED
      BY <1>1, <2>2, <2>3 DEF LockInv
  <1>6. WriteOK(c)'
    BY <1>1 DEF SessionType, WriteInv, WriteOK
  <1>7. QED
    BY <1>1, <1>2, <1>3, <1>4, <1>5, <1>6, SettlingStep

\* What an INSERT writes, before it is committed.
LEMMA InsertsKeeps ==
    ASSUME LockedInv, NEW c \in Connections, step[c] = "locked", call[c].op # "claim_next",
           step' = [step EXCEPT ![c] = "executed"], UNCHANGED <<rows, audit, call, lock>>,
           NEW u \in Users, NEW o \in Nat, Admits(u), Inserts(c, u, o),
           o # 0 => /\ o \in Ids /\ rows[o].owner = u
                    /\ rows[o].status = "failed" \/ rows[o].verdict = "runtime_error"
                    /\ Retries(o) = {}
    PROVE  LockedInv'
  <1> USE DEF LockedInv
  <1>1. /\ sequence \in Nat /\ sequence' = sequence + 1 /\ Ids \subseteq 1 .. sequence
        /\ write' = [write EXCEPT ![c] = With(NoRows, sequence + 1, NewRow(u, o))]
        /\ DOMAIN write = Connections /\ DOMAIN step = Connections
    BY DEF Inserts, RowsType, SessionType
  <1>2. /\ DOMAIN write'[c] = {sequence'} /\ write'[c][sequence'] = NewRow(u, o)
        /\ step'[c] = "executed"
    BY <1>1 DEF With, NoRows
  <1>3. OthersStay(c)
    BY <1>1 DEF OthersStay
  <1>4. RowsType' /\ Ids' = Ids /\ Settles
    BY <1>1 DEF RowsType, Ids, Settles
  <1>5. RowsInv'
    BY <1>4, SettlesKeeps
  <1>6. SessionType' /\ LockInv'
    BY <1>1, <1>4 DEF SessionType, LockInv
  <1>7. WriteOK(c)'
    <2> PICK n \in Nat : n = sequence + 1
      BY <1>1
    <2>1. MayAdd(n, u, o)'
      <3>1. Admits(u)' /\ (o # 0 => Retries(o)' = {})
        BY DEF Admits, Active, ActiveOf, Retries, Ids
      <3>2. QED
        BY <1>1, <1>4, <3>1 DEF MayAdd
    <2>2. AddReady(c)'
      BY <1>1, <1>2, <2>1 DEF AddReady
    <2>3. QED
      BY <1>2, <2>2 DEF WriteOK
  <1>8. ASSUME NEW d \in Connections, d # c PROVE WriteOK(d)'
    <2>1. ~AddReady(d) \/ step[d] # "executed"
      BY <1>8, Exclusion DEF AddReady
    <2>2. \A s : MayStart(s) => MayStart(s)' /\ rows'[s] = rows[s]
      BY DEF MayStart, Claimable, RunningOf, Ids
    <2>3. AddReady(d) => DOMAIN write[d] = {}
      BY <2>1, <1>8 DEF WriteInv, WriteOK
    <2>4. ~AddReady(d)
      BY <2>3 DEF AddReady
    <2>5. QED
      BY <1>3, <1>8, <2>2, <2>4, OtherWrites DEF OthersStay, WriteInv
  <1>9. QED
    BY <1>4, <1>5, <1>6, <1>7, <1>8 DEF WriteInv

\* A statement that writes nothing.
LEMMA NothingWritten ==
    ASSUME LockedInv, NEW c \in Connections, step[c] = "locked",
           step' = [step EXCEPT ![c] = "executed"], UNCHANGED <<rows, audit, call, lock>>,
           WritesNothing
    PROVE  LockedInv'
  <1> USE DEF LockedInv, WritesNothing
  <1>1. Settles /\ rows' \in [Ids' -> Row] /\ Ids' = Ids
    BY DEF Settles, Ids, RowsType
  <1>2. OthersStay(c) /\ SessionType' /\ LockInv'
    BY <1>1 DEF OthersStay, SessionType, LockInv
  <1>3. WriteOK(c)'
    BY DEF SessionType, WriteInv, WriteOK
  <1>4. QED
    BY <1>1, <1>2, <1>3, SettlingStep

\* The oldest claimable row that no other transaction has locked is the oldest
\* one: only claims lock rows that exist.
LEMMA ClaimsKeeps ==
    ASSUME LockedInv, NEW c \in Connections, step[c] = "locked", call[c].op = "claim_next",
           step' = [step EXCEPT ![c] = "executed"], UNCHANGED <<rows, audit, call, lock>>,
           Claims(c)
    PROVE  LockedInv'
  <1> USE DEF LockedInv
  <1>1. CASE Candidates(c) = {}
    BY <1>1, NothingWritten DEF Claims
  <1>2. CASE Candidates(c) # {}
    <2>1. PICK s \in Candidates(c) :
             /\ \A t \in Candidates(c) : s <= t
             /\ write' = [write EXCEPT ![c] = With(NoRows, s, [rows[s] EXCEPT !.status = "running"])]
             /\ UNCHANGED sequence
      BY <1>2 DEF Claims
    <2>2. Ids \cap RowLocked(c) = {}
      <3> SUFFICES ASSUME NEW d \in Connections, d # c, NEW t \in Ids, t \in DOMAIN write[d]
                   PROVE  FALSE
        BY DEF RowLocked
      <3>1. step[d] = "executed" /\ (AddReady(d) \/ StartReady(d))
        BY DEF WriteInv, WriteOK
      <3>2. ~StartReady(d)
        BY <3>1, Exclusion DEF StartReady
      <3>3. QED
        BY <3>1, <3>2 DEF AddReady, MayAdd
    <2>3. s \in Ids /\ Claimable(s) /\ \A t \in Ids : Claimable(t) => s <= t
      BY <2>1, <2>2 DEF Candidates
    <2>4. MayStart(s)
      <3> SUFFICES ASSUME MaxRunningPerUser = 1, NEW t \in Ids, t < s,
                          rows[t].owner = rows[s].owner
                   PROVE  rows[t].status \in Terminal
        BY <2>3 DEF MayStart
      <3>1. RunningOf(rows[s].owner) = {}
        <4>1. Cardinality(RunningOf(rows[s].owner)) = 0
          BY <2>3, Finite DEF Claimable
        <4>2. QED
          BY <4>1, Finite, FS_EmptySet
      <3>2. rows[t].status # "running"
        BY <3>1 DEF RunningOf
      <3>3. rows[t].status # "queued"
        <4> SUFFICES ASSUME rows[t].status = "queued" PROVE FALSE
          OBVIOUS
        <4>1. Claimable(t)
          BY <2>3 DEF Claimable
        <4>2. QED
          BY <2>3, <4>1, RowFacts
      <3>4. QED
        BY <3>2, <3>3, RowFacts DEF Pending, Terminal
    <2>5. Settles /\ rows' \in [Ids' -> Row] /\ Ids' = Ids
      BY DEF Settles, Ids, RowsType
    <2>6. DOMAIN write = Connections /\ DOMAIN step = Connections
      BY DEF SessionType
    <2>7. /\ DOMAIN write'[c] = {s} /\ write'[c][s] = [rows'[s] EXCEPT !.status = "running"]
          /\ step'[c] = "executed"
      BY <2>1, <2>6 DEF With, NoRows
    <2>8. OthersStay(c) /\ SessionType' /\ LockInv'
      BY <2>1, <2>5, <2>6 DEF OthersStay, SessionType, LockInv
    <2>9. WriteOK(c)'
      <3>1. MayStart(s)'
        BY <2>1, <2>4, <2>5, SettlesReady
      <3>2. s \in Ids'
        BY <2>3, <2>5
      <3>3. StartReady(c)'
        BY <2>7, <3>1, <3>2 DEF StartReady
      <3>4. QED
        BY <2>7, <3>3 DEF WriteOK
    <2>10. QED
      BY <2>1, <2>5, <2>8, <2>9, SettlingStep
  <1>3. QED
    BY <1>1, <1>2

\* The statement of create, retry or claim_next runs, in the snapshot it takes
\* once it has the lock.
LEMMA ExecuteStep ==
    ASSUME LockedInv, NEW c \in Connections, Execute(c) PROVE LockedInv'
  <1> USE DEF LockedInv
  <1>1. /\ step[c] = "locked" /\ step' = [step EXCEPT ![c] = "executed"]
        /\ UNCHANGED <<rows, audit, call, lock>>
    BY DEF Execute, table
  <1>2. CASE call[c].op = "create" /\ Creates(c)
    <2>1. call[c].user \in Users
      BY <1>1, <1>2 DEF SessionType
    <2>2. QED
      BY <1>1, <1>2, <2>1, InsertsKeeps, NothingWritten DEF Creates
  <1>3. CASE call[c].op = "retry" /\ Retried(c)
    <2> PICK s \in Ids : s = call[c].id
      BY <1>1, <1>3 DEF SessionType
    <2>1. s \in Nat /\ rows[s].owner \in Users
      BY RowFacts
    <2>2. CASE Retryable(s) /\ Admits(rows[s].owner)
      <3>1. Inserts(c, rows[s].owner, s)
        BY <1>3, <2>2 DEF Retried
      <3>2. QED
        BY <1>1, <1>3, <2>1, <2>2, <3>1, InsertsKeeps DEF Retryable
    <2>3. CASE ~(Retryable(s) /\ Admits(rows[s].owner))
      BY <1>1, <1>3, <2>3, NothingWritten DEF Retried
    <2>4. QED
      BY <2>2, <2>3
  <1>4. CASE call[c].op = "claim_next" /\ Claims(c)
    BY <1>1, <1>4, ClaimsKeeps
  <1>5. QED
    BY <1>2, <1>3, <1>4 DEF Execute

\* COMMIT: what was written becomes visible and the locks are given back.
LEMMA CommitStep ==
    ASSUME LockedInv, NEW c \in Connections, Commit(c) PROVE LockedInv' /\ Kept
  <1> USE DEF LockedInv
  <1>1. /\ step[c] = "executed" /\ Releases(c) /\ sequence' = sequence
        /\ DOMAIN rows' = DOMAIN write[c] \cup Ids
        /\ rows' = [k \in DOMAIN write[c] \cup Ids |->
                       IF k \in DOMAIN write[c] THEN write[c][k] ELSE rows[k]]
        /\ audit' = audit \cup {<<write[c][s].retry_of, s>> :
                                   s \in {t \in DOMAIN write[c] : write[c][t].retry_of # 0}}
    BY DEF Commit, Joined, Ids
  <1>2. SessionType' /\ LockInv' /\ OthersStay(c) /\ WriteOK(c)'
    BY <1>1, ReleasesKeeps DEF Ids
  <1>3. CASE DOMAIN write[c] = {}
    <2>1. Ids' = Ids /\ \A s \in Ids : rows'[s] = rows[s]
      BY <1>1, <1>3 DEF Ids
    <2>2. Settles /\ rows' \in [Ids' -> Row] /\ audit' = audit
      BY <1>1, <1>3, <2>1 DEF Settles, RowsType
    <2>3. QED
      BY <1>1, <1>2, <2>2, SettlingStep
  <1>4. CASE AddReady(c)
    <2>1. PICK n \in Nat, u \in Users, o \in Nat :
             MayAdd(n, u, o) /\ DOMAIN write[c] = {n} /\ write[c][n] = NewRow(u, o)
      BY <1>4 DEF AddReady
    <2>2. Adds(n, u, o)
      BY <1>1, <2>1 DEF Adds, Ids, MayAdd
    <2>3. audit' = audit \cup (IF o = 0 THEN {} ELSE {<<o, n>>})
      <3>1. write[c][n].retry_of = o
        BY <2>1 DEF NewRow
      <3>2. QED
        BY <1>1, <2>1, <3>1
    <2>4. RowsType'
      <3>1. NewRow(u, o) \in Row
        BY <2>1 DEF NewRow, Row, Pending
      <3>2. QED
        BY <1>1, <2>1, <2>2, <3>1 DEF RowsType, Adds, MayAdd
    <2>5. RowsInv'
      BY <2>1, <2>2, <2>3, AddsKeeps
    <2>6. ASSUME NEW d \in Connections, d # c PROVE WriteOK(d)'
      <3>1. ~AddReady(d)
        BY <1>1, <1>4, <2>6, Exclusion DEF AddReady, WriteInv, WriteOK
      <3>2. QED
        BY <1>2, <2>1, <2>2, <2>6, <3>1, AddsReady, OtherWrites
           DEF OthersStay, WriteInv
    <2>7. Kept
      BY <2>2 DEF Adds, Kept, Ids
    <2>8. QED
      BY <1>2, <2>4, <2>5, <2>6, <2>7 DEF WriteInv
  <1>5. CASE StartReady(c)
    <2>1. PICK s \in Ids : /\ MayStart(s) /\ DOMAIN write[c] = {s}
                           /\ write[c][s] = [rows[s] EXCEPT !.status = "running"]
      BY <1>5 DEF StartReady
    <2>2. Starts(s)
      BY <1>1, <2>1 DEF Starts, Ids
    <2>3. audit' = audit
      <3>1. rows[s] \in Row /\ rows[s].retry_of = write[c][s].retry_of
        BY <2>1, RowFacts DEF Row
      <3>2. rows[s].retry_of # 0 => <<rows[s].retry_of, s>> \in audit
        BY DEF RowsInv, RetryLineage
      <3>3. CASE rows[s].retry_of = 0
        <4>1. {t \in DOMAIN write[c] : write[c][t].retry_of # 0} = {}
          BY <2>1, <3>1, <3>3
        <4>2. QED
          BY <1>1, <4>1
      <3>4. CASE rows[s].retry_of # 0
        <4>1. {t \in DOMAIN write[c] : write[c][t].retry_of # 0} = {s}
          BY <2>1, <3>1, <3>4
        <4>2. audit' = audit \cup {<<rows[s].retry_of, s>>}
          BY <1>1, <3>1, <4>1
        <4>3. QED
          BY <3>2, <3>4, <4>2
      <3>5. QED
        BY <3>3, <3>4
    <2>4. RowsType'
      <3>1. rows[s] \in Row
        BY RowFacts
      <3>2. [rows[s] EXCEPT !.status = "running"] \in Row
        BY <3>1 DEF Row, Pending
      <3>3. QED
        BY <1>1, <2>1, <2>2, <3>2 DEF RowsType, Starts
    <2>5. RowsInv'
      BY <2>1, <2>2, <2>3, StartsKeeps
    <2>6. ASSUME NEW d \in Connections, d # c PROVE WriteOK(d)'
      <3>1. ~StartReady(d)
        BY <1>1, <1>5, <2>6, Exclusion DEF StartReady, WriteInv, WriteOK
      <3>2. QED
        BY <1>1, <1>2, <2>1, <2>2, <2>6, <3>1, StartsReady, OtherWrites
           DEF OthersStay, WriteInv
    <2>7. Kept
      <3>1. rows[s].status = "queued" /\ rows[s] \in Row
        BY <2>1, RowFacts DEF MayStart, Claimable
      <3>2. QED
        BY <2>2, <3>1 DEF Starts, Kept, Ids, Row, Terminal
    <2>8. QED
      BY <1>2, <2>4, <2>5, <2>6, <2>7 DEF WriteInv
  <1>6. QED
    BY <1>3, <1>4, <1>5 DEF WriteInv, WriteOK

\* ROLLBACK, or the connection is lost.
LEMMA AbortStep ==
    ASSUME LockedInv, NEW c \in Connections, Abort(c) PROVE LockedInv'
  <1>1. Releases(c) /\ UNCHANGED <<rows, audit, sequence>>
    BY DEF Abort, table
  <1>2. Settles /\ rows' \in [Ids' -> Row] /\ Ids' = Ids
    BY <1>1 DEF Settles, Ids, LockedInv, RowsType
  <1>3. QED
    BY <1>1, <1>2, ReleasesKeeps, SettlingStep

\* complete and fail, without a lock.
LEMMA FinishStep ==
    ASSUME LockedInv, NEW c \in Connections, Finish(c) PROVE LockedInv' /\ Kept
  <1> USE DEF LockedInv
  <1>1. UNCHANGED <<step, call, write, lock, sequence>>
    BY DEF Finish, session
  <1>2. PICK s \in Ids : \/ \E j \in Judgement : complete(s, j.verdict, j.error)
                         \/ fail(s, "worker_error")
    BY DEF Finish
  <1>3. rows[s] \in Row /\ rows[s].status = "running"
    BY <1>2, RowFacts DEF complete, fail
  <1>4. Settles /\ rows' \in [Ids' -> Row] /\ audit' = audit /\ Ids' = Ids
    <2>1. ASSUME NEW j \in Judgement, complete(s, j.verdict, j.error)
          PROVE  Settles /\ rows' \in [Ids' -> Row] /\ audit' = audit /\ Ids' = Ids
      <3> DEFINE r == [rows[s] EXCEPT !.status = "completed", !.verdict = j.verdict,
                                      !.error = j.error]
      <3>1. /\ j.verdict \in Verdicts /\ j.verdict # Null /\ j.error \in ErrorTypes \cup {Null}
            /\ j.verdict = "runtime_error" <=> j.error # Null
        BY VerdictsAssumption DEF Judgement, ErrorTypes
      <3>2. /\ r \in Row /\ r.status = "completed" /\ r.verdict = j.verdict /\ r.error = j.error
            /\ r.owner = rows[s].owner /\ r.retry_of = rows[s].retry_of
        BY <1>3, <3>1 DEF Row, Terminal
      <3>3. rows' = [rows EXCEPT ![s] = r] /\ audit' = audit
        BY <2>1 DEF complete
      <3> HIDE DEF r
      <3>4. rows' \in [Ids -> Row] /\ Ids' = Ids
        BY <3>2, <3>3 DEF RowsType, Ids
      <3>5. QED
        BY <1>3, <3>1, <3>2, <3>3, <3>4 DEF Settles, RowsType
    <2>2. ASSUME fail(s, "worker_error")
          PROVE  Settles /\ rows' \in [Ids' -> Row] /\ audit' = audit /\ Ids' = Ids
      <3> DEFINE r == [rows[s] EXCEPT !.status = "failed", !.error = "worker_error"]
      <3>1. /\ r \in Row /\ r.status = "failed" /\ r.verdict = rows[s].verdict
            /\ r.error = "worker_error" /\ "worker_error" \in WorkerErrors
            /\ r.owner = rows[s].owner /\ r.retry_of = rows[s].retry_of
        BY <1>3 DEF Row, Terminal, ErrorTypes, WorkerErrors
      <3>2. rows' = [rows EXCEPT ![s] = r] /\ audit' = audit
        BY <2>2 DEF fail
      <3> HIDE DEF r
      <3>3. rows' \in [Ids -> Row] /\ Ids' = Ids
        BY <3>1, <3>2 DEF RowsType, Ids
      <3>4. QED
        BY <1>3, <3>1, <3>2, <3>3 DEF Settles, RowsType
    <2>3. QED
      BY <1>2, <2>1, <2>2
  <1>5. OthersStay(c) /\ SessionType' /\ LockInv'
    BY <1>1, <1>4 DEF OthersStay, SessionType, LockInv
  <1>6. \A d \in Connections : step[d] = "idle" => DOMAIN write[d] = {}
    BY DEF WriteInv, WriteOK
  <1>7. WriteOK(c)'
    BY <1>1, <1>6 DEF WriteOK, Finish
  <1>8. QED
    BY <1>1, <1>4, <1>5, <1>7, SettlingStep

\* recover_running takes its snapshot, and updates the rows in it that are
\* still running.
LEMMA RecoverStep ==
    ASSUME LockedInv, NEW c \in Connections, RecoverReads(c) \/ RecoverWrites(c)
    PROVE  LockedInv' /\ Kept
  <1> USE DEF LockedInv
  <1>1. CASE RecoverReads(c)
    <2>1. /\ step[c] = "idle" /\ step' = [step EXCEPT ![c] = "recovering"]
          /\ UNCHANGED <<rows, audit, call, write, lock, sequence>>
      BY <1>1 DEF RecoverReads, table
    <2>2. Settles /\ rows' \in [Ids' -> Row] /\ Ids' = Ids
      BY <2>1 DEF Settles, Ids, RowsType
    <2>3. OthersStay(c) /\ SessionType' /\ LockInv'
      BY <2>1, <2>2 DEF OthersStay, SessionType, LockInv
    <2>4. WriteOK(c)'
      BY <2>1 DEF SessionType, WriteInv, WriteOK
    <2>5. QED
      BY <2>1, <2>2, <2>3, <2>4, SettlingStep
  <1>2. CASE RecoverWrites(c)
    <2>1. /\ Releases(c) /\ audit' = audit /\ sequence' = sequence
          /\ rows' = [s \in Ids |-> IF s \in seen[c] THEN Requeued[s] ELSE rows[s]]
      BY <1>2 DEF RecoverWrites
    <2>2. Ids' = Ids
      BY <2>1 DEF Ids
    <2>3. \A s \in Ids : rows'[s] = rows[s] \/ ( /\ rows[s].status = "running"
                                                 /\ rows'[s] = [rows[s] EXCEPT !.status = "queued"])
      BY <2>1 DEF Requeued
    <2>4. \A s \in Ids : rows[s] \in Row
      BY RowFacts
    <2>5. Settles
      BY <2>2, <2>3, <2>4 DEF Settles, Row
    <2>6. \A s \in Ids : rows'[s] \in Row
      BY <2>3, <2>4 DEF Row, Pending
    <2>7. rows' \in [Ids' -> Row]
      BY <2>1, <2>2, <2>6
    <2>8. QED
      BY <2>1, <2>2, <2>5, <2>7, ReleasesKeeps, SettlingStep
  <1>3. QED
    BY <1>1, <1>2

\* One step per action.
LEMMA LockedInvStep == LockedInv /\ [LockedNext]_vars => LockedInv'
  <1> SUFFICES ASSUME LockedInv, [LockedNext]_vars PROVE LockedInv'
    OBVIOUS
  <1>1. CASE LockedNext
    BY <1>1, BeginStep, LockStep, ExecuteStep, CommitStep, AbortStep, FinishStep, RecoverStep
       DEF LockedNext
  <1>2. CASE UNCHANGED vars
    <2> USE <1>2 DEF vars, LockedInv
    <2>1. RowsType' /\ SessionType' /\ LockInv'
      BY DEF RowsType, SessionType, LockInv, Ids
    <2>2. RowsInv'
      BY SettlesKeeps DEF Settles, Ids
    <2>3. WriteInv'
      <3>1. Settles /\ sequence' = sequence /\ UNCHANGED <<step, call, write>>
        BY DEF Settles, Ids
      <3>2. QED
        BY <3>1, SettlesReady, OtherWrites DEF WriteInv
    <2>4. QED
      BY <2>1, <2>2, <2>3
  <1>3. QED
    BY <1>1, <1>2

\* An empty table, and nobody connected.
LEMMA LockedInvInit == LockedInit => LockedInv
  <1> SUFFICES ASSUME LockedInit PROVE LockedInv
    OBVIOUS
  <1> USE DEF LockedInit, TableInit
  <1>1. Ids = {} /\ audit = {} /\ sequence = 0
    BY DEF Ids
  <1>2. RowsType /\ SessionType /\ LockInv /\ WriteInv
    BY <1>1 DEF RowsType, Ids, SessionType, LockInv, WriteInv, WriteOK, NoRows
  <1>3. AdmissionLimits /\ RunningLimit
    <2>1. Active = {} /\ (\A u \in Users : ActiveOf(u) = {} /\ RunningOf(u) = {})
      BY <1>1 DEF Active, ActiveOf, RunningOf
    <2>2. Cardinality(Active) = 0 /\ \A u \in Users : /\ Cardinality(ActiveOf(u)) = 0
                                                    /\ Cardinality(RunningOf(u)) = 0
      BY <2>1, FS_EmptySet
    <2>3. QED
      BY <2>2, LimitsAssumption DEF AdmissionLimits, RunningLimit
  <1>4. InOrderPerUser /\ RowShape /\ OriginalsExist /\ RetryLineage
    BY <1>1 DEF InOrderPerUser, RowShape, OriginalsExist, RetryLineage
  <1>5. QED
    BY <1>2, <1>3, <1>4 DEF LockedInv, RowsInv

\* The inductive invariant holds in every reachable state: what a transaction
\* past pg_advisory_xact_lock has counted is still so.
THEOREM LockedInvariant == LockedSpec => []LockedInv
  BY LockedInvInit, LockedInvStep, PTL DEF LockedSpec

\* For any number of connections that interleave, roll back or are lost, and any
\* limits: the committed rows keep the admission limits (create, retry,
\* execute_locked).
THEOREM AdmissionUnderLocks == LockedSpec => []AdmissionLimits
  <1>1. LockedInv => AdmissionLimits
    BY DEF LockedInv, RowsInv
  <1>2. QED
    BY <1>1, LockedInvariant, PTL

\* The same for the limit of running rows (claim_next).
THEOREM RunningUnderLocks == LockedSpec => []RunningLimit
  <1>1. LockedInv => RunningLimit
    BY DEF LockedInv, RowsInv
  <1>2. QED
    BY <1>1, LockedInvariant, PTL

\* With one running submission per user a user's submissions are started in
\* order, although claim_next skips rows that others have locked.
THEOREM OrderUnderLocks == LockedSpec => []InOrderPerUser
  <1>1. LockedInv => InOrderPerUser
    BY DEF LockedInv, RowsInv
  <1>2. QED
    BY <1>1, LockedInvariant, PTL

\* A submission is retried once and audited once, although identity values are
\* lost with the transactions that are rolled back (retry).
THEOREM LineageUnderLocks == LockedSpec => []RetryLineage
  <1>1. LockedInv => RetryLineage
    BY DEF LockedInv, RowsInv
  <1>2. QED
    BY <1>1, LockedInvariant, PTL

\* No transaction changes a finished row: neither a claim that commits late nor
\* recover_running, which goes by an old snapshot.
THEOREM FinalUnderLocks == LockedSpec => FinishedRowsStay
  <1>1. LockedInv /\ [LockedNext]_vars => [Kept]_rows
    <2> SUFFICES ASSUME LockedInv, [LockedNext]_vars, rows' # rows PROVE Kept
      OBVIOUS
    <2>1. PICK c \in Connections : Commit(c) \/ Finish(c) \/ RecoverReads(c) \/ RecoverWrites(c)
      BY DEF LockedNext, vars, table, Begin, Lock, Execute, Abort
    <2>2. QED
      BY <2>1, CommitStep, FinishStep, RecoverStep
  <1>2. QED
    BY <1>1, LockedInvariant, PTL DEF LockedSpec, FinishedRowsStay, Kept

=============================================================================
