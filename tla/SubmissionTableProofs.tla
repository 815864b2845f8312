----------------------- MODULE SubmissionTableProofs -----------------------
(* Proofs about SubmissionTable: its invariants, for any number of users,  *)
(* rows and any limits, whichever clients run the statements.              *)
EXTENDS SubmissionTable, FiniteSetTheorems, SequenceTheorems, TLAPS

\* The ids are 1 .. Len(rows), and what they select is a finite set of rows.
LEMMA RowFacts ==
    ASSUME TableTypeOK
    PROVE  /\ Ids = 1 .. Len(rows) /\ Len(rows) \in Nat
           /\ \A s \in Ids : /\ s \in Nat /\ s > 0 /\ s <= Len(rows)
                             /\ rows[s] \in Row
                             /\ rows[s].status \in Pending \cup Terminal
                             /\ rows[s].owner \in Users
                             /\ rows[s].retry_of \in Nat
  <1>1. Ids = 1 .. Len(rows) /\ Len(rows) \in Nat
    BY DEF TableTypeOK, Ids
  <1>2. \A s \in Ids : rows[s] \in Row
    BY DEF TableTypeOK, Ids
  <1>3. QED
    BY <1>1, <1>2 DEF Row

LEMMA Finite ==
    ASSUME TableTypeOK
    PROVE  /\ IsFiniteSet(Active) /\ Cardinality(Active) \in Nat
           /\ \A u : IsFiniteSet(ActiveOf(u)) /\ Cardinality(ActiveOf(u)) \in Nat
           /\ \A u : IsFiniteSet(RunningOf(u)) /\ Cardinality(RunningOf(u)) \in Nat
  <1>1. IsFiniteSet(Ids)
    BY RowFacts, FS_Interval
  <1>2. Active \in SUBSET Ids
    BY DEF Active
  <1>3. \A u : ActiveOf(u) \in SUBSET Ids
    BY DEF ActiveOf, Active
  <1>4. \A u : RunningOf(u) \in SUBSET Ids
    BY DEF RunningOf
  <1>5. QED
    BY <1>1, <1>2, <1>3, <1>4, FS_Subset, FS_CardinalityType

\* The statements, with what each may touch.
LEMMA InsertType ==
    ASSUME TableTypeOK, NEW u \in Users, NEW o \in Nat, Insert(u, o)
    PROVE  /\ rows' \in Seq(Row)
           /\ Len(rows') = Len(rows) + 1
           /\ Ids' = Ids \cup {Len(rows) + 1}
           /\ Len(rows) + 1 \notin Ids
           /\ rows'[Len(rows) + 1] = NewRow(u, o)
           /\ \A s \in Ids : rows'[s] = rows[s] /\ s < Len(rows) + 1
  <1>1. NewRow(u, o) \in Row
    BY DEF NewRow, Row, Pending, Terminal
  <1>2. QED
    BY <1>1 DEF Insert, TableTypeOK, Ids

LEMMA RequeuedType ==
    ASSUME TableTypeOK
    PROVE  /\ Requeued \in Seq(Row)
           /\ Len(Requeued) = Len(rows)
  <1>1. \A s \in Ids : rows[s] \in Row
    BY DEF TableTypeOK, Ids
  <1>2. \A s \in Ids : Requeued[s] \in Row
    BY <1>1 DEF Requeued, Row, Pending
  <1>3. Requeued \in [1 .. Len(rows) -> Row]
    BY <1>2 DEF Requeued, TableTypeOK, Ids
  <1>4. Len(rows) \in Nat
    BY DEF TableTypeOK
  <1>5. QED
    BY <1>3, <1>4, IsASeq, LenProperties

\* claim_next, complete and fail replace one row.
LEMMA UpdateType ==
    ASSUME TableTypeOK, NEW s \in Ids, NEW r \in Row, rows' = [rows EXCEPT ![s] = r]
    PROVE  /\ rows' \in Seq(Row)
           /\ Ids' = Ids
           /\ rows'[s] = r
           /\ \A t \in Ids : t # s => rows'[t] = rows[t]
  BY DEF TableTypeOK, Ids

\* What each statement leaves in the table.
LEMMA ClaimEffect ==
    ASSUME TableTypeOK, NEW s \in Ids, claim_next(s)
    PROVE  /\ rows' \in Seq(Row)
           /\ Ids' = Ids
           /\ rows[s].status = "queued"
           /\ rows'[s].status = "running"
           /\ rows'[s].verdict = rows[s].verdict /\ rows'[s].error = rows[s].error
           /\ rows'[s].owner = rows[s].owner /\ rows'[s].retry_of = rows[s].retry_of
           /\ \A t \in Ids : t # s => rows'[t] = rows[t]
  <1> DEFINE r == [rows[s] EXCEPT !.status = "running"]
  <1>1. rows[s] \in Row
    BY RowFacts
  <1>2. r \in Row
    BY <1>1 DEF Row, Pending
  <1>3. rows' = [rows EXCEPT ![s] = r] /\ rows[s].status = "queued"
    BY DEF claim_next, OldestClaimable, Claimable
  <1>4. rows'[s] = r
    BY <1>2, <1>3, UpdateType
  <1>5. /\ r.status = "running" /\ r.verdict = rows[s].verdict /\ r.error = rows[s].error
        /\ r.owner = rows[s].owner /\ r.retry_of = rows[s].retry_of
    BY <1>1 DEF Row
  <1> HIDE DEF r
  <1>6. QED
    BY <1>2, <1>3, <1>4, <1>5, UpdateType

LEMMA CompleteEffect ==
    ASSUME TableTypeOK, NEW s \in Ids, NEW j \in Judgement, complete(s, j.verdict, j.error)
    PROVE  /\ rows' \in Seq(Row)
           /\ Ids' = Ids
           /\ rows[s].status = "running"
           /\ rows'[s].status = "completed"
           /\ rows'[s].verdict = j.verdict /\ rows'[s].error = j.error
           /\ rows'[s].owner = rows[s].owner /\ rows'[s].retry_of = rows[s].retry_of
           /\ \A t \in Ids : t # s => rows'[t] = rows[t]
  <1> DEFINE r == [rows[s] EXCEPT !.status = "completed", !.verdict = j.verdict,
                                  !.error = j.error]
  <1>1. rows[s] \in Row
    BY RowFacts
  <1>2. r \in Row
    <2>1. j.verdict \in Verdicts /\ j.error \in ErrorTypes \cup {Null}
      BY DEF Judgement, ErrorTypes
    <2>2. QED
      BY <1>1, <2>1 DEF Row, Terminal
  <1>3. rows' = [rows EXCEPT ![s] = r] /\ rows[s].status = "running"
    BY DEF complete
  <1>4. rows'[s] = r
    BY <1>2, <1>3, UpdateType
  <1>5. /\ r.status = "completed" /\ r.verdict = j.verdict /\ r.error = j.error
        /\ r.owner = rows[s].owner /\ r.retry_of = rows[s].retry_of
    BY <1>1 DEF Row
  <1> HIDE DEF r
  <1>6. QED
    BY <1>2, <1>3, <1>4, <1>5, UpdateType

LEMMA FailEffect ==
    ASSUME TableTypeOK, NEW s \in Ids, NEW e \in WorkerErrors, fail(s, e)
    PROVE  /\ rows' \in Seq(Row)
           /\ Ids' = Ids
           /\ rows[s].status = "running"
           /\ rows'[s].status = "failed"
           /\ rows'[s].verdict = rows[s].verdict /\ rows'[s].error = e
           /\ rows'[s].owner = rows[s].owner /\ rows'[s].retry_of = rows[s].retry_of
           /\ \A t \in Ids : t # s => rows'[t] = rows[t]
  <1> DEFINE r == [rows[s] EXCEPT !.status = "failed", !.error = e]
  <1>1. rows[s] \in Row
    BY RowFacts
  <1>2. r \in Row
    <2>1. e \in ErrorTypes
      BY DEF ErrorTypes
    <2>2. QED
      BY <1>1, <2>1 DEF Row, Terminal
  <1>3. rows' = [rows EXCEPT ![s] = r] /\ rows[s].status = "running"
    BY DEF fail
  <1>4. rows'[s] = r
    BY <1>2, <1>3, UpdateType
  <1>5. /\ r.status = "failed" /\ r.verdict = rows[s].verdict /\ r.error = e
        /\ r.owner = rows[s].owner /\ r.retry_of = rows[s].retry_of
    BY <1>1 DEF Row
  <1> HIDE DEF r
  <1>6. QED
    BY <1>2, <1>3, <1>4, <1>5, UpdateType

LEMMA RecoverEffect ==
    ASSUME TableTypeOK, recover_running
    PROVE  /\ rows' \in Seq(Row)
           /\ Ids' = Ids
           /\ \A s \in Ids :
                 /\ rows[s].status # "running" => rows'[s] = rows[s]
                 /\ rows'[s].status = IF rows[s].status = "running" THEN "queued"
                                      ELSE rows[s].status
                 /\ rows'[s].verdict = rows[s].verdict /\ rows'[s].error = rows[s].error
                 /\ rows'[s].owner = rows[s].owner /\ rows'[s].retry_of = rows[s].retry_of
  <1>1. rows' \in Seq(Row) /\ Ids' = Ids
    BY RequeuedType DEF recover_running, Ids, TableTypeOK
  <1>2. \A s \in Ids : rows'[s] = IF rows[s].status = "running"
                                  THEN [rows[s] EXCEPT !.status = "queued"] ELSE rows[s]
    BY DEF recover_running, Requeued
  <1>3. \A s \in Ids : rows[s] \in Row
    BY RowFacts
  <1>4. QED
    BY <1>1, <1>2, <1>3 DEF Row

----------------------------------------------------------------------------
\* No statement removes a row or breaks a row's type.
LEMMA RowsGrow ==
    ASSUME TableTypeOK, [TableNext]_table
    PROVE  Ids \subseteq Ids' /\ TableTypeOK'
  <1>1. CASE UNCHANGED table
    BY <1>1 DEF TableTypeOK, table, Ids
  <1>2. ASSUME NEW u \in Users, create(u) PROVE Ids \subseteq Ids' /\ TableTypeOK'
    BY <1>2, InsertType DEF create, TableTypeOK
  <1>3. ASSUME NEW s \in Ids, retry(s) PROVE Ids \subseteq Ids' /\ TableTypeOK'
    <2>1. s \in Nat /\ rows[s].owner \in Users /\ Len(rows) + 1 \in Nat
      BY RowFacts
    <2>2. rows' \in Seq(Row) /\ Ids \subseteq Ids'
      BY <1>3, <2>1, InsertType DEF retry
    <2>3. audit' \subseteq Nat \X Nat
      BY <1>3, <2>1 DEF retry, TableTypeOK
    <2>4. QED
      BY <2>2, <2>3 DEF TableTypeOK
  <1>4. ASSUME NEW s \in Ids, claim_next(s) PROVE Ids \subseteq Ids' /\ TableTypeOK'
    BY <1>4, ClaimEffect DEF claim_next, TableTypeOK
  <1>5. ASSUME NEW s \in Ids, NEW j \in Judgement, complete(s, j.verdict, j.error)
        PROVE  Ids \subseteq Ids' /\ TableTypeOK'
    BY <1>5, CompleteEffect DEF complete, TableTypeOK
  <1>6. ASSUME NEW s \in Ids, NEW e \in WorkerErrors, fail(s, e)
        PROVE  Ids \subseteq Ids' /\ TableTypeOK'
    BY <1>6, FailEffect DEF fail, TableTypeOK
  <1>7. CASE recover_running
    BY <1>7, RecoverEffect DEF recover_running, TableTypeOK
  <1>8. QED
    BY <1>1, <1>2, <1>3, <1>4, <1>5, <1>6, <1>7 DEF TableNext

\* The table keeps its type under every statement.
THEOREM TableTypeCorrect == TableSpec => []TableTypeOK
  <1>1. TableInit => TableTypeOK
    BY DEF TableInit, TableTypeOK
  <1>2. QED
    BY <1>1, RowsGrow, PTL DEF TableSpec

----------------------------------------------------------------------------
\* Admission. An insert adds one row to the counted sets; every other statement
\* leaves them alone or removes from them.

LEMMA InsertKeepsLimits ==
    ASSUME TableTypeOK, AdmissionLimits, RunningLimit,
           NEW u \in Users, NEW o \in Nat, Admits(u), Insert(u, o)
    PROVE  AdmissionLimits' /\ RunningLimit'
  <1> PICK n \in Nat : n = Len(rows) + 1
    BY RowFacts
  <1>1. /\ Ids' = Ids \cup {n} /\ n \notin Ids
        /\ rows'[n] = NewRow(u, o)
        /\ \A s \in Ids : rows'[s] = rows[s]
    BY InsertType
  <1>2. rows'[n].status = "queued" /\ rows'[n].owner = u
    BY <1>1 DEF NewRow
  <1>3. Active' = Active \cup {n}
    BY <1>1, <1>2 DEF Active, Pending
  <1>4. ActiveOf(u)' = ActiveOf(u) \cup {n}
    BY <1>1, <1>2, <1>3 DEF ActiveOf, Active
  <1>5. \A v \in Users : v # u => ActiveOf(v)' = ActiveOf(v)
    BY <1>1, <1>2, <1>3 DEF ActiveOf, Active
  <1>6. \A v \in Users : RunningOf(v)' = RunningOf(v)
    BY <1>1, <1>2 DEF RunningOf
  <1>7. Cardinality(Active)' <= MaxActive
    <2>1. n \notin Active
      BY <1>1 DEF Active
    <2>2. Cardinality(Active)' = Cardinality(Active) + 1
      BY <1>3, <2>1, Finite, FS_AddElement, Zenon
    <2>3. QED
      BY <2>2, Finite, LimitsAssumption DEF Admits
  <1>8. Cardinality(ActiveOf(u))' <= MaxActivePerUser
    <2>1. n \notin ActiveOf(u)
      BY <1>1 DEF ActiveOf, Active
    <2>2. Cardinality(ActiveOf(u))' = Cardinality(ActiveOf(u)) + 1
      BY <1>4, <2>1, Finite, FS_AddElement, Zenon
    <2>3. QED
      BY <2>2, Finite, LimitsAssumption DEF Admits
  <1>9. AdmissionLimits'
    BY <1>5, <1>7, <1>8 DEF AdmissionLimits
  <1>10. RunningLimit'
    BY <1>6 DEF RunningLimit
  <1>11. QED
    BY <1>9, <1>10

\* A step that only shrinks the counted sets keeps the limits.
LEMMA ShrinkKeepsAdmission ==
    ASSUME TableTypeOK, AdmissionLimits,
           Active' \subseteq Active, \A u \in Users : ActiveOf(u)' \subseteq ActiveOf(u)
    PROVE  AdmissionLimits'
  <1>1. Cardinality(Active') <= Cardinality(Active) /\ Cardinality(Active') \in Nat
    BY Finite, FS_Subset, FS_CardinalityType
  <1>2. \A u \in Users : /\ Cardinality(ActiveOf(u)') <= Cardinality(ActiveOf(u))
                         /\ Cardinality(ActiveOf(u)') \in Nat
    BY Finite, FS_Subset, FS_CardinalityType
  <1>3. QED
    BY <1>1, <1>2, Finite, LimitsAssumption DEF AdmissionLimits

LEMMA ShrinkKeepsRunning ==
    ASSUME TableTypeOK, RunningLimit, \A u \in Users : RunningOf(u)' \subseteq RunningOf(u)
    PROVE  RunningLimit'
  <1>1. \A u \in Users : /\ Cardinality(RunningOf(u)') <= Cardinality(RunningOf(u))
                         /\ Cardinality(RunningOf(u)') \in Nat
    BY Finite, FS_Subset, FS_CardinalityType
  <1>2. QED
    BY <1>1, Finite, LimitsAssumption DEF RunningLimit

LEMMA ClaimKeepsLimits ==
    ASSUME TableTypeOK, AdmissionLimits, RunningLimit, NEW s \in Ids, claim_next(s)
    PROVE  AdmissionLimits' /\ RunningLimit'
  <1> PICK u \in Users : u = rows[s].owner
    BY RowFacts
  <1>1. /\ Ids' = Ids /\ rows[s].status = "queued"
        /\ Cardinality(RunningOf(u)) < MaxRunningPerUser
        /\ \A t \in Ids : rows'[t].owner = rows[t].owner
        /\ rows'[s].status = "running"
        /\ \A t \in Ids : t # s => rows'[t] = rows[t]
    <2>1. Cardinality(RunningOf(u)) < MaxRunningPerUser
      BY DEF claim_next, OldestClaimable, Claimable
    <2>2. QED
      BY <2>1, ClaimEffect
  <1>2. AdmissionLimits'
    <2>1. Active' = Active
      BY <1>1 DEF Active, Pending
    <2>2. \A v \in Users : ActiveOf(v)' = ActiveOf(v)
      BY <1>1, <2>1 DEF ActiveOf, Active
    <2>3. QED
      BY <2>1, <2>2, ShrinkKeepsAdmission
  <1>3. RunningLimit'
    <2>1. RunningOf(u)' = RunningOf(u) \cup {s}
      BY <1>1 DEF RunningOf
    <2>2. \A v \in Users : v # u => RunningOf(v)' = RunningOf(v)
      BY <1>1 DEF RunningOf
    <2>3. s \notin RunningOf(u)
      BY <1>1 DEF RunningOf
    <2>4. Cardinality(RunningOf(u))' = Cardinality(RunningOf(u)) + 1
      BY <2>1, <2>3, Finite, FS_AddElement, Zenon
    <2>5. QED
      BY <1>1, <2>2, <2>4, Finite, LimitsAssumption DEF RunningLimit
  <1>4. QED
    BY <1>2, <1>3

\* complete and fail turn one running row into a finished one.
LEMMA FinishKeepsLimits ==
    ASSUME TableTypeOK, AdmissionLimits, RunningLimit, NEW s \in Ids,
           Ids' = Ids, rows'[s].status \in Terminal,
           \A t \in Ids : t # s => rows'[t] = rows[t]
    PROVE  AdmissionLimits' /\ RunningLimit'
  <1>1. Active' \subseteq Active
    BY DEF Active, Pending, Terminal
  <1>2. \A u \in Users : ActiveOf(u)' \subseteq ActiveOf(u)
    BY <1>1 DEF ActiveOf, Active, Pending, Terminal
  <1>3. \A u \in Users : RunningOf(u)' \subseteq RunningOf(u)
    BY DEF RunningOf, Terminal
  <1>4. QED
    BY <1>1, <1>2, <1>3, ShrinkKeepsAdmission, ShrinkKeepsRunning

LEMMA RecoverKeepsLimits ==
    ASSUME TableTypeOK, AdmissionLimits, RunningLimit, recover_running
    PROVE  AdmissionLimits' /\ RunningLimit'
  <1>1. Active' = Active
    BY RecoverEffect DEF Active, Pending
  <1>2. \A u \in Users : ActiveOf(u)' = ActiveOf(u)
    BY <1>1, RecoverEffect DEF ActiveOf, Active
  <1>3. \A u \in Users : RunningOf(u)' \subseteq RunningOf(u)
    BY RecoverEffect DEF RunningOf
  <1>4. QED
    BY <1>1, <1>2, <1>3, ShrinkKeepsAdmission, ShrinkKeepsRunning

\* Admission control and the running limit hold whatever the interleaving of
\* create, retry, claim_next, complete, fail and recover_running.
THEOREM LimitsHold == TableSpec => [](AdmissionLimits /\ RunningLimit)
  <1>1. TableInit => AdmissionLimits /\ RunningLimit
    <2> SUFFICES ASSUME TableInit PROVE AdmissionLimits /\ RunningLimit
      OBVIOUS
    <2>1. Ids = {}
      BY DEF TableInit, Ids
    <2>2. Active = {} /\ (\A u \in Users : ActiveOf(u) = {} /\ RunningOf(u) = {})
      BY <2>1 DEF Active, ActiveOf, RunningOf
    <2>3. QED
      BY <2>2, FS_EmptySet, LimitsAssumption DEF AdmissionLimits, RunningLimit
  <1>2. TableTypeOK /\ (AdmissionLimits /\ RunningLimit) /\ [TableNext]_table
            => (AdmissionLimits /\ RunningLimit)'
    <2> SUFFICES ASSUME TableTypeOK, AdmissionLimits, RunningLimit, [TableNext]_table
                 PROVE  (AdmissionLimits /\ RunningLimit)'
      OBVIOUS
    <2>1. CASE UNCHANGED table
      BY <2>1 DEF table, AdmissionLimits, RunningLimit, Active, ActiveOf, RunningOf, Ids
    <2>2. ASSUME NEW u \in Users, create(u) PROVE (AdmissionLimits /\ RunningLimit)'
      BY <2>2, InsertKeepsLimits DEF create
    <2>3. ASSUME NEW s \in Ids, retry(s) PROVE (AdmissionLimits /\ RunningLimit)'
      BY <2>3, RowFacts, InsertKeepsLimits DEF retry
    <2>4. ASSUME NEW s \in Ids, claim_next(s) PROVE (AdmissionLimits /\ RunningLimit)'
      BY <2>4, ClaimKeepsLimits
    <2>5. ASSUME NEW s \in Ids, NEW j \in Judgement, complete(s, j.verdict, j.error)
          PROVE  (AdmissionLimits /\ RunningLimit)'
      BY <2>5, CompleteEffect, FinishKeepsLimits DEF Terminal
    <2>6. ASSUME NEW s \in Ids, NEW e \in WorkerErrors, fail(s, e)
          PROVE  (AdmissionLimits /\ RunningLimit)'
      BY <2>6, FailEffect, FinishKeepsLimits DEF Terminal
    <2>7. CASE recover_running
      BY <2>7, RecoverKeepsLimits
    <2>8. QED
      BY <2>1, <2>2, <2>3, <2>4, <2>5, <2>6, <2>7 DEF TableNext
  <1>3. QED
    BY <1>1, <1>2, TableTypeCorrect, PTL DEF TableSpec

----------------------------------------------------------------------------
\* Order, shape and lineage of the rows.

\* With a limit of one, a claimable row's user has no running row.
LEMMA ClaimableMeansNoneRunning ==
    ASSUME TableTypeOK, MaxRunningPerUser = 1, NEW s \in Ids, Claimable(s), NEW t \in Ids,
           rows[t].owner = rows[s].owner
    PROVE  rows[t].status # "running"
  <1>1. Cardinality(RunningOf(rows[s].owner)) = 0
    BY Finite DEF Claimable
  <1>2. RunningOf(rows[s].owner) = {}
    BY <1>1, Finite, FS_EmptySet
  <1>3. QED
    BY <1>2 DEF RunningOf

LEMMA ClaimKeepsOrder ==
    ASSUME TableTypeOK, InOrderPerUser, NEW q \in Ids, claim_next(q)
    PROVE  InOrderPerUser'
  <1> SUFFICES ASSUME MaxRunningPerUser = 1, NEW s \in Ids', NEW t \in Ids', s < t,
                      rows'[s].owner = rows'[t].owner, rows'[t].status # "queued"
               PROVE  rows'[s].status \in Terminal
    BY DEF InOrderPerUser
  <1>1. /\ s \in Ids /\ t \in Ids
        /\ \A r \in Ids : rows'[r].owner = rows[r].owner
        /\ \A r \in Ids : r # q => rows'[r] = rows[r]
        /\ rows'[q].status = "running" /\ rows[q].status = "queued"
        /\ Claimable(q) /\ \A r \in Ids : Claimable(r) => q <= r
    <2>1. Claimable(q) /\ (\A r \in Ids : Claimable(r) => q <= r)
      BY DEF claim_next, OldestClaimable
    <2>2. QED
      BY <2>1, ClaimEffect
  <1>2. CASE t = q
    <2>1. rows[s].status # "running"
      BY <1>1, <1>2, ClaimableMeansNoneRunning
    <2>2. rows[s].status # "queued"
      <3> SUFFICES ASSUME rows[s].status = "queued" PROVE FALSE
        OBVIOUS
      <3>1. Claimable(s)
        BY <1>1, <1>2 DEF Claimable
      <3>2. QED
        BY <1>1, <1>2, <3>1, RowFacts
    <2>3. QED
      BY <1>1, <1>2, <2>1, <2>2, RowFacts DEF Pending, Terminal
  <1>3. CASE t # q
    <2>1. rows[s].status \in Terminal
      BY <1>1, <1>3 DEF InOrderPerUser
    <2>2. s # q
      BY <1>1, <2>1 DEF Terminal
    <2>3. QED
      BY <1>1, <2>1, <2>2
  <1>4. QED
    BY <1>2, <1>3

LEMMA InsertKeepsOrder ==
    ASSUME TableTypeOK, InOrderPerUser, NEW u \in Users, NEW o \in Nat, Insert(u, o)
    PROVE  InOrderPerUser'
  <1>1. /\ \A s \in Ids : rows'[s] = rows[s] /\ s < Len(rows) + 1
        /\ Ids' = Ids \cup {Len(rows) + 1}
        /\ rows'[Len(rows) + 1] = NewRow(u, o)
    BY InsertType
  <1>2. rows'[Len(rows) + 1].status = "queued"
    BY <1>1 DEF NewRow
  <1>3. QED
    BY <1>1, <1>2, RowFacts DEF InOrderPerUser

\* complete and fail: the row that finishes was running, so the rows of its
\* user before it are finished and those after it are queued.
LEMMA FinishKeepsOrder ==
    ASSUME TableTypeOK, InOrderPerUser, NEW q \in Ids, rows[q].status = "running",
           Ids' = Ids, rows'[q].status \in Terminal, rows'[q].owner = rows[q].owner,
           \A t \in Ids : t # q => rows'[t] = rows[t]
    PROVE  InOrderPerUser'
  BY RowFacts DEF InOrderPerUser, Terminal

LEMMA RecoverKeepsOrder ==
    ASSUME TableTypeOK, InOrderPerUser, recover_running
    PROVE  InOrderPerUser'
  BY RecoverEffect DEF InOrderPerUser, Terminal

\* A user's submissions are judged in the order of their acceptance.
THEOREM JudgedInOrder == TableSpec => []InOrderPerUser
  <1>1. TableInit => InOrderPerUser
    BY DEF TableInit, InOrderPerUser, Ids
  <1>2. TableTypeOK /\ InOrderPerUser /\ [TableNext]_table => InOrderPerUser'
    <2> SUFFICES ASSUME TableTypeOK, InOrderPerUser, [TableNext]_table
                 PROVE  InOrderPerUser'
      OBVIOUS
    <2>1. CASE UNCHANGED table
      BY <2>1 DEF table, InOrderPerUser, Ids
    <2>2. ASSUME NEW u \in Users, create(u) PROVE InOrderPerUser'
      BY <2>2, InsertKeepsOrder DEF create
    <2>3. ASSUME NEW s \in Ids, retry(s) PROVE InOrderPerUser'
      BY <2>3, RowFacts, InsertKeepsOrder DEF retry
    <2>4. ASSUME NEW s \in Ids, claim_next(s) PROVE InOrderPerUser'
      BY <2>4, ClaimKeepsOrder
    <2>5. ASSUME NEW s \in Ids, NEW j \in Judgement, complete(s, j.verdict, j.error)
          PROVE  InOrderPerUser'
      BY <2>5, CompleteEffect, FinishKeepsOrder DEF Terminal
    <2>6. ASSUME NEW s \in Ids, NEW e \in WorkerErrors, fail(s, e) PROVE InOrderPerUser'
      BY <2>6, FailEffect, FinishKeepsOrder DEF Terminal
    <2>7. CASE recover_running
      BY <2>7, RecoverKeepsOrder
    <2>8. QED
      BY <2>1, <2>2, <2>3, <2>4, <2>5, <2>6, <2>7 DEF TableNext
  <1>3. QED
    BY <1>1, <1>2, TableTypeCorrect, PTL DEF TableSpec

LEMMA ShapeStep == TableTypeOK /\ RowShape /\ [TableNext]_table => RowShape'
  <1> SUFFICES ASSUME TableTypeOK, RowShape, [TableNext]_table PROVE RowShape'
    OBVIOUS
  <1>1. CASE UNCHANGED table
    BY <1>1 DEF table, RowShape, Ids
  <1>2. ASSUME NEW u \in Users, NEW o \in Nat, Insert(u, o) PROVE RowShape'
    <2>1. /\ rows'[Len(rows) + 1] = NewRow(u, o)
          /\ Ids' = Ids \cup {Len(rows) + 1} /\ \A s \in Ids : rows'[s] = rows[s]
      BY <1>2, InsertType
    <2>2. /\ rows'[Len(rows) + 1].status = "queued"
          /\ rows'[Len(rows) + 1].verdict = Null /\ rows'[Len(rows) + 1].error = Null
      BY <2>1 DEF NewRow
    <2>3. QED
      BY <2>1, <2>2 DEF RowShape, Pending
  <1>3. ASSUME NEW u \in Users, create(u) PROVE RowShape'
    BY <1>2, <1>3 DEF create
  <1>4. ASSUME NEW s \in Ids, retry(s) PROVE RowShape'
    BY <1>2, <1>4, RowFacts DEF retry
  <1>5. ASSUME NEW s \in Ids, claim_next(s) PROVE RowShape'
    BY <1>5, ClaimEffect DEF RowShape, Pending
  <1>6. ASSUME NEW s \in Ids, NEW j \in Judgement, complete(s, j.verdict, j.error)
        PROVE  RowShape'
    <2>1. j.verdict # Null /\ (j.verdict = "runtime_error" <=> j.error # Null)
      BY VerdictsAssumption DEF Judgement
    <2>2. QED
      BY <1>6, <2>1, CompleteEffect DEF RowShape, Pending
  <1>7. ASSUME NEW s \in Ids, NEW e \in WorkerErrors, fail(s, e) PROVE RowShape'
    BY <1>7, FailEffect DEF RowShape, Pending
  <1>8. CASE recover_running
    BY <1>8, RecoverEffect DEF RowShape, Pending
  <1>9. QED
    BY <1>1, <1>3, <1>4, <1>5, <1>6, <1>7, <1>8 DEF TableNext

\* Every row keeps the shape the schema's CHECK demands, with its error type.
THEOREM RowsKeepShape == TableSpec => []RowShape
  <1>1. TableInit => RowShape
    BY DEF TableInit, RowShape, Ids
  <1>2. QED
    BY <1>1, ShapeStep, TableTypeCorrect, PTL DEF TableSpec

\* A finished row is final, and no row is removed or changes hands.
THEOREM FinishedIsFinal == TableSpec => FinishedRowsStay
  <1> DEFINE Stay == \A s \in Ids :
          /\ s \in DOMAIN rows'
          /\ rows'[s].owner = rows[s].owner /\ rows'[s].retry_of = rows[s].retry_of
          /\ rows[s].status \in Terminal => rows'[s] = rows[s]
  <1>1. TableTypeOK /\ [TableNext]_table => [Stay]_rows
    <2> SUFFICES ASSUME TableTypeOK, [TableNext]_table, rows' # rows PROVE Stay
      OBVIOUS
    <2>1. ~ UNCHANGED table
      BY DEF table
    <2>2. ASSUME NEW u \in Users, NEW o \in Nat, Insert(u, o) PROVE Stay
      BY <2>2, InsertType DEF Ids
    <2>3. ASSUME NEW u \in Users, create(u) PROVE Stay
      BY <2>2, <2>3 DEF create
    <2>4. ASSUME NEW s \in Ids, retry(s) PROVE Stay
      BY <2>2, <2>4, RowFacts DEF retry
    <2>5. ASSUME NEW s \in Ids, claim_next(s) PROVE Stay
      BY <2>5, ClaimEffect DEF Ids, Terminal
    <2>6. ASSUME NEW s \in Ids, NEW j \in Judgement, complete(s, j.verdict, j.error)
          PROVE  Stay
      BY <2>6, CompleteEffect DEF Ids, Terminal
    <2>7. ASSUME NEW s \in Ids, NEW e \in WorkerErrors, fail(s, e) PROVE Stay
      BY <2>7, FailEffect DEF Ids, Terminal
    <2>8. CASE recover_running
      BY <2>8, RecoverEffect DEF Ids, Terminal
    <2>9. QED
      BY <2>1, <2>3, <2>4, <2>5, <2>6, <2>7, <2>8 DEF TableNext
  <1>2. QED
    BY <1>1, TableTypeCorrect, PTL DEF TableSpec, FinishedRowsStay

\* A step that inserts nothing keeps the lineage if it leaves retry_of and
\* owner alone, and leaves finished rows as they are.
LEMMA UpdateKeepsLineage ==
    ASSUME TableTypeOK, RowShape, RetryLineage, audit' = audit, Ids' = Ids,
           \A s \in Ids : /\ rows'[s].owner = rows[s].owner
                          /\ rows'[s].retry_of = rows[s].retry_of
                          /\ rows[s].status \in Terminal => rows'[s] = rows[s]
    PROVE  RetryLineage'
  <1>1. \A s \in Ids : rows[s].verdict = "runtime_error" => rows[s].status \in Terminal
    BY RowFacts, VerdictsAssumption DEF RowShape
  <1>2. \A r \in Ids : rows[r].retry_of # 0 => rows[r].retry_of \in Ids
    BY RowFacts DEF RetryLineage
  <1>3. \A r \in Ids : rows'[r].retry_of # 0 =>
          /\ rows'[r].retry_of \in 1 .. (r - 1)
          /\ rows'[rows'[r].retry_of].owner = rows'[r].owner
          /\ \/ rows'[rows'[r].retry_of].status = "failed"
             \/ rows'[rows'[r].retry_of].verdict = "runtime_error"
    BY <1>1, <1>2 DEF RetryLineage, Terminal
  <1>4. \A r, q \in Ids : rows'[r].retry_of = rows'[q].retry_of /\ rows'[r].retry_of # 0
          => r = q
    BY DEF RetryLineage
  <1>5. audit' = {<<rows'[r].retry_of, r>> : r \in {q \in Ids : rows'[q].retry_of # 0}}
    BY DEF RetryLineage
  <1>6. QED
    BY <1>3, <1>4, <1>5 DEF RetryLineage

LEMMA CreateKeepsLineage ==
    ASSUME TableTypeOK, RetryLineage, NEW u \in Users, create(u)
    PROVE  RetryLineage'
  <1> PICK n \in Nat : n = Len(rows) + 1
    BY RowFacts
  <1>1. /\ Ids' = Ids \cup {n} /\ n \notin Ids
        /\ rows'[n] = NewRow(u, 0)
        /\ \A s \in Ids : rows'[s] = rows[s]
        /\ audit' = audit
    BY InsertType DEF create
  <1>2. rows'[n].retry_of = 0
    BY <1>1 DEF NewRow
  <1>3. \A r \in Ids' : rows'[r].retry_of # 0 => r \in Ids /\ rows'[r] = rows[r]
    BY <1>1, <1>2
  <1>4. \A r \in Ids : rows[r].retry_of # 0 => rows[r].retry_of \in Ids
    BY RowFacts DEF RetryLineage
  <1>5. \A r \in Ids' : rows'[r].retry_of # 0 =>
          /\ rows'[r].retry_of \in 1 .. (r - 1)
          /\ rows'[rows'[r].retry_of].owner = rows'[r].owner
          /\ \/ rows'[rows'[r].retry_of].status = "failed"
             \/ rows'[rows'[r].retry_of].verdict = "runtime_error"
    BY <1>1, <1>3, <1>4 DEF RetryLineage
  <1>6. \A r, q \in Ids' : rows'[r].retry_of = rows'[q].retry_of /\ rows'[r].retry_of # 0
          => r = q
    BY <1>3 DEF RetryLineage
  <1>7. {q \in Ids' : rows'[q].retry_of # 0} = {q \in Ids : rows[q].retry_of # 0}
    BY <1>1, <1>2
  <1>8. audit' = {<<rows'[r].retry_of, r>> : r \in {q \in Ids' : rows'[q].retry_of # 0}}
    BY <1>1, <1>7 DEF RetryLineage
  <1>9. QED
    BY <1>5, <1>6, <1>8 DEF RetryLineage

LEMMA RetryKeepsLineage ==
    ASSUME TableTypeOK, RowShape, RetryLineage, NEW s \in Ids, retry(s)
    PROVE  RetryLineage'
  <1> PICK n \in Nat : n = Len(rows) + 1
    BY RowFacts
  <1>1. s \in 1 .. (n - 1) /\ s \in Nat /\ s # 0 /\ rows[s].owner \in Users
    BY RowFacts
  <1>2. /\ Ids' = Ids \cup {n} /\ n \notin Ids
        /\ rows'[n] = NewRow(rows[s].owner, s)
        /\ \A t \in Ids : rows'[t] = rows[t]
    BY <1>1, InsertType DEF retry
  <1>3. rows'[n].retry_of = s /\ rows'[n].owner = rows[s].owner
    BY <1>2 DEF NewRow
  <1>4. /\ rows[s].status = "failed" \/ rows[s].verdict = "runtime_error"
        /\ \A r \in Ids : rows[r].retry_of # s
        /\ audit' = audit \cup {<<s, n>>}
    BY DEF retry, Retryable, Retries
  <1>5. \A r \in Ids : rows[r].retry_of # 0 => rows[r].retry_of \in Ids
    BY RowFacts DEF RetryLineage
  <1>6. \A r \in Ids' : rows'[r].retry_of # 0 =>
          /\ rows'[r].retry_of \in 1 .. (r - 1)
          /\ rows'[rows'[r].retry_of].owner = rows'[r].owner
          /\ \/ rows'[rows'[r].retry_of].status = "failed"
             \/ rows'[rows'[r].retry_of].verdict = "runtime_error"
    <2>1. ASSUME NEW r \in Ids, rows'[r].retry_of # 0
          PROVE  /\ rows'[r].retry_of \in 1 .. (r - 1)
                 /\ rows'[rows'[r].retry_of].owner = rows'[r].owner
                 /\ \/ rows'[rows'[r].retry_of].status = "failed"
                    \/ rows'[rows'[r].retry_of].verdict = "runtime_error"
      BY <1>2, <1>5, <2>1 DEF RetryLineage
    <2>2. /\ rows'[n].retry_of \in 1 .. (n - 1)
          /\ rows'[rows'[n].retry_of].owner = rows'[n].owner
          /\ \/ rows'[rows'[n].retry_of].status = "failed"
             \/ rows'[rows'[n].retry_of].verdict = "runtime_error"
      BY <1>1, <1>2, <1>3, <1>4
    <2>3. QED
      BY <1>2, <2>1, <2>2
  <1>7. \A r, q \in Ids' : rows'[r].retry_of = rows'[q].retry_of /\ rows'[r].retry_of # 0
          => r = q
    BY <1>2, <1>3, <1>4 DEF RetryLineage
  <1>8. {q \in Ids' : rows'[q].retry_of # 0} = {q \in Ids : rows[q].retry_of # 0} \cup {n}
    BY <1>1, <1>2, <1>3
  <1>9. audit' = {<<rows'[r].retry_of, r>> : r \in {q \in Ids' : rows'[q].retry_of # 0}}
    BY <1>2, <1>3, <1>4, <1>8 DEF RetryLineage
  <1>10. QED
    BY <1>6, <1>7, <1>9 DEF RetryLineage

\* A submission is retried at most once, only when it failed or ended with a
\* runtime error, and every retry is audited.
THEOREM LineageHolds == TableSpec => []RetryLineage
  <1>1. TableInit => RetryLineage
    <2> SUFFICES ASSUME TableInit PROVE RetryLineage
      OBVIOUS
    <2>1. Ids = {} /\ audit = {}
      BY DEF TableInit, Ids
    <2>2. QED
      BY <2>1 DEF RetryLineage
  <1>2. TableTypeOK /\ RowShape /\ RetryLineage /\ [TableNext]_table => RetryLineage'
    <2> SUFFICES ASSUME TableTypeOK, RowShape, RetryLineage, [TableNext]_table
                 PROVE  RetryLineage'
      OBVIOUS
    <2>1. CASE UNCHANGED table
      BY <2>1 DEF table, RetryLineage, Ids
    <2>2. ASSUME NEW u \in Users, create(u) PROVE RetryLineage'
      BY <2>2, CreateKeepsLineage
    <2>3. ASSUME NEW s \in Ids, retry(s) PROVE RetryLineage'
      BY <2>3, RetryKeepsLineage
    <2>4. ASSUME NEW s \in Ids, claim_next(s) PROVE RetryLineage'
      BY <2>4, ClaimEffect, UpdateKeepsLineage DEF claim_next, Terminal
    <2>5. ASSUME NEW s \in Ids, NEW j \in Judgement, complete(s, j.verdict, j.error)
          PROVE  RetryLineage'
      BY <2>5, CompleteEffect, UpdateKeepsLineage DEF complete, Terminal
    <2>6. ASSUME NEW s \in Ids, NEW e \in WorkerErrors, fail(s, e) PROVE RetryLineage'
      BY <2>6, FailEffect, UpdateKeepsLineage DEF fail, Terminal
    <2>7. CASE recover_running
      BY <2>7, RecoverEffect, UpdateKeepsLineage DEF recover_running, Terminal
    <2>8. QED
      BY <2>1, <2>2, <2>3, <2>4, <2>5, <2>6, <2>7 DEF TableNext
  <1>3. QED
    BY <1>1, <1>2, TableTypeCorrect, RowsKeepShape, PTL DEF TableSpec

=============================================================================
