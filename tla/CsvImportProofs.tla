---------------------------- MODULE CsvImportProofs ----------------------------
(***************************************************************************)
(* Proofs about bulk imports for any jobs, rows, chunk size and crashes: a *)
(* row is called confirmed only if an operation that executes it was       *)
(* mined; it is executed once unless a job was raced or an operation's end *)
(* not seen; an autopilot job leaves known payments alone; a file pays     *)
(* nobody the same amount twice, however it is written, and its records    *)
(* are those of its sheet (CsvFile).                                       *)
(***************************************************************************)
EXTENDS CsvImport, CsvFile, SumTheorems

PassState ==
  [pc : {"idle", "reconcile", "policy", "pay", "send", "wait"}, todo : SUBSET Snapshot,
   sel : SUBSET Nat, op : OpId \cup {NoOp}]
ResumeState == [on : BOOLEAN, todo : SUBSET Snapshot]
AppState == [pc : {"idle", "send", "wait"}, plan : SUBSET Nat, op : OpId \cup {NoOp}]

\* k is an operation that executes row r of job j.
Executes(k, j, r) == k \in DOMAIN ops /\ ops[k].job = j /\ r \in ops[k].rows

\* Whoever holds an operation for a row, in the stored record, in a snapshot of
\* it however old, or in a wait, holds one that executes that row.
RowOK(j, r, x) ==
  /\ x.op # NoOp => Executes(x.op, j, r)
  /\ x.status = "confirmed" => Payments(j, r) # {}

TodoOK(j, todo) == \A e \in todo : e.op # NoOp => Executes(e.op, j, e.row)

PassOK(j, x) ==
  /\ TodoOK(j, x.todo)
  /\ x.sel \subseteq RowsOf[j]
  /\ x.pc \in {"send", "wait"} => x.sel # {}
  /\ x.pc = "wait" => Executes(x.op, j, Least(x.sel))

AppOK(j, x) ==
  /\ x.plan \subseteq RowsOf[j]
  /\ x.pc \in {"send", "wait"} => x.plan # {}
  /\ x.pc = "wait" => \A r \in NextChunk(j, x.plan) : Executes(x.op, j, r)

RowsOK ==
  /\ row \in [Job -> UNION {[RowsOf[j] -> RowRecord] : j \in Job}]
  /\ \A j \in Job : row[j] \in [RowsOf[j] -> RowRecord]
  /\ \A j \in Job : \A r \in RowsOf[j] : RowOK(j, r, row[j][r])

PassesOK == exec \in [Job -> PassState] /\ \A j \in Job : PassOK(j, exec[j])

ResumesOK == resume \in [Job -> ResumeState] /\ \A j \in Job : TodoOK(j, resume[j].todo)

AppsOK == app \in [Job -> AppState] /\ \A j \in Job : AppOK(j, app[j])

ImportInv == RowsOK /\ PassesOK /\ ResumesOK /\ AppsOK /\ ops \in Seq(Operation)

-----------------------------------------------------------------------------
(* Least rows *)

\* The entry that is reconciled next is one of the snapshot's.
LEMMA FirstIsIn ==
  ASSUME NEW todo \in SUBSET Snapshot, todo # {}
  PROVE  First(todo) \in todo
<1>1. \A e \in Snapshot : e.row \in Nat
  BY CsvAssumption DEF Snapshot
<1>2. PICK R : R = {e.row : e \in todo}
  OBVIOUS
<1>3. R \subseteq Nat /\ R # {}
  BY <1>1, <1>2
<1>4. \E x \in R : \A y \in R : x <= y
  BY <1>3, LeastExists
<1>5. \E e \in todo : \A f \in todo : e.row <= f.row
  BY <1>2, <1>4
<1>. QED
  BY <1>5 DEF First

-----------------------------------------------------------------------------
(* What every step does to operations *)

Growing ==
  /\ ops' \in Seq(Operation)
  /\ \A k \in DOMAIN ops :
       /\ k \in DOMAIN ops'
       /\ ops'[k].job = ops[k].job /\ ops'[k].rows = ops[k].rows
       /\ ops[k].state = "mined" => ops'[k].state = "mined"

LEMMA ExecutesStays ==
  ASSUME Growing, NEW k, NEW j, NEW r, Executes(k, j, r)
  PROVE  Executes(k, j, r)'
BY DEF Growing, Executes

LEMMA PaymentsStay ==
  ASSUME Growing, NEW j, NEW r
  PROVE  Payments(j, r) \subseteq Payments(j, r)'
BY DEF Growing, Payments

LEMMA RowStays ==
  ASSUME Growing, NEW j, NEW r, NEW x, RowOK(j, r, x)
  PROVE  RowOK(j, r, x)'
BY ExecutesStays, PaymentsStay DEF RowOK

LEMMA TodoStays ==
  ASSUME Growing, NEW j, NEW todo, TodoOK(j, todo)
  PROVE  TodoOK(j, todo)'
BY ExecutesStays DEF TodoOK

LEMMA PassStays ==
  ASSUME Growing, NEW j, NEW x, PassOK(j, x)
  PROVE  PassOK(j, x)'
BY TodoStays, ExecutesStays DEF PassOK

LEMMA AppStays ==
  ASSUME Growing, NEW j, NEW x, AppOK(j, x)
  PROVE  AppOK(j, x)'
BY ExecutesStays DEF AppOK

LEMMA OpsUntouched ==
  ASSUME ImportInv, UNCHANGED ops
  PROVE  Growing
BY DEF ImportInv, Growing

-----------------------------------------------------------------------------
(* The parts of the state, untouched or changed for one job *)

LEMMA RowsUntouched ==
  ASSUME ImportInv, Growing, UNCHANGED row
  PROVE  RowsOK'
<1>1. ASSUME NEW j \in Job, NEW r \in RowsOf[j]
      PROVE  RowOK(j, r, row[j][r])'
  <2>1. PICK x : x = row[j][r]
    OBVIOUS
  <2>2. RowOK(j, r, x)
    BY <2>1 DEF ImportInv, RowsOK
  <2>3. RowOK(j, r, x)' /\ row'[j][r] = x
    BY <2>1, <2>2, RowStays
  <2>. QED
    BY <2>3 DEF RowOK
<1>. QED
  BY <1>1 DEF ImportInv, RowsOK

LEMMA PassesUntouched ==
  ASSUME ImportInv, Growing, UNCHANGED exec
  PROVE  PassesOK'
<1>1. ASSUME NEW j \in Job
      PROVE  PassOK(j, exec[j])'
  <2>1. PICK x : x = exec[j]
    OBVIOUS
  <2>2. PassOK(j, x)
    BY <2>1 DEF ImportInv, PassesOK
  <2>3. PassOK(j, x)' /\ exec'[j] = x
    BY <2>1, <2>2, PassStays
  <2>. QED
    BY <2>3 DEF PassOK, TodoOK
<1>. QED
  BY <1>1 DEF ImportInv, PassesOK

LEMMA ResumesUntouched ==
  ASSUME ImportInv, Growing, UNCHANGED resume
  PROVE  ResumesOK'
<1>1. ASSUME NEW j \in Job
      PROVE  TodoOK(j, resume[j].todo)'
  <2>1. PICK x : x = resume[j].todo
    OBVIOUS
  <2>2. TodoOK(j, x)
    BY <2>1 DEF ImportInv, ResumesOK
  <2>3. TodoOK(j, x)' /\ resume'[j].todo = x
    BY <2>1, <2>2, TodoStays
  <2>. QED
    BY <2>3 DEF TodoOK
<1>. QED
  BY <1>1 DEF ImportInv, ResumesOK

LEMMA AppsUntouched ==
  ASSUME ImportInv, Growing, UNCHANGED app
  PROVE  AppsOK'
<1>1. ASSUME NEW j \in Job
      PROVE  AppOK(j, app[j])'
  <2>1. PICK x : x = app[j]
    OBVIOUS
  <2>2. AppOK(j, x)
    BY <2>1 DEF ImportInv, AppsOK
  <2>3. AppOK(j, x)' /\ app'[j] = x
    BY <2>1, <2>2, AppStays
  <2>. QED
    BY <2>3 DEF AppOK
<1>. QED
  BY <1>1 DEF ImportInv, AppsOK

LEMMA RowsWith ==
  ASSUME ImportInv, Growing, NEW j \in Job, NEW f \in [RowsOf[j] -> RowRecord],
         \A r \in RowsOf[j] : RowOK(j, r, f[r])',
         row' = [row EXCEPT ![j] = f]
  PROVE  RowsOK'
<1>1. row'[j] = f /\ \A i \in Job : i # j => row'[i] = row[i]
  BY DEF ImportInv, RowsOK
<1>2. /\ row' \in [Job -> UNION {[RowsOf[i] -> RowRecord] : i \in Job}]
      /\ \A i \in Job : row'[i] \in [RowsOf[i] -> RowRecord]
  BY <1>1 DEF ImportInv, RowsOK
<1>3. ASSUME NEW i \in Job, NEW r \in RowsOf[i]
      PROVE  RowOK(i, r, row[i][r])'
  <2>1. CASE i = j
    <3>1. PICK x : x = f[r]
      OBVIOUS
    <3>2. RowOK(i, r, x)' /\ row'[i][r] = x
      BY <1>1, <2>1, <3>1 DEF RowOK
    <3>. QED
      BY <3>2 DEF RowOK
  <2>2. CASE i # j
    <3>1. PICK x : x = row[i][r]
      OBVIOUS
    <3>2. RowOK(i, r, x)
      BY <3>1 DEF ImportInv, RowsOK
    <3>3. RowOK(i, r, x)' /\ row'[i][r] = x
      BY <1>1, <2>2, <3>1, <3>2, RowStays
    <3>. QED
      BY <3>3 DEF RowOK
  <2>. QED
    BY <2>1, <2>2
<1>. QED
  BY <1>2, <1>3 DEF RowsOK

LEMMA PassesWith ==
  ASSUME ImportInv, Growing, NEW j \in Job, NEW y \in PassState, PassOK(j, y)',
         exec' = [exec EXCEPT ![j] = y]
  PROVE  PassesOK'
<1>1. exec'[j] = y /\ \A i \in Job : i # j => exec'[i] = exec[i]
  BY DEF ImportInv, PassesOK
<1>2. exec' \in [Job -> PassState]
  BY DEF ImportInv, PassesOK
<1>3. ASSUME NEW i \in Job
      PROVE  PassOK(i, exec[i])'
  <2>1. CASE i = j
    BY <1>1, <2>1 DEF PassOK, TodoOK
  <2>2. CASE i # j
    <3>1. PICK x : x = exec[i]
      OBVIOUS
    <3>2. PassOK(i, x)
      BY <3>1 DEF ImportInv, PassesOK
    <3>3. PassOK(i, x)' /\ exec'[i] = x
      BY <1>1, <2>2, <3>1, <3>2, PassStays
    <3>. QED
      BY <3>3 DEF PassOK, TodoOK
  <2>. QED
    BY <2>1, <2>2
<1>. QED
  BY <1>2, <1>3 DEF PassesOK

LEMMA ResumesWith ==
  ASSUME ImportInv, Growing, NEW j \in Job, NEW y \in ResumeState, TodoOK(j, y.todo)',
         resume' = [resume EXCEPT ![j] = y]
  PROVE  ResumesOK'
<1>1. resume'[j] = y /\ \A i \in Job : i # j => resume'[i] = resume[i]
  BY DEF ImportInv, ResumesOK
<1>2. resume' \in [Job -> ResumeState]
  BY DEF ImportInv, ResumesOK
<1>3. ASSUME NEW i \in Job
      PROVE  TodoOK(i, resume[i].todo)'
  <2>1. CASE i = j
    BY <1>1, <2>1 DEF TodoOK
  <2>2. CASE i # j
    <3>1. PICK x : x = resume[i].todo
      OBVIOUS
    <3>2. TodoOK(i, x)
      BY <3>1 DEF ImportInv, ResumesOK
    <3>3. TodoOK(i, x)' /\ resume'[i].todo = x
      BY <1>1, <2>2, <3>1, <3>2, TodoStays
    <3>. QED
      BY <3>3 DEF TodoOK
  <2>. QED
    BY <2>1, <2>2
<1>. QED
  BY <1>2, <1>3 DEF ResumesOK

LEMMA AppsWith ==
  ASSUME ImportInv, Growing, NEW j \in Job, NEW y \in AppState, AppOK(j, y)',
         app' = [app EXCEPT ![j] = y]
  PROVE  AppsOK'
<1>1. app'[j] = y /\ \A i \in Job : i # j => app'[i] = app[i]
  BY DEF ImportInv, AppsOK
<1>2. app' \in [Job -> AppState]
  BY DEF ImportInv, AppsOK
<1>3. ASSUME NEW i \in Job
      PROVE  AppOK(i, app[i])'
  <2>1. CASE i = j
    BY <1>1, <2>1 DEF AppOK
  <2>2. CASE i # j
    <3>1. PICK x : x = app[i]
      OBVIOUS
    <3>2. AppOK(i, x)
      BY <3>1 DEF ImportInv, AppsOK
    <3>3. AppOK(i, x)' /\ app'[i] = x
      BY <1>1, <2>2, <3>1, <3>2, AppStays
    <3>. QED
      BY <3>3 DEF AppOK
  <2>. QED
    BY <2>1, <2>2
<1>. QED
  BY <1>2, <1>3 DEF AppsOK

LEMMA AllOK ==
  ASSUME Growing, RowsOK', PassesOK', ResumesOK', AppsOK'
  PROVE  ImportInv'
BY DEF Growing, ImportInv

-----------------------------------------------------------------------------
(* Patches of a job's rows *)

LEMMA RowTyped ==
  ASSUME ImportInv, NEW j \in Job, NEW r \in RowsOf[j]
  PROVE  row[j][r] \in RowRecord /\ RowOK(j, r, row[j][r])
BY DEF ImportInv, RowsOK

\* Rows keep their hash, and are confirmed only if they were, or were paid.
LEMMA SameHashes ==
  ASSUME ImportInv, Growing, NEW j \in Job, NEW f \in [RowsOf[j] -> RowRecord],
         \A r \in RowsOf[j] :
           /\ f[r].op = row[j][r].op
           /\ \/ f[r].status = row[j][r].status
              \/ f[r].status # "confirmed"
              \/ Payments(j, r) # {},
         row' = [row EXCEPT ![j] = f]
  PROVE  RowsOK'
<1>1. ASSUME NEW r \in RowsOf[j]
      PROVE  RowOK(j, r, f[r])'
  <2>1. PICK x : x = f[r]
    OBVIOUS
  <2>2. RowOK(j, r, x)
    BY <2>1, RowTyped DEF RowOK
  <2>3. RowOK(j, r, x)'
    BY <2>2, RowStays
  <2>. QED
    BY <2>1, <2>3 DEF RowOK
<1>. QED
  BY <1>1, RowsWith

LEMMA StatusPatch ==
  ASSUME ImportInv, Growing, NEW j \in Job, NEW R,
         NEW x \in {"valid", "executing", "confirmed", "failed"},
         x = "confirmed" => \A r \in R : Payments(j, r) # {},
         row' = WithStatus(j, R, x)
  PROVE  RowsOK'
<1>1. PICK f : f = [r \in RowsOf[j] |->
                      IF r \in R THEN [row[j][r] EXCEPT !.status = x] ELSE row[j][r]]
  OBVIOUS
<1>2. row' = [row EXCEPT ![j] = f]
  BY <1>1 DEF WithStatus
<1>3. ASSUME NEW r \in RowsOf[j]
      PROVE  /\ f[r] \in RowRecord /\ f[r].op = row[j][r].op
             /\ f[r].status = row[j][r].status \/ f[r].status # "confirmed" \/ Payments(j, r) # {}
  <2>1. row[j][r] \in RowRecord
    BY RowTyped
  <2>2. \/ f[r] = row[j][r]
        \/ r \in R /\ f[r] = [row[j][r] EXCEPT !.status = x]
    BY <1>1
  <2>3. CASE r \in R /\ f[r] = [row[j][r] EXCEPT !.status = x]
    <3>1. f[r] \in RowRecord /\ f[r].op = row[j][r].op /\ f[r].status = x
      BY <2>1, <2>3 DEF RowRecord
    <3>. QED
      BY <2>3, <3>1
  <2>. QED
    BY <2>1, <2>2, <2>3
<1>4. f \in [RowsOf[j] -> RowRecord]
  BY <1>1, <1>3
<1>5. \A r \in RowsOf[j] :
        /\ f[r].op = row[j][r].op
        /\ \/ f[r].status = row[j][r].status
           \/ f[r].status # "confirmed"
           \/ Payments(j, r) # {}
  BY <1>3
<1>. QED
  BY <1>2, <1>4, <1>5, SameHashes, Zenon

\* A hash is recorded for rows its operation executes.
LEMMA RecordPatch ==
  ASSUME ImportInv, Growing, NEW j \in Job, NEW R, NEW k \in OpId,
         NEW x \in {"executing", "confirmed", "failed"},
         \A r \in R : Executes(k, j, r),
         x = "confirmed" => ops[k].state = "mined",
         row' = Recorded(j, R, x, k)
  PROVE  RowsOK'
<1>1. PICK f : f = [r \in RowsOf[j] |->
                      IF r \in R THEN [row[j][r] EXCEPT !.status = x, !.op = k] ELSE row[j][r]]
  OBVIOUS
<1>2. row' = [row EXCEPT ![j] = f]
  BY <1>1 DEF Recorded
<1>3. ASSUME NEW r \in RowsOf[j]
      PROVE  f[r] \in RowRecord /\ RowOK(j, r, f[r])
  <2>1. row[j][r] \in RowRecord /\ RowOK(j, r, row[j][r])
    BY RowTyped
  <2>2. \/ f[r] = row[j][r]
        \/ r \in R /\ f[r] = [row[j][r] EXCEPT !.status = x, !.op = k]
    BY <1>1
  <2>3. CASE r \in R /\ f[r] = [row[j][r] EXCEPT !.status = x, !.op = k]
    <3>1. f[r] \in RowRecord /\ f[r].op = k /\ f[r].status = x
      BY <2>1, <2>3 DEF RowRecord
    <3>2. Executes(k, j, r)
      BY <2>3
    <3>3. x = "confirmed" => k \in Payments(j, r)
      BY <3>2 DEF Executes, Payments
    <3>. QED
      BY <3>1, <3>2, <3>3 DEF RowOK
  <2>. QED
    BY <2>1, <2>2, <2>3
<1>4. f \in [RowsOf[j] -> RowRecord]
  BY <1>1, <1>3
<1>5. ASSUME NEW r \in RowsOf[j]
      PROVE  RowOK(j, r, f[r])'
  <2>1. PICK y : y = f[r]
    OBVIOUS
  <2>2. RowOK(j, r, y)'
    BY <1>3, <2>1, RowStays
  <2>. QED
    BY <2>1, <2>2 DEF RowOK
<1>. QED
  BY <1>2, <1>4, <1>5, RowsWith

\* What is reconciled is what a snapshot says.
LEMMA SettleKeepsRows ==
  ASSUME ImportInv, UNCHANGED ops, NEW j \in Job, NEW todo \in SUBSET Snapshot, TodoOK(j, todo),
         todo # {}, Settle(j, First(todo))
  PROVE  RowsOK'
<1>1. PICK e : e = First(todo)
  OBVIOUS
<1>2. e \in todo /\ Settle(j, e)
  BY <1>1, FirstIsIn
<1>3. e.op # NoOp => Executes(e.op, j, e.row)
  BY <1>2 DEF TodoOK
<1>4. Growing
  BY OpsUntouched
<1>5. CASE row' = WithStatus(j, {e.row}, "valid")
  BY <1>4, <1>5, StatusPatch
<1>6. CASE /\ e.op # NoOp /\ ops[e.op].state = "mined"
           /\ row' = WithStatus(j, {e.row}, "confirmed")
  <2>1. e.op \in Payments(j, e.row)
    BY <1>3, <1>6 DEF Executes, Payments
  <2>2. PICK R, x : R = {e.row} /\ x = "confirmed"
    OBVIOUS
  <2>3. \A r \in R : Payments(j, r) # {}
    BY <2>1, <2>2
  <2>4. x \in {"valid", "executing", "confirmed", "failed"} /\ row' = WithStatus(j, R, x)
    BY <1>6, <2>2
  <2>. QED
    BY <1>4, <2>3, <2>4, StatusPatch
<1>7. CASE row' = WithStatus(j, {e.row}, "failed")
  BY <1>4, <1>7, StatusPatch
<1>8. CASE UNCHANGED row
  BY <1>4, <1>8, RowsUntouched
<1>. QED
  BY <1>2, <1>5, <1>6, <1>7, <1>8 DEF Settle

\* A snapshot is as good as the rows it is taken of.
LEMMA SnapshotOK ==
  ASSUME ImportInv, NEW j \in Job
  PROVE  InFlight(j) \in SUBSET Snapshot /\ TodoOK(j, InFlight(j))
<1>. SUFFICES ASSUME NEW r \in RowsOf[j]
              PROVE  /\ [row |-> r, op |-> row[j][r].op] \in Snapshot
                     /\ row[j][r].op # NoOp => Executes(row[j][r].op, j, r)
  BY DEF InFlight, TodoOK
<1>1. row[j][r] \in RowRecord /\ RowOK(j, r, row[j][r])
  BY RowTyped
<1>. QED
  BY <1>1 DEF RowRecord, Snapshot, RowOK

LEMMA AtOnceKeepsRows ==
  ASSUME ImportInv, UNCHANGED ops, NEW j \in Job, row' = SettledAtOnce(j)
  PROVE  RowsOK'
BY OpsUntouched, StatusPatch DEF SettledAtOnce

\* The row a pass is at and the rows an app sends are rows of the job.
LEMMA LeastIsIn ==
  ASSUME NEW j \in Job, NEW S \in SUBSET RowsOf[j], S # {}
  PROVE  Least(S) \in RowsOf[j] /\ Least(S) \in S
<1>1. S \subseteq Nat
  BY CsvAssumption
<1>2. \E x \in S : \A y \in S : x <= y
  BY <1>1, LeastExists
<1>. QED
  BY <1>2 DEF Least

LEMMA ChunkIsIn ==
  ASSUME NEW j \in Job, NEW plan \in SUBSET RowsOf[j], plan # {}
  PROVE  NextChunk(j, plan) \subseteq RowsOf[j]
<1>1. Least(plan) \in RowsOf[j]
  BY LeastIsIn
<1>2. CASE plan \ Singles[j] = {}
  <2>1. NextChunk(j, plan) = {Least(plan)}
    BY <1>2 DEF NextChunk
  <2>. QED
    BY <1>1, <2>1
<1>3. CASE plan \ Singles[j] # {}
  <2>1. NextChunk(j, plan) \subseteq plan
    BY <1>3 DEF NextChunk
  <2>. QED
    BY <2>1
<1>. QED
  BY <1>2, <1>3

LEMMA ChunkNotEmpty ==
  ASSUME NEW j \in Job, NEW plan \in SUBSET RowsOf[j], plan # {}
  PROVE  \E r : r \in NextChunk(j, plan)
<1>1. PICK pays : pays = plan \ Singles[j]
  OBVIOUS
<1>2. CASE pays = {}
  BY <1>1, <1>2 DEF NextChunk
<1>3. CASE pays # {}
  <2>1. pays \subseteq Nat /\ pays \in SUBSET RowsOf[j]
    BY <1>1, CsvAssumption
  <2>2. PICK r \in pays : \A s \in pays : r <= s
    BY <1>3, <2>1, LeastExists
  <2>3. \A s \in pays : ~(s < r)
    BY <2>1, <2>2
  <2>4. Cardinality({s \in pays : s < r}) < ChunkSize
    <3>1. PICK E : E = {s \in pays : s < r}
      OBVIOUS
    <3>2. E = {}
      BY <2>3, <3>1
    <3>3. Cardinality(E) = 0
      BY <3>2, FS_EmptySet
    <3>. QED
      BY <3>1, <3>3, CsvAssumption
  <2>5. r \in NextChunk(j, plan)
    BY <1>1, <1>3, <2>4 DEF NextChunk
  <2>. QED
    BY <2>5
<1>. QED
  BY <1>2, <1>3

-----------------------------------------------------------------------------
(* Operations *)

LEMMA AcceptedGrows ==
  ASSUME ImportInv, NEW j \in Job, NEW R \in SUBSET RowsOf[j], Accepted(j, R)
  PROVE  /\ Growing
         /\ \E m \in OpId : m = Len(ops) + 1 /\ \A r \in R : Executes(m, j, r)'
<1>1. ops \in Seq(Operation) /\ Len(ops) \in Nat /\ DOMAIN ops = 1..Len(ops) /\ Len(ops) < MaxOps
  BY DEF ImportInv, Accepted
<1>2. PICK q : q = [k \in DOMAIN ops |->
                      IF ops[k].state = "pooled" THEN [ops[k] EXCEPT !.state = "dropped"]
                      ELSE ops[k]]
  OBVIOUS
<1>3. PICK o : o = [job |-> j, rows |-> R, state |-> "pooled", indexed |-> FALSE]
  OBVIOUS
<1>4. ops' = Append(q, o)
  BY <1>2, <1>3 DEF Accepted
<1>5. o \in Operation /\ o.job = j /\ o.rows = R
  BY <1>3 DEF Operation
<1>6. ASSUME NEW k \in DOMAIN ops
      PROVE  /\ q[k] \in Operation /\ q[k].job = ops[k].job /\ q[k].rows = ops[k].rows
             /\ ops[k].state = "mined" => q[k].state = "mined"
  <2>1. ops[k] \in Operation
    BY <1>1
  <2>2. \/ q[k] = ops[k]
        \/ ops[k].state = "pooled" /\ q[k] = [ops[k] EXCEPT !.state = "dropped"]
    BY <1>2
  <2>. QED
    BY <2>1, <2>2 DEF Operation
<1>7. q \in Seq(Operation) /\ Len(q) = Len(ops)
  BY <1>1, <1>2, <1>6
<1>8. /\ ops' \in Seq(Operation) /\ Len(ops') = Len(ops) + 1
      /\ \A k \in 1..Len(ops) : ops'[k] = q[k]
      /\ ops'[Len(ops) + 1] = o
  BY <1>1, <1>4, <1>5, <1>7
<1>9. DOMAIN ops' = 1..(Len(ops) + 1)
  BY <1>8
<1>10. \A k \in DOMAIN ops : k \in DOMAIN ops' /\ ops'[k] = q[k]
  BY <1>1, <1>8, <1>9
<1>11. Growing
  BY <1>6, <1>8, <1>10 DEF Growing
<1>12. Len(ops) + 1 \in OpId /\ Len(ops) + 1 \in DOMAIN ops'
  BY <1>1, <1>9, CsvAssumption DEF OpId
<1>13. PICK m : m = Len(ops) + 1
  OBVIOUS
<1>14. \A r \in R : Executes(m, j, r)'
  BY <1>5, <1>8, <1>12, <1>13 DEF Executes
<1>. QED
  BY <1>11, <1>12, <1>13, <1>14

\* An operation changes its state, not from mined to another.
LEMMA OperationMoves ==
  ASSUME ImportInv, NEW k \in DOMAIN ops, NEW o \in Operation,
         o.job = ops[k].job, o.rows = ops[k].rows,
         ops[k].state = "mined" => o.state = "mined",
         ops' = [ops EXCEPT ![k] = o]
  PROVE  Growing
<1>1. ops \in Seq(Operation)
  BY DEF ImportInv
<1>2. ops' \in Seq(Operation) /\ DOMAIN ops' = DOMAIN ops
  BY <1>1
<1>3. ops'[k] = o /\ \A m \in DOMAIN ops : m # k => ops'[m] = ops[m]
  BY <1>1
<1>. QED
  BY <1>2, <1>3 DEF Growing

LEMMA ChainSteps ==
  ASSUME ImportInv, NEW k \in DOMAIN ops, Mine(k) \/ Index(k)
  PROVE  ImportInv'
<1>1. ops[k] \in Operation
  BY DEF ImportInv
<1>2. UNCHANGED row /\ UNCHANGED exec /\ UNCHANGED resume /\ UNCHANGED app
  BY DEF Mine, Index, store
<1>3. Growing
  <2>1. CASE Mine(k)
    <3>1. PICK x \in {"mined", "reverted"} : ops' = [ops EXCEPT ![k].state = x]
      BY <2>1 DEF Mine
    <3>2. PICK o : o = [ops[k] EXCEPT !.state = x]
      OBVIOUS
    <3>3. /\ o \in Operation /\ o.job = ops[k].job /\ o.rows = ops[k].rows
          /\ ops[k].state = "mined" => o.state = "mined"
      BY <1>1, <2>1, <3>2 DEF Operation, Mine
    <3>4. ops' = [ops EXCEPT ![k] = o]
      BY <3>1, <3>2
    <3>. QED
      BY <3>3, <3>4, OperationMoves
  <2>2. CASE Index(k)
    <3>1. PICK o : o = [ops[k] EXCEPT !.indexed = TRUE]
      OBVIOUS
    <3>2. o \in Operation /\ o.job = ops[k].job /\ o.rows = ops[k].rows /\ o.state = ops[k].state
      BY <1>1, <3>1 DEF Operation
    <3>3. ops' = [ops EXCEPT ![k] = o]
      BY <2>2, <3>1 DEF Index
    <3>. QED
      BY <3>2, <3>3, OperationMoves
  <2>. QED
    BY <2>1, <2>2
<1>. QED
  BY <1>2, <1>3, RowsUntouched, PassesUntouched, ResumesUntouched, AppsUntouched, AllOK

-----------------------------------------------------------------------------
(* Upload, approval, cancellation *)

LEMMA DetectDuplicatesKeeps ==
  ASSUME ImportInv, NEW j \in Job, DetectDuplicates(j)
  PROVE  ImportInv'
<1>1. UNCHANGED exec /\ UNCHANGED resume /\ UNCHANGED app /\ UNCHANGED ops
  BY DEF DetectDuplicates
<1>2. Growing
  BY <1>1, OpsUntouched
<1>3. PICK registry \in SUBSET ReceiptKeys :
        row' = [row EXCEPT ![j] = [r \in RowsOf[j] |->
                 [row[j][r] EXCEPT !.duplicate =
                    RepeatedInFile(j, r) \/ Content[j][r] \in HistoryKeys \cup registry]]]
  BY DEF DetectDuplicates
<1>4. PICK f : f = [r \in RowsOf[j] |->
                 [row[j][r] EXCEPT !.duplicate =
                    RepeatedInFile(j, r) \/ Content[j][r] \in HistoryKeys \cup registry]]
  OBVIOUS
<1>5. row' = [row EXCEPT ![j] = f]
  BY <1>3, <1>4
<1>6. ASSUME NEW r \in RowsOf[j]
      PROVE  f[r] \in RowRecord /\ f[r].op = row[j][r].op /\ f[r].status = row[j][r].status
  <2>1. row[j][r] \in RowRecord
    BY RowTyped
  <2>2. PICK d \in BOOLEAN : f[r] = [row[j][r] EXCEPT !.duplicate = d]
    <3>1. (RepeatedInFile(j, r) \/ Content[j][r] \in HistoryKeys \cup registry) \in BOOLEAN
      OBVIOUS
    <3>. QED
      BY <1>4, <3>1, Zenon
  <2>. QED
    BY <2>1, <2>2 DEF RowRecord
<1>7. f \in [RowsOf[j] -> RowRecord]
  BY <1>4, <1>6
<1>8. RowsOK'
  <2>1. \A r \in RowsOf[j] :
          /\ f[r].op = row[j][r].op
          /\ \/ f[r].status = row[j][r].status
             \/ f[r].status # "confirmed"
             \/ Payments(j, r) # {}
    BY <1>6
  <2>. QED
    BY <1>2, <1>5, <1>7, <2>1, SameHashes, Zenon
<1>. QED
  BY <1>1, <1>2, <1>8, PassesUntouched, ResumesUntouched, AppsUntouched, AllOK

LEMMA PreviewKeeps ==
  ASSUME ImportInv, NEW j \in Job, Preview(j)
  PROVE  ImportInv'
<1>1. UNCHANGED exec /\ UNCHANGED resume /\ UNCHANGED app /\ UNCHANGED ops
  BY DEF Preview
<1>2. Growing
  BY <1>1, OpsUntouched
<1>3. PICK ok : row' = [row EXCEPT ![j] = [r \in RowsOf[j] |->
                    LET verdict == IF r \in ok THEN "valid" ELSE "blocked" IN
                    [row[j][r] EXCEPT !.status = verdict, !.policy = verdict]]]
  BY DEF Preview
<1>4. PICK f : f = [r \in RowsOf[j] |->
                    LET verdict == IF r \in ok THEN "valid" ELSE "blocked" IN
                    [row[j][r] EXCEPT !.status = verdict, !.policy = verdict]]
  OBVIOUS
<1>5. row' = [row EXCEPT ![j] = f]
  BY <1>3, <1>4
<1>6. ASSUME NEW r \in RowsOf[j]
      PROVE  f[r] \in RowRecord /\ f[r].op = row[j][r].op /\ f[r].status # "confirmed"
  <2>1. row[j][r] \in RowRecord
    BY RowTyped
  <2>2. PICK v \in {"valid", "blocked"} : f[r] = [row[j][r] EXCEPT !.status = v, !.policy = v]
    BY <1>4
  <2>. QED
    BY <2>1, <2>2 DEF RowRecord
<1>7. f \in [RowsOf[j] -> RowRecord]
  BY <1>4, <1>6
<1>8. RowsOK'
  <2>1. \A r \in RowsOf[j] :
          /\ f[r].op = row[j][r].op
          /\ \/ f[r].status = row[j][r].status
             \/ f[r].status # "confirmed"
             \/ Payments(j, r) # {}
    BY <1>6
  <2>. QED
    BY <1>2, <1>5, <1>7, <2>1, SameHashes, Zenon
<1>. QED
  BY <1>1, <1>2, <1>8, PassesUntouched, ResumesUntouched, AppsUntouched, AllOK

LEMMA ClosedOK == Closed \in AppState /\ Closed.pc = "idle" /\ Closed.plan = {}
BY DEF Closed, AppState

LEMMA RestingOK ==
  Resting \in PassState /\ Resting.pc = "idle" /\ Resting.todo = {} /\ Resting.sel = {}
BY DEF Resting, PassState

\* A plan handed out is of rows of the job, none of them sent yet.
LEMMA PlanKeepsApps ==
  ASSUME ImportInv, Growing, NEW j \in Job, NEW rs, NEW allow, HandOutPlan(j, rs, allow)
  PROVE  AppsOK'
<1>1. CASE UNCHANGED app
  BY <1>1, AppsUntouched
<1>2. CASE Source[j] = "user"
  <2>1. PICK plan : plan = Executable(j, rs, allow)
    OBVIOUS
  <2>2. plan \subseteq RowsOf[j] /\ plan \subseteq Nat
    BY <2>1, CsvAssumption DEF Executable
  <2>3. PICK y : y = IF plan = {} THEN Closed ELSE [Closed EXCEPT !.pc = "send", !.plan = plan]
    OBVIOUS
  <2>4. app' = [app EXCEPT ![j] = y]
    BY <1>2, <2>1, <2>3 DEF HandOutPlan
  <2>5. CASE plan = {}
    <3>1. y \in AppState /\ AppOK(j, y)'
      BY <2>3, <2>5, ClosedOK DEF AppOK
    <3>. QED
      BY <2>4, <3>1, AppsWith
  <2>6. CASE plan # {}
    <3>1. y = [Closed EXCEPT !.pc = "send", !.plan = plan]
      BY <2>3, <2>6
    <3>2. y \in AppState /\ y.pc = "send" /\ y.plan = plan
      BY <2>2, <3>1, ClosedOK DEF AppState
    <3>3. AppOK(j, y)'
      BY <2>2, <2>6, <3>2 DEF AppOK
    <3>. QED
      BY <2>4, <3>2, <3>3, AppsWith
  <2>. QED
    BY <2>5, <2>6
<1>. QED
  BY <1>1, <1>2 DEF HandOutPlan

LEMMA ApproveKeeps ==
  ASSUME ImportInv, NEW j \in Job, NEW removed, NEW allow, Approve(j, removed, allow)
  PROVE  ImportInv'
<1>1. UNCHANGED exec /\ UNCHANGED resume /\ UNCHANGED ops
  BY DEF Approve
<1>2. Growing
  BY <1>1, OpsUntouched
<1>3. PICK f : f = [r \in RowsOf[j] |->
               IF r \in removed
               THEN [row[j][r] EXCEPT !.status = "blocked", !.policy = "blocked"]
               ELSE row[j][r]]
  OBVIOUS
<1>4. row' = [row EXCEPT ![j] = f] /\ HandOutPlan(j, f, allow)
  BY <1>3 DEF Approve
<1>5. ASSUME NEW r \in RowsOf[j]
      PROVE  /\ f[r] \in RowRecord /\ f[r].op = row[j][r].op
             /\ f[r].status = row[j][r].status \/ f[r].status # "confirmed"
  <2>1. row[j][r] \in RowRecord
    BY RowTyped
  <2>2. \/ f[r] = row[j][r]
        \/ f[r] = [row[j][r] EXCEPT !.status = "blocked", !.policy = "blocked"]
    BY <1>3
  <2>. QED
    BY <2>1, <2>2 DEF RowRecord
<1>6. f \in [RowsOf[j] -> RowRecord]
  BY <1>3, <1>5
<1>7. RowsOK'
  <2>1. \A r \in RowsOf[j] :
          /\ f[r].op = row[j][r].op
          /\ \/ f[r].status = row[j][r].status
             \/ f[r].status # "confirmed"
             \/ Payments(j, r) # {}
    BY <1>5
  <2>2. row' = [row EXCEPT ![j] = f]
    BY <1>4
  <2>. QED
    BY <1>2, <1>6, <2>1, <2>2, SameHashes, Zenon
<1>8. AppsOK'
  BY <1>2, <1>4, PlanKeepsApps
<1>. QED
  BY <1>1, <1>2, <1>7, <1>8, PassesUntouched, ResumesUntouched, AllOK

LEMMA CancelKeeps ==
  ASSUME ImportInv, NEW j \in Job, Cancel(j)
  PROVE  ImportInv'
<1>1. UNCHANGED row /\ UNCHANGED exec /\ UNCHANGED resume /\ UNCHANGED app /\ UNCHANGED ops
  BY DEF Cancel
<1>. QED
  BY <1>1, OpsUntouched, RowsUntouched, PassesUntouched, ResumesUntouched, AppsUntouched, AllOK

-----------------------------------------------------------------------------
(* Resumes *)

LEMMA ResumeDoneKeeps ==
  ASSUME ImportInv, Growing, NEW j \in Job, NEW rs, ResumeDone(j, rs)
  PROVE  ResumesOK' /\ AppsOK'
<1>1. PICK allow, y : allow = job[j].allow /\ y = NotResuming
  OBVIOUS
<1>2. resume' = [resume EXCEPT ![j] = y] /\ HandOutPlan(j, rs, allow)
  BY <1>1 DEF ResumeDone
<1>3. y \in ResumeState /\ TodoOK(j, y.todo)'
  BY <1>1 DEF NotResuming, ResumeState, TodoOK
<1>. QED
  BY <1>2, <1>3, ResumesWith, PlanKeepsApps

LEMMA StartResumeKeeps ==
  ASSUME ImportInv, NEW j \in Job, StartResume(j)
  PROVE  ImportInv'
<1>1. UNCHANGED exec /\ UNCHANGED ops /\ row' = SettledAtOnce(j)
  BY DEF StartResume
<1>2. Growing /\ RowsOK' /\ PassesOK'
  BY <1>1, OpsUntouched, AtOnceKeepsRows, PassesUntouched
<1>3. ResumesOK' /\ AppsOK'
  <2>1. PICK rs, todo : rs = SettledAtOnce(j)[j] /\ todo = InFlight(j) \ AtOnce(j)
    OBVIOUS
  <2>2. \/ ResumeDone(j, rs)
        \/ resume' = [resume EXCEPT ![j] = [on |-> TRUE, todo |-> todo]] /\ UNCHANGED app
    BY <2>1 DEF StartResume
  <2>3. todo \in SUBSET Snapshot /\ TodoOK(j, todo)
    BY <2>1, SnapshotOK DEF TodoOK
  <2>4. PICK y : y = [on |-> TRUE, todo |-> todo]
    OBVIOUS
  <2>5. y \in ResumeState /\ TodoOK(j, y.todo)'
    <3>1. TodoOK(j, todo)'
      BY <1>2, <2>3, TodoStays
    <3>. QED
      BY <2>3, <2>4, <3>1 DEF ResumeState, TodoOK
  <2>6. CASE resume' = [resume EXCEPT ![j] = [on |-> TRUE, todo |-> todo]] /\ UNCHANGED app
    BY <1>2, <2>4, <2>5, <2>6, ResumesWith, AppsUntouched
  <2>7. CASE ResumeDone(j, rs)
    BY <1>2, <2>7, ResumeDoneKeeps
  <2>. QED
    BY <2>2, <2>6, <2>7
<1>. QED
  BY <1>2, <1>3, AllOK

LEMMA ResumeSettlesKeeps ==
  ASSUME ImportInv, NEW j \in Job, ResumeSettles(j)
  PROVE  ImportInv'
<1>1. PICK x, e : x = resume[j] /\ e = First(x.todo)
  OBVIOUS
<1>2. /\ UNCHANGED exec /\ UNCHANGED app /\ UNCHANGED ops
      /\ x.todo # {} /\ Settle(j, First(x.todo))
      /\ resume' = [resume EXCEPT ![j].todo = @ \ {e}]
  BY <1>1 DEF ResumeSettles
<1>3. x \in ResumeState /\ TodoOK(j, x.todo)
  BY <1>1 DEF ImportInv, ResumesOK
<1>4. Growing
  BY <1>2, OpsUntouched
<1>5. RowsOK'
  <2>1. x.todo \in SUBSET Snapshot
    BY <1>3 DEF ResumeState
  <2>. QED
    BY <1>2, <1>3, <2>1, SettleKeepsRows
<1>6. ResumesOK'
  <2>1. PICK y : y = [x EXCEPT !.todo = @ \ {e}]
    OBVIOUS
  <2>2. y \in ResumeState /\ y.todo \subseteq x.todo
    BY <1>3, <2>1 DEF ResumeState
  <2>3. TodoOK(j, y.todo)'
    BY <1>3, <1>4, <2>2, TodoStays DEF TodoOK
  <2>4. resume' = [resume EXCEPT ![j] = y]
    BY <1>1, <1>2, <2>1
  <2>. QED
    BY <1>4, <2>2, <2>3, <2>4, ResumesWith
<1>. QED
  BY <1>2, <1>4, <1>5, <1>6, PassesUntouched, AppsUntouched, AllOK

LEMMA FinishResumeKeeps ==
  ASSUME ImportInv, NEW j \in Job, FinishResume(j)
  PROVE  ImportInv'
<1>1. UNCHANGED row /\ UNCHANGED exec /\ UNCHANGED ops
  BY DEF FinishResume
<1>2. Growing
  BY <1>1, OpsUntouched
<1>3. PICK rs : rs = row[j]
  OBVIOUS
<1>4. ResumesOK' /\ AppsOK'
  <2>1. ResumeDone(j, rs)
    BY <1>3 DEF FinishResume
  <2>. QED
    BY <1>2, <2>1, ResumeDoneKeeps
<1>. QED
  BY <1>1, <1>2, <1>4, RowsUntouched, PassesUntouched, AllOK

-----------------------------------------------------------------------------
(* The executor's pass *)

\* Steps of a pass that leave apps and resumes alone.
LEMMA PassGoesOn ==
  ASSUME ImportInv, Growing, RowsOK', NEW j \in Job, NEW y \in PassState, PassOK(j, y)',
         exec' = [exec EXCEPT ![j] = y], UNCHANGED resume, UNCHANGED app
  PROVE  ImportInv'
BY PassesWith, ResumesUntouched, AppsUntouched, AllOK

LEMMA PassTyped ==
  ASSUME ImportInv, NEW j \in Job
  PROVE  exec[j] \in PassState /\ PassOK(j, exec[j])
BY DEF ImportInv, PassesOK

LEMMA BeginJobKeeps ==
  ASSUME ImportInv, NEW j \in Job, BeginJob(j)
  PROVE  ImportInv'
<1>1. UNCHANGED resume /\ UNCHANGED app /\ UNCHANGED ops /\ row' = SettledAtOnce(j)
  BY DEF BeginJob
<1>2. Growing /\ RowsOK'
  BY <1>1, OpsUntouched, AtOnceKeepsRows
<1>3. PICK todo : todo = InFlight(j) \ AtOnce(j)
  OBVIOUS
<1>4. todo \in SUBSET Snapshot /\ TodoOK(j, todo)
  BY <1>3, SnapshotOK DEF TodoOK
<1>5. PICK y : y = [Resting EXCEPT !.pc = "reconcile", !.todo = todo]
  OBVIOUS
<1>6. exec' = [exec EXCEPT ![j] = y]
  BY <1>3, <1>5 DEF BeginJob
<1>7. y \in PassState /\ y.pc = "reconcile" /\ y.todo = todo /\ y.sel = {}
  BY <1>4, <1>5, RestingOK DEF PassState
<1>8. PassOK(j, y)'
  <2>1. TodoOK(j, todo)'
    BY <1>2, <1>4, TodoStays
  <2>. QED
    BY <1>7, <2>1 DEF PassOK, TodoOK
<1>. QED
  BY <1>1, <1>2, <1>6, <1>7, <1>8, PassGoesOn

LEMMA ExecutorSettlesKeeps ==
  ASSUME ImportInv, NEW j \in Job, ExecutorSettles(j)
  PROVE  ImportInv'
<1>1. PICK x, e : x = exec[j] /\ e = First(x.todo)
  OBVIOUS
<1>2. UNCHANGED resume /\ UNCHANGED app /\ UNCHANGED ops /\ x.pc = "reconcile"
  BY <1>1 DEF ExecutorSettles
<1>3. x \in PassState /\ PassOK(j, x)
  BY <1>1, PassTyped
<1>4. Growing
  BY <1>2, OpsUntouched
<1>5. CASE exec' = [exec EXCEPT ![j].pc = "policy"] /\ UNCHANGED row
  <2>1. PICK y : y = [x EXCEPT !.pc = "policy"]
    OBVIOUS
  <2>2. y \in PassState /\ y.pc = "policy" /\ y.todo = x.todo /\ y.sel = x.sel
    BY <1>3, <2>1 DEF PassState
  <2>3. PassOK(j, y)
    BY <1>3, <2>2 DEF PassOK
  <2>4. PassOK(j, y)' /\ exec' = [exec EXCEPT ![j] = y]
    BY <1>1, <1>4, <1>5, <2>1, <2>3, PassStays
  <2>. QED
    BY <1>2, <1>4, <1>5, <2>2, <2>4, RowsUntouched, PassGoesOn
<1>6. CASE /\ x.todo # {} /\ Settle(j, First(x.todo))
           /\ exec' = [exec EXCEPT ![j].todo = @ \ {e}]
  <2>1. RowsOK'
    <3>1. x.todo \in SUBSET Snapshot /\ TodoOK(j, x.todo)
      BY <1>3 DEF PassState, PassOK
    <3>. QED
      BY <1>2, <1>6, <3>1, SettleKeepsRows
  <2>2. PICK y : y = [x EXCEPT !.todo = @ \ {e}]
    OBVIOUS
  <2>3. y \in PassState /\ y.pc = x.pc /\ y.todo \subseteq x.todo /\ y.sel = x.sel
    BY <1>3, <2>2 DEF PassState
  <2>4. PassOK(j, y)
    BY <1>2, <1>3, <2>3 DEF PassOK, TodoOK
  <2>5. PassOK(j, y)' /\ exec' = [exec EXCEPT ![j] = y]
    BY <1>1, <1>4, <1>6, <2>2, <2>4, PassStays
  <2>. QED
    BY <1>2, <1>4, <2>1, <2>3, <2>5, PassGoesOn
<1>. QED
  BY <1>1, <1>5, <1>6 DEF ExecutorSettles

LEMMA CheckPolicyKeeps ==
  ASSUME ImportInv, NEW j \in Job, CheckPolicy(j)
  PROVE  ImportInv'
<1>1. UNCHANGED resume /\ UNCHANGED app /\ UNCHANGED ops /\ UNCHANGED row
  BY DEF CheckPolicy
<1>2. Growing /\ RowsOK'
  BY <1>1, OpsUntouched, RowsUntouched
<1>3. CASE exec' = [exec EXCEPT ![j] = Resting]
  <2>1. PICK y : y = Resting
    OBVIOUS
  <2>2. y \in PassState /\ PassOK(j, y)'
    BY <2>1, RestingOK DEF PassOK, TodoOK
  <2>3. exec' = [exec EXCEPT ![j] = y]
    BY <1>3, <2>1
  <2>. QED
    BY <1>1, <1>2, <2>2, <2>3, PassGoesOn
<1>4. CASE SelectRows(j)
  <2>1. PICK x, sel : x = exec[j] /\ sel = Executable(j, row[j], job[j].allow)
    OBVIOUS
  <2>2. x \in PassState /\ PassOK(j, x) /\ sel \subseteq RowsOf[j] /\ sel \subseteq Nat
    BY <2>1, PassTyped, CsvAssumption DEF Executable
  <2>3. PICK y : y = [x EXCEPT !.pc = "pay", !.sel = sel]
    OBVIOUS
  <2>4. y \in PassState /\ y.pc = "pay" /\ y.todo = x.todo /\ y.sel = sel
    BY <2>2, <2>3 DEF PassState
  <2>5. PassOK(j, y)
    BY <2>2, <2>4 DEF PassOK
  <2>6. PassOK(j, y)'
    BY <1>2, <2>5, PassStays
  <2>7. exec' = [exec EXCEPT ![j] = y]
    BY <1>4, <2>1, <2>3 DEF SelectRows
  <2>. QED
    BY <1>1, <1>2, <2>4, <2>6, <2>7, PassGoesOn
<1>. QED
  BY <1>3, <1>4 DEF CheckPolicy, PolicyLost, PolicyUnread

\* Going on to the next row keeps the pass in order.
LEMMA NextRowKeeps ==
  ASSUME ImportInv, Growing, NEW j \in Job, NextRow(j)
  PROVE  \E y \in PassState : PassOK(j, y)' /\ exec' = [exec EXCEPT ![j] = y]
<1>1. PICK x, c : x = exec[j] /\ c = Current(j)
  OBVIOUS
<1>2. x \in PassState /\ PassOK(j, x)
  BY <1>1, PassTyped
<1>3. PICK y : y = [x EXCEPT !.pc = "pay", !.op = NoOp, !.sel = @ \ {c}]
  OBVIOUS
<1>4. y \in PassState /\ y.pc = "pay" /\ y.todo = x.todo /\ y.sel \subseteq x.sel
  BY <1>2, <1>3 DEF PassState
<1>5. PassOK(j, y)
  BY <1>2, <1>4 DEF PassOK
<1>6. PassOK(j, y)'
  BY <1>5, PassStays
<1>7. exec' = [exec EXCEPT ![j] = y]
  BY <1>1, <1>3 DEF NextRow
<1>. QED
  BY <1>4, <1>6, <1>7

LEMMA BeginRowKeeps ==
  ASSUME ImportInv, NEW j \in Job, BeginRow(j)
  PROVE  ImportInv'
<1>1. UNCHANGED resume /\ UNCHANGED app /\ UNCHANGED ops
  BY DEF BeginRow
<1>2. Growing
  BY <1>1, OpsUntouched
<1>3. CASE /\ NextRow(j)
           /\ row' = WithStatus(j, {Current(j)}, "failed") \/ UNCHANGED row
  <2>1. RowsOK'
    BY <1>2, <1>3, StatusPatch, RowsUntouched
  <2>. QED
    BY <1>1, <1>2, <1>3, <2>1, NextRowKeeps, PassGoesOn
<1>4. CASE /\ exec[j].sel # {}
           /\ exec' = [exec EXCEPT ![j].pc = "send"]
           /\ row' = WithStatus(j, {Current(j)}, "executing")
  <2>1. RowsOK'
    BY <1>2, <1>4, StatusPatch
  <2>2. PICK x : x = exec[j]
    OBVIOUS
  <2>3. x \in PassState /\ PassOK(j, x)
    BY <2>2, PassTyped
  <2>4. PICK y : y = [x EXCEPT !.pc = "send"]
    OBVIOUS
  <2>5. y \in PassState /\ y.pc = "send" /\ y.todo = x.todo /\ y.sel = x.sel
    BY <2>3, <2>4 DEF PassState
  <2>6. PassOK(j, y)
    BY <1>4, <2>2, <2>3, <2>5 DEF PassOK
  <2>7. PassOK(j, y)' /\ exec' = [exec EXCEPT ![j] = y]
    BY <1>2, <1>4, <2>2, <2>4, <2>6, PassStays
  <2>. QED
    BY <1>1, <1>2, <2>1, <2>5, <2>7, PassGoesOn
<1>. QED
  BY <1>3, <1>4 DEF BeginRow

LEMMA SendKeeps ==
  ASSUME ImportInv, NEW j \in Job, Send(j)
  PROVE  ImportInv'
<1>1. UNCHANGED row /\ UNCHANGED resume /\ UNCHANGED app
  BY DEF Send, store
<1>2. PICK x, c : x = exec[j] /\ c = Least(x.sel)
  OBVIOUS
<1>3. x \in PassState /\ PassOK(j, x) /\ x.pc = "send" /\ c = Current(j)
  BY <1>2, PassTyped DEF Send, Current
<1>4. c \in RowsOf[j]
  BY <1>2, <1>3, LeastIsIn DEF PassOK
<1>5. PICK R : R = {c}
  OBVIOUS
<1>6. R \in SUBSET RowsOf[j] /\ Accepted(j, R)
  BY <1>3, <1>4, <1>5 DEF Send
<1>7. /\ Growing
      /\ \E m \in OpId : m = Len(ops) + 1 /\ \A r \in R : Executes(m, j, r)'
  BY <1>6, AcceptedGrows
<1>8. PICK m \in OpId : m = Len(ops) + 1 /\ \A r \in R : Executes(m, j, r)'
  BY <1>7
<1>9. PICK y : y = [x EXCEPT !.pc = "wait", !.op = m]
  OBVIOUS
<1>10. y \in PassState /\ y.pc = "wait" /\ y.todo = x.todo /\ y.sel = x.sel /\ y.op = m
  BY <1>3, <1>9 DEF PassState
<1>11. exec' = [exec EXCEPT ![j] = y]
  BY <1>2, <1>8, <1>9 DEF Send
<1>12. PassOK(j, y)'
  <2>1. PassOK(j, x)'
    BY <1>3, <1>7, PassStays
  <2>2. Executes(m, j, c)'
    BY <1>5, <1>8
  <2>3. x.sel # {}
    BY <1>3 DEF PassOK
  <2>4. TodoOK(j, y.todo)'
    BY <1>10, <2>1 DEF PassOK, TodoOK
  <2>5. (y.op = m /\ Least(y.sel) = c) /\ y.sel # {} /\ y.sel \subseteq RowsOf[j]
    BY <1>2, <1>10, <2>1, <2>3 DEF PassOK
  <2>6. Executes(y.op, j, Least(y.sel))'
    BY <2>2, <2>5
  <2>. QED
    BY <2>4, <2>5, <2>6 DEF PassOK
<1>. QED
  BY <1>1, <1>7, <1>10, <1>11, <1>12, RowsUntouched, PassGoesOn

LEMMA SendFailsKeeps ==
  ASSUME ImportInv, NEW j \in Job, SendFails(j)
  PROVE  ImportInv'
<1>1. UNCHANGED resume /\ UNCHANGED app /\ NextRow(j) /\ row' = WithStatus(j, {Current(j)}, "failed")
  BY DEF SendFails
<1>2. Growing
  <2>1. CASE UNCHANGED ops
    BY <2>1, OpsUntouched
  <2>2. CASE Accepted(j, {Current(j)})
    <3>1. PICK x, R : x = exec[j] /\ R = {Least(x.sel)}
      OBVIOUS
    <3>2. PassOK(j, x) /\ x.pc = "send"
      BY <3>1, PassTyped DEF SendFails
    <3>3. Least(x.sel) \in RowsOf[j]
      BY <3>2, LeastIsIn DEF PassOK
    <3>4. R \in SUBSET RowsOf[j] /\ Accepted(j, R)
      BY <2>2, <3>1, <3>3 DEF Current
    <3>. QED
      BY <3>4, AcceptedGrows
  <2>. QED
    BY <2>1, <2>2 DEF SendFails
<1>3. RowsOK'
  BY <1>1, <1>2, StatusPatch
<1>. QED
  BY <1>1, <1>2, <1>3, NextRowKeeps, PassGoesOn

\* An operation that executes a row has a number.
LEMMA OperationId ==
  ASSUME ImportInv, NEW k \in OpId \cup {NoOp}, NEW j, NEW r, Executes(k, j, r)
  PROVE  k \in OpId
<1>1. k \in Nat
  BY DEF ImportInv, Executes
<1>. QED
  BY <1>1, CsvAssumption DEF OpId

LEMMA AwaitKeeps ==
  ASSUME ImportInv, NEW j \in Job, Await(j)
  PROVE  ImportInv'
<1>1. UNCHANGED resume /\ UNCHANGED app /\ UNCHANGED ops /\ NextRow(j)
  BY DEF Await
<1>2. Growing
  BY <1>1, OpsUntouched
<1>3. PICK x, c, k : x = exec[j] /\ c = Least(x.sel) /\ k = x.op
  OBVIOUS
<1>4. x \in PassState /\ PassOK(j, x) /\ x.pc = "wait"
  BY <1>3, PassTyped DEF Await
<1>5. Executes(k, j, c) /\ k \in OpId \cup {NoOp}
  BY <1>3, <1>4 DEF PassOK, PassState
<1>6. k \in OpId
  BY <1>5, OperationId
<1>7. PICK R, s : /\ R = {c}
                  /\ s = IF ops[k].indexed /\ ops[k].state = "mined" THEN "confirmed" ELSE "executing"
  OBVIOUS
<1>8. /\ s \in {"executing", "confirmed", "failed"}
      /\ s = "confirmed" => ops[k].state = "mined"
      /\ \A r \in R : Executes(k, j, r)
  BY <1>5, <1>7
<1>9. row' = Recorded(j, R, s, k)
  BY <1>3, <1>7 DEF Await, Current
<1>10. RowsOK'
  BY <1>2, <1>6, <1>8, <1>9, RecordPatch
<1>. QED
  BY <1>1, <1>2, <1>10, NextRowKeeps, PassGoesOn

LEMMA FinishPassKeeps ==
  ASSUME ImportInv, NEW j \in Job, FinishPass(j)
  PROVE  ImportInv'
<1>1. UNCHANGED row /\ UNCHANGED resume /\ UNCHANGED app /\ UNCHANGED ops
  BY DEF FinishPass
<1>2. Growing /\ RowsOK'
  BY <1>1, OpsUntouched, RowsUntouched
<1>3. PICK y : y = Resting
  OBVIOUS
<1>4. y \in PassState /\ PassOK(j, y)' /\ exec' = [exec EXCEPT ![j] = y]
  BY <1>3, RestingOK DEF PassOK, TodoOK, FinishPass
<1>. QED
  BY <1>1, <1>2, <1>4, PassGoesOn

-----------------------------------------------------------------------------
(* The app *)

\* Steps of an app that leave passes and resumes alone.
LEMMA AppGoesOn ==
  ASSUME ImportInv, Growing, RowsOK', NEW j \in Job, NEW y \in AppState, AppOK(j, y)',
         app' = [app EXCEPT ![j] = y], UNCHANGED exec, UNCHANGED resume
  PROVE  ImportInv'
BY AppsWith, PassesUntouched, ResumesUntouched, AllOK

LEMMA AppTyped ==
  ASSUME ImportInv, NEW j \in Job
  PROVE  app[j] \in AppState /\ AppOK(j, app[j])
BY DEF ImportInv, AppsOK

\* The app goes on with the rest of its plan, none of it sent yet.
LEMMA NextStepKeeps ==
  ASSUME ImportInv, Growing, NEW j \in Job, NextStep(j) \/ app' = [app EXCEPT ![j] = Closed]
  PROVE  \E y \in AppState : AppOK(j, y)' /\ app' = [app EXCEPT ![j] = y]
<1>1. PICK x, rest : x = app[j] /\ rest = x.plan \ Chunk(j)
  OBVIOUS
<1>2. x \in AppState /\ AppOK(j, x)
  BY <1>1, AppTyped
<1>3. rest \subseteq RowsOf[j] /\ rest \subseteq Nat
  BY <1>1, <1>2, CsvAssumption DEF AppOK
<1>4. CASE app' = [app EXCEPT ![j] = Closed]
  <2>1. Closed \in AppState /\ AppOK(j, Closed)'
    BY ClosedOK DEF AppOK, Closed
  <2>. QED
    BY <1>4, <2>1
<1>5. CASE rest # {} /\ app' = [app EXCEPT ![j] = [Closed EXCEPT !.pc = "send", !.plan = rest]]
  <2>1. PICK y : y = [Closed EXCEPT !.pc = "send", !.plan = rest]
    OBVIOUS
  <2>2. y \in AppState /\ y.pc = "send" /\ y.plan = rest
    BY <1>3, <2>1, ClosedOK DEF AppState
  <2>3. AppOK(j, y)'
    BY <1>3, <1>5, <2>2 DEF AppOK
  <2>. QED
    BY <1>5, <2>1, <2>2, <2>3
<1>. QED
  BY <1>1, <1>4, <1>5 DEF NextStep

\* What an app reports of a chunk it waited for.
LEMMA ReportKeeps ==
  ASSUME ImportInv, UNCHANGED ops, NEW j \in Job, app[j].pc = "wait",
         NEW s \in {"executing", "confirmed", "failed"},
         s = "confirmed" => ops[app[j].op].state = "mined",
         Report(j, Chunk(j), s, app[j].op)
  PROVE  Growing /\ RowsOK'
<1>1. PICK x, k, C : x = app[j] /\ k = x.op /\ C = NextChunk(j, x.plan)
  OBVIOUS
<1>2. x \in AppState /\ AppOK(j, x) /\ x.pc = "wait"
  BY <1>1, AppTyped
<1>3. Growing
  BY OpsUntouched
<1>4. PICK R : R = {r \in C : row[j][r].status # "confirmed"}
  OBVIOUS
<1>5. row' = Recorded(j, R, s, k)
  BY <1>1, <1>4 DEF Report, Chunk
<1>6. \A r \in R : Executes(k, j, r)
  BY <1>1, <1>2, <1>4 DEF AppOK
<1>7. k \in OpId
  <2>1. x.plan \in SUBSET RowsOf[j] /\ x.plan # {} /\ k \in OpId \cup {NoOp}
    BY <1>1, <1>2 DEF AppOK, AppState
  <2>2. \E r : r \in C
    BY <1>1, <2>1, ChunkNotEmpty
  <2>3. \E r : Executes(k, j, r)
    BY <1>1, <1>2, <2>2 DEF AppOK
  <2>. QED
    BY <2>1, <2>3, OperationId
<1>8. s = "confirmed" => ops[k].state = "mined"
  BY <1>1
<1>9. RowsOK'
  BY <1>3, <1>5, <1>6, <1>7, <1>8, RecordPatch
<1>. QED
  BY <1>3, <1>9

LEMMA AppSendKeeps ==
  ASSUME ImportInv, NEW j \in Job, AppSend(j)
  PROVE  ImportInv'
<1>1. UNCHANGED row /\ UNCHANGED exec /\ UNCHANGED resume
  BY DEF AppSend, store
<1>2. PICK x, R : x = app[j] /\ R = NextChunk(j, x.plan)
  OBVIOUS
<1>3. x \in AppState /\ AppOK(j, x) /\ x.pc = "send" /\ R = Chunk(j)
  BY <1>2, AppTyped DEF AppSend, Chunk
<1>4. x.plan \in SUBSET RowsOf[j] /\ x.plan # {}
  BY <1>3 DEF AppOK
<1>5. R \in SUBSET RowsOf[j] /\ Accepted(j, R)
  BY <1>2, <1>3, <1>4, ChunkIsIn DEF AppSend
<1>6. /\ Growing
      /\ \E m \in OpId : m = Len(ops) + 1 /\ \A r \in R : Executes(m, j, r)'
  BY <1>5, AcceptedGrows
<1>7. PICK m \in OpId : m = Len(ops) + 1 /\ \A r \in R : Executes(m, j, r)'
  BY <1>6
<1>8. PICK y : y = [x EXCEPT !.pc = "wait", !.op = m]
  OBVIOUS
<1>9. y \in AppState /\ y.pc = "wait" /\ y.plan = x.plan /\ y.op = m
  BY <1>3, <1>8 DEF AppState
<1>10. app' = [app EXCEPT ![j] = y]
  BY <1>2, <1>7, <1>8 DEF AppSend
<1>11. \A r \in NextChunk(j, y.plan) : Executes(y.op, j, r)'
  BY <1>2, <1>7, <1>9
<1>12. AppOK(j, y)'
  BY <1>4, <1>9, <1>11 DEF AppOK
<1>. QED
  BY <1>1, <1>6, <1>9, <1>10, <1>12, RowsUntouched, AppGoesOn

LEMMA AppAcknowledgesKeeps ==
  ASSUME ImportInv, NEW j \in Job, AppAcknowledges(j)
  PROVE  ImportInv'
<1>1. UNCHANGED exec /\ UNCHANGED resume /\ UNCHANGED app /\ UNCHANGED ops
  BY DEF AppAcknowledges
<1>2. PICK s : s = "executing"
  OBVIOUS
<1>3. app[j].pc = "wait" /\ Report(j, Chunk(j), s, app[j].op)
  BY <1>2 DEF AppAcknowledges
<1>4. Growing /\ RowsOK'
  BY <1>1, <1>2, <1>3, ReportKeeps
<1>. QED
  BY <1>1, <1>4, PassesUntouched, ResumesUntouched, AppsUntouched, AllOK

LEMMA AppSeesMinedKeeps ==
  ASSUME ImportInv, NEW j \in Job, AppSeesMined(j)
  PROVE  ImportInv'
<1>1. UNCHANGED exec /\ UNCHANGED resume /\ UNCHANGED ops /\ NextStep(j)
  BY DEF AppSeesMined
<1>2. PICK s : s = "confirmed"
  OBVIOUS
<1>3. app[j].pc = "wait" /\ ops[app[j].op].state = "mined" /\ Report(j, Chunk(j), s, app[j].op)
  BY <1>2 DEF AppSeesMined
<1>4. Growing /\ RowsOK'
  BY <1>1, <1>2, <1>3, ReportKeeps
<1>. QED
  BY <1>1, <1>4, NextStepKeeps, AppGoesOn

LEMMA AppSeesFailedKeeps ==
  ASSUME ImportInv, NEW j \in Job, AppSeesFailed(j)
  PROVE  ImportInv'
<1>1. /\ UNCHANGED exec /\ UNCHANGED resume /\ UNCHANGED ops
      /\ NextStep(j) \/ app' = [app EXCEPT ![j] = Closed]
  BY DEF AppSeesFailed
<1>2. PICK s : s = "failed"
  OBVIOUS
<1>3. app[j].pc = "wait" /\ Report(j, Chunk(j), s, app[j].op)
  BY <1>2 DEF AppSeesFailed
<1>4. Growing /\ RowsOK'
  BY <1>1, <1>2, <1>3, ReportKeeps
<1>. QED
  BY <1>1, <1>4, NextStepKeeps, AppGoesOn

LEMMA CloseAppKeeps ==
  ASSUME ImportInv, NEW j \in Job, CloseApp(j)
  PROVE  ImportInv'
<1>1. /\ UNCHANGED row /\ UNCHANGED exec /\ UNCHANGED resume /\ UNCHANGED ops
      /\ app' = [app EXCEPT ![j] = Closed]
  BY DEF CloseApp, store
<1>2. Growing /\ RowsOK'
  BY <1>1, OpsUntouched, RowsUntouched
<1>. QED
  BY <1>1, <1>2, NextStepKeeps, AppGoesOn

-----------------------------------------------------------------------------
(* The invariant *)

LEMMA CrashKeeps ==
  ASSUME ImportInv, Crash
  PROVE  ImportInv'
<1>1. UNCHANGED row /\ UNCHANGED app /\ UNCHANGED ops
  BY DEF Crash
<1>2. Growing /\ RowsOK' /\ AppsOK'
  BY <1>1, OpsUntouched, RowsUntouched, AppsUntouched
<1>3. PassesOK'
  <2>1. exec' = [j \in Job |-> Resting]
    BY DEF Crash
  <2>. QED
    BY <2>1, RestingOK DEF PassesOK, PassOK, TodoOK
<1>4. ResumesOK'
  <2>1. resume' = [j \in Job |-> NotResuming]
    BY DEF Crash
  <2>2. NotResuming \in ResumeState /\ NotResuming.todo = {}
    BY DEF NotResuming, ResumeState
  <2>. QED
    BY <2>1, <2>2 DEF ResumesOK, TodoOK
<1>. QED
  BY <1>2, <1>3, <1>4, AllOK

LEMMA InitEstablishes == Init => ImportInv
<1>. SUFFICES ASSUME NothingRuns PROVE ImportInv
  BY DEF Init
<1>1. RowsOK
  <2>1. PICK x : x = [status |-> "absent", policy |-> "blocked", duplicate |-> FALSE, op |-> NoOp]
    OBVIOUS
  <2>2. x \in RowRecord /\ x.op = NoOp /\ x.status = "absent"
    BY <2>1 DEF RowRecord
  <2>3. row = [j \in Job |-> [r \in RowsOf[j] |-> x]]
    BY <2>1 DEF NothingRuns
  <2>4. \A j \in Job : row[j] \in [RowsOf[j] -> RowRecord]
    BY <2>2, <2>3
  <2>5. row \in [Job -> UNION {[RowsOf[j] -> RowRecord] : j \in Job}]
    BY <2>3, <2>4
  <2>6. \A j \in Job : \A r \in RowsOf[j] : RowOK(j, r, row[j][r])
    BY <2>2, <2>3 DEF RowOK
  <2>. QED
    BY <2>4, <2>5, <2>6 DEF RowsOK
<1>2. PassesOK
  <2>1. exec = [j \in Job |-> Resting]
    BY DEF NothingRuns
  <2>. QED
    BY <2>1, RestingOK DEF PassesOK, PassOK, TodoOK
<1>3. ResumesOK
  <2>1. resume = [j \in Job |-> NotResuming]
    BY DEF NothingRuns
  <2>2. NotResuming \in ResumeState /\ NotResuming.todo = {}
    BY DEF NotResuming, ResumeState
  <2>. QED
    BY <2>1, <2>2 DEF ResumesOK, TodoOK
<1>4. AppsOK
  <2>1. app = [j \in Job |-> Closed]
    BY DEF NothingRuns
  <2>. QED
    BY <2>1, ClosedOK DEF AppsOK, AppOK
<1>5. ops \in Seq(Operation)
  BY DEF NothingRuns
<1>. QED
  BY <1>1, <1>2, <1>3, <1>4, <1>5 DEF ImportInv

LEMMA NothingHappens ==
  ASSUME ImportInv, UNCHANGED vars
  PROVE  ImportInv'
<1>1. UNCHANGED row /\ UNCHANGED exec /\ UNCHANGED resume /\ UNCHANGED app /\ UNCHANGED ops
  BY DEF vars, store
<1>. QED
  BY <1>1, OpsUntouched, RowsUntouched, PassesUntouched, ResumesUntouched, AppsUntouched, AllOK

LEMMA ImportInvIsInductive == ImportInv /\ [Next]_vars => ImportInv'
<1>. SUFFICES ASSUME ImportInv, [Next]_vars PROVE ImportInv'
  OBVIOUS
<1>1. ASSUME NEW j \in Job,
             \/ DetectDuplicates(j) \/ Preview(j) \/ Cancel(j)
             \/ \E removed \in SUBSET RowsOf[j], allow \in Overrides(j) : Approve(j, removed, allow)
             \/ StartResume(j) \/ ResumeSettles(j) \/ FinishResume(j)
      PROVE  ImportInv'
  BY <1>1, DetectDuplicatesKeeps, PreviewKeeps, CancelKeeps, ApproveKeeps, StartResumeKeeps,
     ResumeSettlesKeeps, FinishResumeKeeps, Zenon
<1>2. ASSUME NEW j \in Job,
             \/ BeginJob(j) \/ ExecutorSettles(j) \/ CheckPolicy(j) \/ BeginRow(j)
             \/ Send(j) \/ SendFails(j) \/ Await(j) \/ FinishPass(j)
      PROVE  ImportInv'
  BY <1>2, BeginJobKeeps, ExecutorSettlesKeeps, CheckPolicyKeeps, BeginRowKeeps, SendKeeps,
     SendFailsKeeps, AwaitKeeps, FinishPassKeeps, Zenon
<1>3. ASSUME NEW j \in Job,
             \/ AppSend(j) \/ AppAcknowledges(j) \/ AppSeesMined(j) \/ AppSeesFailed(j) \/ CloseApp(j)
      PROVE  ImportInv'
  BY <1>3, AppSendKeeps, AppAcknowledgesKeeps, AppSeesMinedKeeps, AppSeesFailedKeeps,
     CloseAppKeeps, Zenon
<1>4. ASSUME NEW k \in DOMAIN ops, Mine(k) \/ Index(k)
      PROVE  ImportInv'
  BY <1>4, ChainSteps
<1>. QED
  BY <1>1, <1>2, <1>3, <1>4, CrashKeeps, NothingHappens, Zenon DEF Next

\* However jobs, resumes, apps and crashes interleave, and whatever old snapshot
\* or late report settles a row, a row is called confirmed only when an
\* operation that executes it was mined.
THEOREM ConfirmedArePaid == Spec => []ConfirmedMeansPaid
<1>1. ImportInv => ConfirmedMeansPaid
  BY DEF ImportInv, RowsOK, RowOK, ConfirmedMeansPaid
<1>. QED
  BY InitEstablishes, ImportInvIsInductive, <1>1, PTL DEF Spec

-----------------------------------------------------------------------------
(* A row is paid once, and never what was known to be paid *)

JobRec == [status : JobStatus, allow : BOOLEAN, reading : BOOLEAN]

\* The operations that paid row r or may still pay it.
Live(j, r) ==
  {k \in DOMAIN ops : ops[k].job = j /\ r \in ops[k].rows /\ ops[k].state \in {"pooled", "mined"}}

\* Nothing has touched the rows of a job whose preview is not stored yet.
Fresh(j) ==
  /\ exec[j].pc = "idle" /\ ~resume[j].on /\ app[j].pc = "idle"
  /\ \A k \in DOMAIN ops : ops[k].job # j
  /\ \A r \in RowsOf[j] : row[j][r].status = "absent" /\ row[j][r].policy = "blocked"

\* At most one of pass, resume and app is at work on a job.
Orderly(j) ==
  /\ job[j].status \in {"none", "deduped"} => Fresh(j)
  /\ Source[j] = "user" => exec[j].pc = "idle" /\ (resume[j].on => app[j].pc = "idle")
  /\ Source[j] = "autopilot" => app[j].pc = "idle"
  /\ j \notin raced => exec[j].pc = "idle" \/ ~resume[j].on

OrderInv == job \in [Job -> JobRec] /\ \A j \in Job : Orderly(j)

\* A row that may have been paid is not selected again: it is confirmed, or
\* blocked, or in flight under the operation that may have paid it.
SafeRow(live, w) ==
  live # {} => \/ w.status = "confirmed" \/ w.policy = "blocked"
               \/ w.status = "executing" /\ live \subseteq {w.op} \ {NoOp}

\* What a snapshot will settle is settled rightly.
SnapOK(r, live, w, todo) ==
  \A e \in todo : e.row = r => live \subseteq {e.op} \ {NoOp} \/ w.policy = "blocked"

OnceInPass(r, live, w, x) ==
  /\ x.pc \in {"pay", "send"} /\ r \in x.sel => live = {}
  /\ x.pc = "wait" /\ r \in x.sel => live \subseteq (IF r = Least(x.sel) THEN {x.op} ELSE {})
  /\ x.pc = "reconcile" => SnapOK(r, live, w, x.todo)

OnceInApp(j, r, live, w, a) ==
  /\ a.pc = "send" /\ r \in a.plan => live = {}
  /\ a.pc = "wait" /\ r \in a.plan =>
       live \subseteq (IF r \in NextChunk(j, a.plan) THEN {a.op} ELSE {})
  /\ a.pc = "wait" /\ r \in NextChunk(j, a.plan) /\ w.op = a.op =>
       w.status \in {"executing", "confirmed"} \/ w.policy = "blocked"

Waits(j, r, x, a) ==
  \/ x.pc = "wait" /\ r = Least(x.sel)
  \/ a.pc = "wait" /\ r \in NextChunk(j, a.plan)

\* One row's record w, and its job's pass x, resume s and app a, given the
\* operations live for it.
RowOnce(j, r, live, w, x, s, a) ==
  /\ \A k, l \in live : k = l
  /\ OnceInPass(r, live, w, x)
  /\ s.on => SnapOK(r, live, w, s.todo)
  /\ OnceInApp(j, r, live, w, a)
  /\ Waits(j, r, x, a) \/ SafeRow(live, w)

Once(j, r) == RowOnce(j, r, Live(j, r), row[j][r], exec[j], resume[j], app[j])

OnceInv ==
  \A j \in Job \ raced : \A r \in RowsOf[j] : <<j, r>> \notin unseen => Once(j, r)

OrderedInv == ImportInv /\ OrderInv /\ OnceInv

-----------------------------------------------------------------------------
(* One row *)

LEMMA FewerLive ==
  ASSUME NEW j, NEW r, NEW live, NEW w, NEW x, NEW s, NEW a, RowOnce(j, r, live, w, x, s, a),
         NEW less, less \subseteq live
  PROVE  RowOnce(j, r, less, w, x, s, a)
<1>1. OnceInPass(r, less, w, x)
  BY DEF RowOnce, OnceInPass, SnapOK
<1>2. OnceInApp(j, r, less, w, a)
  BY DEF RowOnce, OnceInApp
<1>3. (s.on => SnapOK(r, less, w, s.todo)) /\ (SafeRow(live, w) => SafeRow(less, w))
  BY DEF RowOnce, SafeRow, SnapOK
<1>. QED
  BY <1>1, <1>2, <1>3 DEF RowOnce

\* Nobody is at work on the row's job.
LEMMA AtRest ==
  ASSUME NEW j, NEW r, NEW live, NEW w, NEW x, NEW s, NEW a,
         \A k, l \in live : k = l, x.pc = "idle" \/ x.pc = "policy", ~s.on, a.pc = "idle",
         SafeRow(live, w)
  PROVE  RowOnce(j, r, live, w, x, s, a)
BY DEF RowOnce, OnceInPass, OnceInApp

\* A row is blocked for good.
LEMMA BlockRow ==
  ASSUME NEW j, NEW r, NEW live, NEW w, NEW x, NEW s, NEW a, RowOnce(j, r, live, w, x, s, a),
         NEW v, v.policy = "blocked"
  PROVE  RowOnce(j, r, live, v, x, s, a)
<1>1. OnceInPass(r, live, v, x)
  BY DEF RowOnce, OnceInPass, SnapOK
<1>2. OnceInApp(j, r, live, v, a)
  BY DEF RowOnce, OnceInApp
<1>. QED
  BY <1>1, <1>2 DEF RowOnce, SafeRow, SnapOK

\* Reconciling settles a row that may have been paid only as confirmed.
LEMMA SettledSafe ==
  ASSUME NEW r, NEW live, NEW w, SafeRow(live, w), NEW e, e.row = r,
         live \subseteq {e.op} \ {NoOp} \/ w.policy = "blocked",
         NEW v, v.policy = w.policy,
         \/ v.status = "confirmed"
         \/ v.status = "valid" /\ e.op = NoOp
         \/ v.status = "failed" /\ e.op \notin live
  PROVE  SafeRow(live, v)
BY DEF SafeRow

LEMMA SnapKept ==
  ASSUME NEW r, NEW live, NEW w, NEW todo, SnapOK(r, live, w, todo),
         NEW v, v.policy = w.policy, NEW less, less \subseteq todo
  PROVE  SnapOK(r, live, v, less)
BY DEF SnapOK

\* What is executing is told apart by the operation it is in.
LEMMA SnapTaken ==
  ASSUME NEW r, NEW live, NEW w, SafeRow(live, w), NEW todo,
         \A e \in todo : e.row = r => w.status = "executing" /\ e.op = w.op
  PROVE  SnapOK(r, live, w, todo)
BY DEF SafeRow, SnapOK

\* A pass reconciles.
LEMMA PassSettlesRow ==
  ASSUME NEW j, NEW r, NEW live, NEW w, NEW x, NEW s, NEW a, RowOnce(j, r, live, w, x, s, a),
         x.pc = "reconcile", ~s.on, a.pc = "idle",
         NEW v, v.policy = w.policy, SafeRow(live, v),
         NEW y, y.pc = "reconcile" \/ y.pc = "policy", y.todo \subseteq x.todo
  PROVE  RowOnce(j, r, live, v, y, s, a)
<1>1. SnapOK(r, live, w, x.todo)
  BY DEF RowOnce, OnceInPass
<1>2. SnapOK(r, live, v, y.todo)
  BY <1>1, SnapKept
<1>3. OnceInPass(r, live, v, y) /\ OnceInApp(j, r, live, v, a)
  BY <1>2 DEF OnceInPass, OnceInApp
<1>. QED
  BY <1>3 DEF RowOnce

\* A resume reconciles.
LEMMA ResumeSettlesRow ==
  ASSUME NEW j, NEW r, NEW live, NEW w, NEW x, NEW s, NEW a, RowOnce(j, r, live, w, x, s, a),
         s.on, x.pc = "idle", a.pc = "idle",
         NEW v, v.policy = w.policy, SafeRow(live, v),
         NEW t, t.todo \subseteq s.todo
  PROVE  RowOnce(j, r, live, v, x, t, a)
<1>1. SnapOK(r, live, w, s.todo)
  BY DEF RowOnce
<1>2. SnapOK(r, live, v, t.todo)
  BY <1>1, SnapKept
<1>3. OnceInPass(r, live, v, x) /\ OnceInApp(j, r, live, v, a)
  BY DEF OnceInPass, OnceInApp
<1>. QED
  BY <1>2, <1>3 DEF RowOnce

\* A pass selects rows that cannot have been paid.
LEMMA PassSelectsRow ==
  ASSUME NEW j, NEW r, NEW live, NEW w, NEW x, NEW s, NEW a, RowOnce(j, r, live, w, x, s, a),
         x.pc = "policy", ~s.on, a.pc = "idle",
         NEW y, y.pc = "pay",
         r \in y.sel => w.status \in {"valid", "failed"} /\ w.policy = "valid"
  PROVE  RowOnce(j, r, live, w, y, s, a)
<1>1. SafeRow(live, w)
  BY DEF RowOnce, Waits
<1>2. OnceInPass(r, live, w, y) /\ OnceInApp(j, r, live, w, a)
  BY <1>1 DEF OnceInPass, OnceInApp, SafeRow
<1>. QED
  BY <1>1, <1>2 DEF RowOnce

\* A pass goes on to the next row, or to sending this one.
LEMMA PassPaysRow ==
  ASSUME NEW j, NEW r, NEW live, NEW w, NEW x, NEW s, NEW a, RowOnce(j, r, live, w, x, s, a),
         x.pc \in {"pay", "send"}, ~s.on, a.pc = "idle",
         NEW v, v = w \/ r \in x.sel,
         NEW y, y.pc = "pay" \/ y.pc = "send" \/ y.pc = "idle", y.sel \subseteq x.sel
  PROVE  RowOnce(j, r, live, v, y, s, a)
<1>1. SafeRow(live, v)
  BY DEF RowOnce, Waits, SafeRow, OnceInPass
<1>2. OnceInPass(r, live, v, y) /\ OnceInApp(j, r, live, v, a)
  BY DEF OnceInPass, OnceInApp, RowOnce
<1>. QED
  BY <1>1, <1>2 DEF RowOnce

\* The operation is sent.
LEMMA PassSendsRow ==
  ASSUME NEW j, NEW r, NEW live, NEW w, NEW x, NEW s, NEW a, RowOnce(j, r, live, w, x, s, a),
         x.pc = "send", ~s.on, a.pc = "idle", Least(x.sel) \in x.sel,
         NEW y, NEW m, y.pc = "wait", y.sel = x.sel, y.op = m,
         NEW more, more \subseteq (IF r = Least(x.sel) THEN live \cup {m} ELSE live)
  PROVE  RowOnce(j, r, more, w, y, s, a)
<1>1. CASE r = Least(x.sel)
  <2>1. more \subseteq {m}
    BY <1>1 DEF RowOnce, OnceInPass
  <2>2. OnceInPass(r, more, w, y) /\ OnceInApp(j, r, more, w, a) /\ Waits(j, r, y, a)
    BY <1>1, <2>1 DEF OnceInPass, OnceInApp, Waits
  <2>. QED
    BY <2>1, <2>2 DEF RowOnce
<1>2. CASE r # Least(x.sel)
  <2>1. more \subseteq live /\ SafeRow(more, w)
    BY <1>2 DEF RowOnce, Waits, SafeRow
  <2>2. OnceInPass(r, more, w, y) /\ OnceInApp(j, r, more, w, a)
    BY <1>2, <2>1 DEF OnceInPass, OnceInApp, RowOnce
  <2>. QED
    BY <2>1, <2>2 DEF RowOnce
<1>. QED
  BY <1>1, <1>2

\* The wait ends: confirmed, or left in flight under its operation.
LEMMA PassSawRow ==
  ASSUME NEW j, NEW r, NEW live, NEW w, NEW x, NEW s, NEW a, RowOnce(j, r, live, w, x, s, a),
         x.pc = "wait", ~s.on, a.pc = "idle", Least(x.sel) \in x.sel, x.op # NoOp,
         NEW v, r # Least(x.sel) => v = w,
         r = Least(x.sel) =>
           v.status = "confirmed" \/ (v.status = "executing" /\ v.op = x.op),
         NEW y, y.pc = "pay", y.sel = x.sel \ {Least(x.sel)}
  PROVE  RowOnce(j, r, live, v, y, s, a)
<1>1. CASE r = Least(x.sel)
  <2>1. live \subseteq {x.op}
    BY <1>1 DEF RowOnce, OnceInPass
  <2>2. SafeRow(live, v)
    BY <1>1, <2>1 DEF SafeRow
  <2>3. OnceInPass(r, live, v, y) /\ OnceInApp(j, r, live, v, a)
    BY <1>1 DEF OnceInPass, OnceInApp
  <2>. QED
    BY <2>2, <2>3 DEF RowOnce
<1>2. CASE r # Least(x.sel)
  <2>1. SafeRow(live, v)
    BY <1>2 DEF RowOnce, Waits
  <2>2. OnceInPass(r, live, v, y) /\ OnceInApp(j, r, live, v, a)
    BY <1>2 DEF OnceInPass, OnceInApp, RowOnce
  <2>. QED
    BY <2>1, <2>2 DEF RowOnce
<1>. QED
  BY <1>1, <1>2

\* An app is given a plan of rows that cannot have been paid.
LEMMA AppPlansRow ==
  ASSUME NEW j, NEW r, NEW live, NEW w, NEW x, NEW s, NEW a,
         \A k, l \in live : k = l, SafeRow(live, w), x.pc = "idle", ~s.on,
         a.pc = "idle" \/ a.pc = "send",
         a.pc = "send" /\ r \in a.plan => w.status \in {"valid", "failed"} /\ w.policy = "valid"
  PROVE  RowOnce(j, r, live, w, x, s, a)
<1>1. OnceInPass(r, live, w, x) /\ OnceInApp(j, r, live, w, a)
  BY DEF OnceInPass, OnceInApp, SafeRow
<1>. QED
  BY <1>1 DEF RowOnce

LEMMA AppSendsRow ==
  ASSUME NEW j, NEW r, NEW live, NEW w, NEW x, NEW s, NEW a, RowOnce(j, r, live, w, x, s, a),
         a.pc = "send", ~s.on, x.pc = "idle", NextChunk(j, a.plan) \subseteq a.plan,
         NEW b, NEW m, b.pc = "wait", b.plan = a.plan, b.op = m, w.op # m,
         NEW more, more \subseteq (IF r \in NextChunk(j, a.plan) THEN live \cup {m} ELSE live)
  PROVE  RowOnce(j, r, more, w, x, s, b)
<1>1. CASE r \in NextChunk(j, a.plan)
  <2>1. more \subseteq {m}
    BY <1>1 DEF RowOnce, OnceInApp
  <2>2. OnceInPass(r, more, w, x) /\ OnceInApp(j, r, more, w, b) /\ Waits(j, r, x, b)
    BY <1>1, <2>1 DEF OnceInPass, OnceInApp, Waits
  <2>. QED
    BY <2>1, <2>2 DEF RowOnce
<1>2. CASE r \notin NextChunk(j, a.plan)
  <2>1. more \subseteq live /\ SafeRow(more, w)
    BY <1>2 DEF RowOnce, Waits, SafeRow
  <2>2. OnceInPass(r, more, w, x) /\ OnceInApp(j, r, more, w, b)
    BY <1>2, <2>1 DEF OnceInPass, OnceInApp, RowOnce
  <2>. QED
    BY <2>1, <2>2 DEF RowOnce
<1>. QED
  BY <1>1, <1>2

\* An app reports the hash of what it waits for.
LEMMA AppTellsRow ==
  ASSUME NEW j, NEW r, NEW live, NEW w, NEW x, NEW s, NEW a, RowOnce(j, r, live, w, x, s, a),
         a.pc = "wait", ~s.on, x.pc = "idle",
         NEW v, v = w \/ (r \in NextChunk(j, a.plan) /\ v.status = "executing")
  PROVE  RowOnce(j, r, live, v, x, s, a)
<1>1. OnceInPass(r, live, v, x) /\ OnceInApp(j, r, live, v, a)
  BY DEF OnceInPass, OnceInApp, RowOnce
<1>. QED
  BY <1>1 DEF RowOnce, Waits

\* An app's wait ends, and it goes on with the rest of its plan or stops.
LEMMA AppSawRow ==
  ASSUME NEW j, NEW r, NEW live, NEW w, NEW x, NEW s, NEW a, RowOnce(j, r, live, w, x, s, a),
         ~s.on, x.pc = "idle", a.pc = "wait" => NextChunk(j, a.plan) \subseteq a.plan,
         NEW v,
         a.pc = "wait" /\ r \in NextChunk(j, a.plan) =>
           \/ live = {} \/ v.status = "confirmed" \/ v.policy = "blocked"
           \/ v.status = "executing" /\ v.op = a.op /\ a.op # NoOp,
         ~(a.pc = "wait" /\ r \in NextChunk(j, a.plan)) => v = w,
         NEW b, b.pc = "idle" \/ (b.pc = "send" /\ a.pc = "wait" /\ b.plan \subseteq a.plan \ NextChunk(j, a.plan))
  PROVE  RowOnce(j, r, live, v, x, s, b)
<1>1. CASE a.pc = "wait" /\ r \in NextChunk(j, a.plan)
  <2>1. live \subseteq {a.op}
    BY <1>1 DEF RowOnce, OnceInApp
  <2>2. SafeRow(live, v)
    BY <1>1, <2>1 DEF SafeRow
  <2>3. OnceInPass(r, live, v, x) /\ OnceInApp(j, r, live, v, b)
    BY <1>1 DEF OnceInPass, OnceInApp
  <2>. QED
    BY <2>2, <2>3 DEF RowOnce
<1>2. CASE ~(a.pc = "wait" /\ r \in NextChunk(j, a.plan))
  <2>1. SafeRow(live, v)
    BY <1>2 DEF RowOnce, Waits
  <2>2. OnceInPass(r, live, v, x) /\ OnceInApp(j, r, live, v, b)
    BY <1>2 DEF OnceInPass, OnceInApp, RowOnce
  <2>. QED
    BY <2>1, <2>2 DEF RowOnce
<1>. QED
  BY <1>1, <1>2

-----------------------------------------------------------------------------
(* One step, at work on one job *)

Elsewhere(j) ==
  \A i \in Job \ {j} :
    /\ job'[i] = job[i] /\ row'[i] = row[i] /\ exec'[i] = exec[i]
    /\ resume'[i] = resume[i] /\ app'[i] = app[i]

\* The operations are those there were, and perhaps one more of the job.
OpsFrame(j) ==
  \A k \in DOMAIN ops' :
    \/ k \in DOMAIN ops /\ ops'[k].job = ops[k].job /\ ops'[k].rows = ops[k].rows
    \/ ops'[k].job = j

LEMMA OnceWas ==
  ASSUME OrderedInv, NEW j \in Job, j \notin raced, NEW r \in RowsOf[j], <<j, r>> \notin unseen
  PROVE  RowOnce(j, r, Live(j, r), row[j][r], exec[j], resume[j], app[j])
BY DEF OrderedInv, OnceInv, Once

LEMMA OnceNow ==
  ASSUME NEW j, NEW r, NEW live, NEW w, NEW x, NEW s, NEW a, RowOnce(j, r, live, w, x, s, a),
         live = Live(j, r)', w = row'[j][r], x = exec'[j], s = resume'[j], a = app'[j]
  PROVE  Once(j, r)'
BY DEF Once

LEMMA OrderedFrom ==
  ASSUME OrderedInv, NEW j \in Job, Elsewhere(j), OpsFrame(j),
         \A i \in Job \ {j} : \A r \in RowsOf[i] : Live(i, r)' \subseteq Live(i, r),
         raced \subseteq raced', unseen \subseteq unseen',
         job' \in [Job -> JobRec], Orderly(j)',
         j \notin raced' => \A r \in RowsOf[j] : <<j, r>> \notin unseen' => Once(j, r)'
  PROVE  OrderInv' /\ OnceInv'
<1>1. ASSUME NEW i \in Job, i # j
      PROVE  Orderly(i)'
  <2>1. Orderly(i)
    BY DEF OrderedInv, OrderInv
  <2>2. i \notin raced' => i \notin raced
    OBVIOUS
  <2>3. (\A k \in DOMAIN ops : ops[k].job # i) => \A k \in DOMAIN ops' : ops'[k].job # i
    BY <1>1 DEF OpsFrame
  <2>4. /\ job'[i] = job[i] /\ row'[i] = row[i] /\ exec'[i] = exec[i]
        /\ resume'[i] = resume[i] /\ app'[i] = app[i]
    BY <1>1 DEF Elsewhere
  <2>5. Fresh(i) => Fresh(i)'
    BY <2>3, <2>4 DEF Fresh
  <2>. QED
    BY <2>1, <2>2, <2>4, <2>5 DEF Orderly
<1>2. ASSUME NEW i \in Job, i # j, i \notin raced', NEW r \in RowsOf[i], <<i, r>> \notin unseen'
      PROVE  Once(i, r)'
  <2>1. RowOnce(i, r, Live(i, r), row[i][r], exec[i], resume[i], app[i])
    BY <1>2, OnceWas
  <2>2. PICK less : less = Live(i, r)'
    OBVIOUS
  <2>3. less \subseteq Live(i, r)
    BY <1>2, <2>2
  <2>4. RowOnce(i, r, less, row[i][r], exec[i], resume[i], app[i])
    BY <2>1, <2>3, FewerLive
  <2>5. /\ row'[i] = row[i] /\ exec'[i] = exec[i] /\ resume'[i] = resume[i] /\ app'[i] = app[i]
    BY <1>2 DEF Elsewhere
  <2>. QED
    BY <2>2, <2>4, <2>5, OnceNow
<1>. QED
  BY <1>1, <1>2 DEF OrderInv, OnceInv

LEMMA LiveKept ==
  ASSUME UNCHANGED ops, NEW j \in Job
  PROVE  OpsFrame(j) /\ \A i, r : Live(i, r)' = Live(i, r)
BY DEF OpsFrame, Live

\* A new operation takes the place of the one that waits.
LEMMA LiveAccepted ==
  ASSUME ImportInv, NEW j \in Job, NEW R \in SUBSET RowsOf[j], Accepted(j, R)
  PROVE  /\ \A k \in DOMAIN ops' :
              \/ k \in DOMAIN ops /\ ops'[k].job = ops[k].job /\ ops'[k].rows = ops[k].rows
              \/ k = Len(ops) + 1 /\ ops'[k].job = j /\ ops'[k].rows = R
         /\ \A i, r : Live(i, r)' \subseteq
              IF i = j /\ r \in R THEN Live(i, r) \cup {Len(ops) + 1} ELSE Live(i, r)
<1>1. ops \in Seq(Operation) /\ Len(ops) \in Nat /\ DOMAIN ops = 1..Len(ops)
  BY DEF ImportInv
<1>2. PICK q : q = [k \in DOMAIN ops |->
                      IF ops[k].state = "pooled" THEN [ops[k] EXCEPT !.state = "dropped"]
                      ELSE ops[k]]
  OBVIOUS
<1>3. PICK o : o = [job |-> j, rows |-> R, state |-> "pooled", indexed |-> FALSE]
  OBVIOUS
<1>4. ops' = Append(q, o)
  BY <1>2, <1>3 DEF Accepted
<1>5. o \in Operation /\ o.job = j /\ o.rows = R
  BY <1>3 DEF Operation
<1>6. ASSUME NEW k \in DOMAIN ops
      PROVE  /\ q[k] \in Operation /\ q[k].job = ops[k].job /\ q[k].rows = ops[k].rows
             /\ q[k].state \in {"pooled", "mined"} => ops[k].state \in {"pooled", "mined"}
  <2>1. ops[k] \in Operation
    BY <1>1
  <2>2. \/ q[k] = ops[k]
        \/ ops[k].state = "pooled" /\ q[k] = [ops[k] EXCEPT !.state = "dropped"]
    BY <1>2
  <2>. QED
    BY <2>1, <2>2 DEF Operation
<1>7. q \in Seq(Operation) /\ Len(q) = Len(ops)
  BY <1>1, <1>2, <1>6
<1>8. /\ DOMAIN ops' = 1..(Len(ops) + 1)
      /\ \A k \in 1..Len(ops) : ops'[k] = q[k]
      /\ ops'[Len(ops) + 1] = o
  BY <1>1, <1>4, <1>5, <1>7
<1>9. ASSUME NEW k \in DOMAIN ops'
      PROVE  \/ k \in DOMAIN ops /\ ops'[k] = q[k]
             \/ k = Len(ops) + 1 /\ ops'[k] = o
  BY <1>1, <1>8
<1>10. ASSUME NEW i, NEW r, NEW k \in Live(i, r)'
       PROVE  k \in IF i = j /\ r \in R THEN Live(i, r) \cup {Len(ops) + 1} ELSE Live(i, r)
  BY <1>5, <1>6, <1>9 DEF Live
<1>11. \A k \in DOMAIN ops' :
              \/ k \in DOMAIN ops /\ ops'[k].job = ops[k].job /\ ops'[k].rows = ops[k].rows
              \/ k = Len(ops) + 1 /\ ops'[k].job = j /\ ops'[k].rows = R
  BY <1>5, <1>6, <1>9
<1>. QED
  BY <1>10, <1>11

-----------------------------------------------------------------------------
(* Upload, approval, cancellation *)

LEMMA JobTyped ==
  ASSUME OrderedInv, NEW j \in Job
  PROVE  /\ job[j] \in JobRec /\ DOMAIN job = Job /\ Orderly(j)
         /\ DOMAIN row = Job /\ DOMAIN exec = Job /\ DOMAIN resume = Job /\ DOMAIN app = Job
         /\ row \in [Job -> UNION {[RowsOf[i] -> RowRecord] : i \in Job}]
         /\ exec \in [Job -> PassState] /\ resume \in [Job -> ResumeState] /\ app \in [Job -> AppState]
         /\ job \in [Job -> JobRec]
         /\ exec[j] \in PassState /\ resume[j] \in ResumeState /\ app[j] \in AppState
BY DEF OrderedInv, OrderInv, ImportInv, RowsOK, PassesOK, ResumesOK, AppsOK

\* Nothing is live for a job that is fresh.
LEMMA FreshIsUnpaid ==
  ASSUME NEW j, NEW r, Fresh(j)
  PROVE  Live(j, r) = {}
BY DEF Fresh, Live

\* A job keeps its record but for its status.
LEMMA StatusTyped ==
  ASSUME OrderedInv, NEW j \in Job, NEW status \in JobStatus,
         job' = [job EXCEPT ![j].status = status]
  PROVE  /\ job' \in [Job -> JobRec] /\ job'[j].status = status
         /\ \A i \in Job \ {j} : job'[i] = job[i]
BY JobTyped DEF JobRec

LEMMA DetectDuplicatesOnce ==
  ASSUME OrderedInv, NEW j \in Job, DetectDuplicates(j)
  PROVE  OrderInv' /\ OnceInv'
<1>1. /\ UNCHANGED exec /\ UNCHANGED resume /\ UNCHANGED app /\ UNCHANGED ops
      /\ UNCHANGED unseen /\ UNCHANGED raced /\ job[j].status = "none"
      /\ job' = [job EXCEPT ![j].status = "deduped", ![j].reading = TRUE]
  BY DEF DetectDuplicates
<1>2. PICK f : /\ row' = [row EXCEPT ![j] = f]
               /\ \A r \in RowsOf[j] : \E d \in BOOLEAN : f[r] = [row[j][r] EXCEPT !.duplicate = d]
  <2>1. PICK registry \in SUBSET ReceiptKeys :
          row' = [row EXCEPT ![j] = [r \in RowsOf[j] |->
                 [row[j][r] EXCEPT !.duplicate =
                    RepeatedInFile(j, r) \/ Content[j][r] \in HistoryKeys \cup registry]]]
    BY DEF DetectDuplicates
  <2>2. PICK f : f = [r \in RowsOf[j] |->
                 [row[j][r] EXCEPT !.duplicate =
                    RepeatedInFile(j, r) \/ Content[j][r] \in HistoryKeys \cup registry]]
    OBVIOUS
  <2>3. ASSUME NEW r \in RowsOf[j]
        PROVE  \E d \in BOOLEAN : f[r] = [row[j][r] EXCEPT !.duplicate = d]
    <3>1. (RepeatedInFile(j, r) \/ Content[j][r] \in HistoryKeys \cup registry) \in BOOLEAN
      OBVIOUS
    <3>. QED
      BY <2>2, <3>1, Zenon
  <2>. QED
    BY <2>1, <2>2, <2>3
<1>3. Fresh(j)
  BY <1>1, JobTyped DEF Orderly
<1>4. row'[j] = f
  BY <1>2, JobTyped
<1>5. ASSUME NEW r \in RowsOf[j]
      PROVE  row'[j][r].status = "absent" /\ row'[j][r].policy = "blocked"
  <2>1. row[j][r] \in RowRecord /\ row[j][r].status = "absent" /\ row[j][r].policy = "blocked"
    BY <1>3, RowTyped DEF OrderedInv, Fresh
  <2>2. PICK d \in BOOLEAN : f[r] = [row[j][r] EXCEPT !.duplicate = d]
    BY <1>2
  <2>. QED
    BY <1>4, <2>1, <2>2 DEF RowRecord
<1>6. Fresh(j)'
  BY <1>1, <1>3, <1>5 DEF Fresh
<1>7. Orderly(j)'
  BY <1>6 DEF Orderly, Fresh
<1>8. job' \in [Job -> JobRec]
  BY <1>1, JobTyped DEF JobRec, JobStatus
<1>9. Elsewhere(j)
  BY <1>1, <1>2, JobTyped DEF Elsewhere
<1>10. ASSUME NEW r \in RowsOf[j]
       PROVE  Once(j, r)'
  <2>1. PICK live, w, x, s, a : live = Live(j, r)' /\ w = row'[j][r] /\ x = exec'[j]
                                /\ s = resume'[j] /\ a = app'[j]
    OBVIOUS
  <2>2. live = {} /\ x.pc = "idle" /\ ~s.on /\ a.pc = "idle"
    BY <1>1, <1>3, <1>6, <2>1, FreshIsUnpaid, LiveKept DEF Fresh
  <2>3. RowOnce(j, r, live, w, x, s, a)
    BY <2>2, AtRest DEF SafeRow
  <2>. QED
    BY <2>1, <2>3, OnceNow
<1>. QED
  BY <1>1, <1>7, <1>8, <1>9, <1>10, LiveKept, OrderedFrom

LEMMA PreviewOnce ==
  ASSUME OrderedInv, NEW j \in Job, Preview(j)
  PROVE  OrderInv' /\ OnceInv'
<1>1. /\ UNCHANGED exec /\ UNCHANGED resume /\ UNCHANGED app /\ UNCHANGED ops
      /\ UNCHANGED unseen /\ UNCHANGED raced /\ job[j].status = "deduped"
      /\ job' = [job EXCEPT ![j].status = "previewed", ![j].reading = FALSE]
      /\ \E f : row' = [row EXCEPT ![j] = f]
  BY DEF Preview, history
<1>2. Fresh(j)
  BY <1>1, JobTyped DEF Orderly
<1>3. job' \in [Job -> JobRec] /\ job'[j].status = "previewed"
  <2>1. PICK g : g = [job[j] EXCEPT !.status = "previewed", !.reading = FALSE]
    OBVIOUS
  <2>2. job[j] \in JobRec /\ job \in [Job -> JobRec]
    BY JobTyped
  <2>3. g \in JobRec /\ g.status = "previewed"
    BY <2>1, <2>2 DEF JobRec, JobStatus
  <2>4. job' = [job EXCEPT ![j] = g]
    BY <1>1, <2>1
  <2>. QED
    BY <2>2, <2>3, <2>4
<1>4. Orderly(j)'
  BY <1>1, <1>2, <1>3 DEF Orderly, Fresh
<1>5. Elsewhere(j)
  BY <1>1, JobTyped DEF Elsewhere
<1>6. ASSUME NEW r \in RowsOf[j]
      PROVE  Once(j, r)'
  <2>1. PICK live, w, x, s, a : live = Live(j, r)' /\ w = row'[j][r] /\ x = exec'[j]
                                /\ s = resume'[j] /\ a = app'[j]
    OBVIOUS
  <2>2. live = {} /\ x.pc = "idle" /\ ~s.on /\ a.pc = "idle"
    BY <1>1, <1>2, <2>1, FreshIsUnpaid, LiveKept DEF Fresh
  <2>3. RowOnce(j, r, live, w, x, s, a)
    BY <2>2, AtRest DEF SafeRow
  <2>. QED
    BY <2>1, <2>3, OnceNow
<1>. QED
  BY <1>1, <1>3, <1>4, <1>5, <1>6, LiveKept, OrderedFrom

\* Only the status of a job changes.
LEMMA StatusOnce ==
  ASSUME OrderedInv, NEW j \in Job, NEW status \in JobStatus \ {"none", "deduped"},
         job' = [job EXCEPT ![j].status = status],
         UNCHANGED row, UNCHANGED exec, UNCHANGED resume, UNCHANGED app, UNCHANGED ops,
         UNCHANGED unseen, UNCHANGED raced
  PROVE  OrderInv' /\ OnceInv'
<1>1. job' \in [Job -> JobRec] /\ job'[j].status = status /\ \A i \in Job \ {j} : job'[i] = job[i]
  BY StatusTyped
<1>2. Orderly(j)' /\ Elsewhere(j)
  BY <1>1, JobTyped DEF Orderly, Elsewhere
<1>3. ASSUME NEW r \in RowsOf[j], j \notin raced', <<j, r>> \notin unseen'
      PROVE  Once(j, r)'
  BY <1>3, OnceWas, OnceNow, LiveKept
<1>. QED
  BY <1>1, <1>2, <1>3, LiveKept, OrderedFrom

LEMMA CancelOnce ==
  ASSUME OrderedInv, NEW j \in Job, Cancel(j)
  PROVE  OrderInv' /\ OnceInv'
<1>1. PICK status : status = "cancelled"
  OBVIOUS
<1>2. status \in JobStatus \ {"none", "deduped"}
  BY <1>1 DEF JobStatus
<1>. QED
  BY <1>1, <1>2, StatusOnce DEF Cancel, history

\* A plan is handed out to an app that rests.
LEMMA PlanGiven ==
  ASSUME OrderedInv, NEW j \in Job, NEW rs, NEW allow, HandOutPlan(j, rs, allow)
  PROVE  /\ \A i \in Job \ {j} : app'[i] = app[i]
         /\ Source[j] = "autopilot" => app'[j] = app[j]
         /\ Source[j] = "user" =>
              \/ app'[j].pc = "idle"
              \/ app'[j].pc = "send" /\ app'[j].plan = Executable(j, rs, allow)
<1>1. CASE Source[j] = "user"
  <2>1. PICK plan : plan = Executable(j, rs, allow)
    OBVIOUS
  <2>2. PICK y : y = IF plan = {} THEN Closed ELSE [Closed EXCEPT !.pc = "send", !.plan = plan]
    OBVIOUS
  <2>3. app' = [app EXCEPT ![j] = y]
    BY <1>1, <2>1, <2>2 DEF HandOutPlan
  <2>4. y.pc = "idle" \/ (y.pc = "send" /\ y.plan = plan)
    BY <2>2 DEF Closed
  <2>5. app'[j] = y /\ \A i \in Job \ {j} : app'[i] = app[i]
    BY <2>3, JobTyped
  <2>. QED
    BY <1>1, <2>1, <2>4, <2>5
<1>2. CASE Source[j] # "user"
  <2>1. UNCHANGED app
    BY <1>2 DEF HandOutPlan
  <2>. QED
    BY <1>2, <2>1
<1>. QED
  BY <1>1, <1>2

LEMMA SourceOf ==
  ASSUME NEW j \in Job
  PROVE  Source[j] = "user" \/ Source[j] = "autopilot"
BY CsvAssumption

\* A row that nobody is at work on, given to an app or not.
LEMMA PlannedRowOnce ==
  ASSUME OrderedInv, UNCHANGED ops, NEW j \in Job, NEW rs, NEW allow, HandOutPlan(j, rs, allow),
         app[j].pc = "idle", exec[j].pc = "idle", UNCHANGED exec, ~resume'[j].on,
         NEW r \in RowsOf[j], row'[j][r] = rs[r], SafeRow(Live(j, r), rs[r]),
         \A k, l \in Live(j, r) : k = l
  PROVE  Once(j, r)'
<1>1. PICK live, w, x, s, a : live = Live(j, r)' /\ w = row'[j][r] /\ x = exec'[j]
                              /\ s = resume'[j] /\ a = app'[j]
  OBVIOUS
<1>2. live = Live(j, r) /\ w = rs[r] /\ x.pc = "idle" /\ ~s.on
  BY <1>1, LiveKept
<1>3. (\A k, l \in live : k = l) /\ SafeRow(live, w)
  BY <1>2
<1>4. \/ a.pc = "idle"
      \/ a.pc = "send" /\ a.plan = Executable(j, rs, allow)
  BY <1>1, PlanGiven, SourceOf
<1>5. a.pc = "send" /\ r \in a.plan => w.status \in {"valid", "failed"} /\ w.policy = "valid"
  BY <1>2, <1>4 DEF Executable
<1>6. RowOnce(j, r, live, w, x, s, a)
  BY <1>2, <1>3, <1>4, <1>5, AppPlansRow
<1>. QED
  BY <1>1, <1>6, OnceNow

\* Removed rows are blocked; the plan is of rows that cannot have been paid.
LEMMA ApproveOnce ==
  ASSUME OrderedInv, NEW j \in Job, NEW removed, NEW allow \in BOOLEAN, Approve(j, removed, allow)
  PROVE  OrderInv' /\ OnceInv'
<1>1. PICK f : f = [r \in RowsOf[j] |->
               IF r \in removed
               THEN [row[j][r] EXCEPT !.status = "blocked", !.policy = "blocked"]
               ELSE row[j][r]]
  OBVIOUS
<1>2. /\ row' = [row EXCEPT ![j] = f] /\ HandOutPlan(j, f, allow)
      /\ UNCHANGED exec /\ UNCHANGED resume /\ UNCHANGED ops /\ UNCHANGED unseen /\ UNCHANGED raced
      /\ job' = [job EXCEPT ![j].status = "executing", ![j].allow = allow]
      /\ Source[j] = "user" => app[j].pc = "idle" /\ ~resume[j].on
  BY <1>1 DEF Approve, history
<1>3. row'[j] = f
  BY <1>2, JobTyped
<1>4. job' \in [Job -> JobRec] /\ job'[j].status = "executing"
  <2>1. PICK g : g = [job[j] EXCEPT !.status = "executing", !.allow = allow]
    OBVIOUS
  <2>2. job[j] \in JobRec /\ job \in [Job -> JobRec]
    BY JobTyped
  <2>3. g \in JobRec /\ g.status = "executing"
    BY <2>1, <2>2 DEF JobRec, JobStatus
  <2>4. job' = [job EXCEPT ![j] = g]
    BY <1>2, <2>1
  <2>. QED
    BY <2>2, <2>3, <2>4
<1>5. Orderly(j)'
  BY <1>2, <1>4, JobTyped, PlanGiven DEF Orderly
<1>6. Elsewhere(j)
  BY <1>2, JobTyped, PlanGiven DEF Elsewhere
<1>7. ASSUME NEW r \in RowsOf[j], j \notin raced', <<j, r>> \notin unseen'
      PROVE  Once(j, r)'
  <2>1. PICK live, w, x, s, a, v : live = Live(j, r) /\ w = row[j][r] /\ x = exec[j]
                                   /\ s = resume[j] /\ a = app[j] /\ v = f[r]
    OBVIOUS
  <2>2. RowOnce(j, r, live, w, x, s, a)
    BY <1>2, <1>7, <2>1, OnceWas
  <2>3. w \in RowRecord
    BY <2>1, RowTyped DEF OrderedInv
  <2>4. v = w \/ v.policy = "blocked"
    BY <1>1, <2>1, <2>3 DEF RowRecord
  <2>5. RowOnce(j, r, live, v, x, s, a)
    BY <2>2, <2>4, BlockRow
  <2>6. CASE Source[j] = "user"
    <3>1. app[j].pc = "idle" /\ exec[j].pc = "idle" /\ ~resume'[j].on
      BY <1>2, <2>6, JobTyped DEF Orderly
    <3>2. SafeRow(live, v) /\ \A k, l \in live : k = l
      BY <2>1, <2>5, <3>1 DEF RowOnce, Waits
    <3>3. row'[j][r] = f[r] /\ SafeRow(Live(j, r), f[r]) /\ \A k, l \in Live(j, r) : k = l
      BY <1>3, <2>1, <3>2
    <3>. QED
      BY <1>2, <3>1, <3>3, PlannedRowOnce
  <2>7. CASE Source[j] = "autopilot"
    <3>1. app'[j] = a
      BY <1>2, <2>1, <2>7, PlanGiven
    <3>. QED
      BY <1>2, <1>3, <2>1, <2>5, <3>1, LiveKept, OnceNow
  <2>. QED
    BY <2>6, <2>7, SourceOf
<1>. QED
  BY <1>2, <1>4, <1>5, <1>6, <1>7, LiveKept, OrderedFrom

-----------------------------------------------------------------------------
(* Rows that are set a status or settled *)

LEMMA StatusOfRows ==
  ASSUME OrderedInv, NEW j \in Job, NEW R, NEW status, row' = WithStatus(j, R, status)
  PROVE  /\ \A i \in Job \ {j} : row'[i] = row[i]
         /\ \A r \in RowsOf[j] :
              /\ row'[j][r].policy = row[j][r].policy /\ row'[j][r].duplicate = row[j][r].duplicate
              /\ row'[j][r].op = row[j][r].op
              /\ r \notin R => row'[j][r] = row[j][r]
              /\ r \in R => row'[j][r].status = status
<1>1. PICK f : f = [r \in RowsOf[j] |->
                      IF r \in R THEN [row[j][r] EXCEPT !.status = status] ELSE row[j][r]]
  OBVIOUS
<1>2. row' = [row EXCEPT ![j] = f]
  BY <1>1 DEF WithStatus
<1>3. row'[j] = f /\ \A i \in Job \ {j} : row'[i] = row[i]
  BY <1>2, JobTyped
<1>4. ASSUME NEW r \in RowsOf[j]
      PROVE  /\ f[r].policy = row[j][r].policy /\ f[r].duplicate = row[j][r].duplicate
             /\ f[r].op = row[j][r].op
             /\ r \notin R => f[r] = row[j][r]
             /\ r \in R => f[r].status = status
  <2>1. row[j][r] \in RowRecord
    BY RowTyped DEF OrderedInv
  <2>2. CASE r \in R
    <3>1. f[r] = [row[j][r] EXCEPT !.status = status]
      BY <1>1, <2>2
    <3>. QED
      BY <2>1, <2>2, <3>1 DEF RowRecord
  <2>3. CASE r \notin R
    BY <1>1, <2>3
  <2>. QED
    BY <2>2, <2>3
<1>. QED
  BY <1>3, <1>4

LEMMA RecordOfRows ==
  ASSUME OrderedInv, NEW j \in Job, NEW R, NEW status, NEW k, row' = Recorded(j, R, status, k)
  PROVE  /\ \A i \in Job \ {j} : row'[i] = row[i]
         /\ \A r \in RowsOf[j] :
              /\ row'[j][r].policy = row[j][r].policy /\ row'[j][r].duplicate = row[j][r].duplicate
              /\ r \notin R => row'[j][r] = row[j][r]
              /\ r \in R => row'[j][r].status = status /\ row'[j][r].op = k
<1>1. PICK f : f = [r \in RowsOf[j] |->
                      IF r \in R THEN [row[j][r] EXCEPT !.status = status, !.op = k] ELSE row[j][r]]
  OBVIOUS
<1>2. row' = [row EXCEPT ![j] = f]
  BY <1>1 DEF Recorded
<1>3. row'[j] = f /\ \A i \in Job \ {j} : row'[i] = row[i]
  BY <1>2, JobTyped
<1>4. ASSUME NEW r \in RowsOf[j]
      PROVE  /\ f[r].policy = row[j][r].policy /\ f[r].duplicate = row[j][r].duplicate
             /\ r \notin R => f[r] = row[j][r]
             /\ r \in R => f[r].status = status /\ f[r].op = k
  <2>1. row[j][r] \in RowRecord
    BY RowTyped DEF OrderedInv
  <2>2. CASE r \in R
    <3>1. f[r] = [row[j][r] EXCEPT !.status = status, !.op = k]
      BY <1>1, <2>2
    <3>. QED
      BY <2>1, <2>2, <3>1 DEF RowRecord
  <2>3. CASE r \notin R
    BY <1>1, <2>3
  <2>. QED
    BY <2>2, <2>3
<1>. QED
  BY <1>3, <1>4

LEMMA FlightOf ==
  ASSUME NEW j, NEW e \in InFlight(j)
  PROVE  e.row \in RowsOf[j] /\ row[j][e.row].status = "executing" /\ e.op = row[j][e.row].op
BY DEF InFlight

\* A snapshot is taken, and what has no hash is settled at once.
LEMMA SnapshotRow ==
  ASSUME OrderedInv, NEW j \in Job, row' = SettledAtOnce(j), NEW r \in RowsOf[j],
         SafeRow(Live(j, r), row[j][r])
  PROVE  /\ SafeRow(Live(j, r), row'[j][r])
         /\ SnapOK(r, Live(j, r), row'[j][r], InFlight(j) \ AtOnce(j))
<1>1. PICK R, live, w, v, flight : /\ R = {e.row : e \in AtOnce(j)} /\ live = Live(j, r)
                                   /\ w = row[j][r] /\ v = row'[j][r] /\ flight = InFlight(j)
  OBVIOUS
<1>2. row' = WithStatus(j, R, "valid")
  BY <1>1 DEF SettledAtOnce
<1>3. /\ v.policy = w.policy
      /\ r \notin R => v = w
      /\ r \in R => v.status = "valid"
  BY <1>1, <1>2, StatusOfRows
<1>4. \A e \in flight : e.row = r => w.status = "executing" /\ e.op = w.op
  BY <1>1, FlightOf
<1>5. SnapOK(r, live, w, flight)
  BY <1>1, <1>4, SnapTaken
<1>6. SafeRow(live, v)
  <2>1. CASE r \in R
    <3>1. PICK e \in AtOnce(j) : e.row = r
      BY <1>1, <2>1
    <3>2. e \in flight /\ e.op = NoOp
      <4>1. e \in flight /\ \A f \in flight : f.row <= e.row => f.op = NoOp
        BY <1>1, <3>1 DEF AtOnce
      <4>2. e.row <= e.row
        BY <3>1, CsvAssumption
      <4>. QED
        BY <4>1, <4>2
    <3>3. live \subseteq {e.op} \ {NoOp} \/ w.policy = "blocked"
      BY <1>5, <3>1, <3>2 DEF SnapOK
    <3>4. v.policy = w.policy /\ v.status = "valid"
      BY <1>3, <2>1
    <3>5. SafeRow(live, w)
      BY <1>1
    <3>. QED
      BY <3>1, <3>2, <3>3, <3>4, <3>5, SettledSafe
  <2>2. CASE r \notin R
    BY <1>1, <1>3, <2>2
  <2>. QED
    BY <2>1, <2>2
<1>7. SnapOK(r, live, v, flight \ AtOnce(j))
  <2>1. v.policy = w.policy
    BY <1>3
  <2>2. PICK less : less = flight \ AtOnce(j)
    OBVIOUS
  <2>3. less \subseteq flight
    BY <2>2
  <2>. QED
    BY <1>5, <2>1, <2>2, <2>3, SnapKept
<1>. QED
  BY <1>1, <1>6, <1>7

LEMMA SettleRow ==
  ASSUME OrderedInv, UNCHANGED ops, NEW j \in Job, NEW todo \in SUBSET Snapshot, todo # {},
         Settle(j, First(todo))
  PROVE  /\ \A i \in Job \ {j} : row'[i] = row[i]
         /\ \A r \in RowsOf[j] :
              /\ row'[j][r].policy = row[j][r].policy /\ row'[j][r].duplicate = row[j][r].duplicate
              /\ SafeRow(Live(j, r), row[j][r]) /\ SnapOK(r, Live(j, r), row[j][r], todo)
                   => SafeRow(Live(j, r), row'[j][r])
<1>1. PICK e : e = First(todo)
  OBVIOUS
<1>2. e \in todo /\ Settle(j, e)
  BY <1>1, FirstIsIn
<1>3. CASE UNCHANGED row
  BY <1>3
<1>4. ASSUME NEW status, NEW R, R = {e.row}, row' = WithStatus(j, R, status),
             \/ status = "confirmed"
             \/ status = "valid" /\ e.op = NoOp
             \/ status = "failed" /\ ops[e.op].state = "reverted"
      PROVE  /\ \A i \in Job \ {j} : row'[i] = row[i]
             /\ \A r \in RowsOf[j] :
                  /\ row'[j][r].policy = row[j][r].policy /\ row'[j][r].duplicate = row[j][r].duplicate
                  /\ SafeRow(Live(j, r), row[j][r]) /\ SnapOK(r, Live(j, r), row[j][r], todo)
                       => SafeRow(Live(j, r), row'[j][r])
  <2>1. /\ \A i \in Job \ {j} : row'[i] = row[i]
        /\ \A r \in RowsOf[j] :
              /\ row'[j][r].policy = row[j][r].policy /\ row'[j][r].duplicate = row[j][r].duplicate
              /\ r \notin R => row'[j][r] = row[j][r]
              /\ r \in R => row'[j][r].status = status
    <3>1. row' = WithStatus(j, R, status)
      BY <1>4
    <3>. QED
      BY <3>1, StatusOfRows
  <2>2. ASSUME NEW r \in RowsOf[j],
               SafeRow(Live(j, r), row[j][r]), SnapOK(r, Live(j, r), row[j][r], todo)
        PROVE  SafeRow(Live(j, r), row'[j][r])
    <3>1. PICK live, w, v : live = Live(j, r) /\ w = row[j][r] /\ v = row'[j][r]
      OBVIOUS
    <3>2. CASE r \in R
      <4>1. e.row = r /\ v.status = status /\ v.policy = w.policy
        BY <1>4, <2>1, <3>1, <3>2
      <4>2. live \subseteq {e.op} \ {NoOp} \/ w.policy = "blocked"
        BY <1>2, <2>2, <3>1, <4>1 DEF SnapOK
      <4>3. status = "failed" => e.op \notin live
        BY <1>4, <3>1 DEF Live
      <4>4. /\ \/ v.status = "confirmed"
               \/ v.status = "valid" /\ e.op = NoOp
               \/ v.status = "failed" /\ e.op \notin live
            /\ SafeRow(live, w)
        BY <1>4, <2>2, <3>1, <4>1, <4>3
      <4>5. SafeRow(live, v)
        BY <4>1, <4>2, <4>4, SettledSafe
      <4>. QED
        BY <3>1, <4>5
    <3>3. CASE r \notin R
      BY <2>1, <2>2, <3>3
    <3>. QED
      BY <3>2, <3>3
  <2>. QED
    BY <2>1, <2>2
<1>5. \/ UNCHANGED row
      \/ \E status, R : /\ R = {e.row} /\ row' = WithStatus(j, R, status)
                        /\ \/ status = "confirmed"
                           \/ status = "valid" /\ e.op = NoOp
                           \/ status = "failed" /\ ops[e.op].state = "reverted"
  BY <1>2 DEF Settle
<1>. QED
  BY <1>3, <1>4, <1>5

-----------------------------------------------------------------------------
(* Resumes *)

\* A resume ends: the job executes again and its app has a plan.
LEMMA ResumeDoneFrame ==
  ASSUME OrderedInv, NEW j \in Job, NEW rs, ResumeDone(j, rs)
  PROVE  /\ job' \in [Job -> JobRec] /\ job'[j].status = "executing"
         /\ resume'[j] = NotResuming /\ ~resume'[j].on
         /\ HandOutPlan(j, rs, job[j].allow)
         /\ \A i \in Job \ {j} :
              job'[i] = job[i] /\ resume'[i] = resume[i] /\ app'[i] = app[i]
<1>1. PICK status, allow : status = "executing" /\ allow = job[j].allow
  OBVIOUS
<1>2. /\ job' = [job EXCEPT ![j].status = status] /\ resume' = [resume EXCEPT ![j] = NotResuming]
      /\ HandOutPlan(j, rs, allow)
  BY <1>1 DEF ResumeDone
<1>3. status \in JobStatus
  BY <1>1 DEF JobStatus
<1>4. job' \in [Job -> JobRec] /\ job'[j].status = status /\ \A i \in Job \ {j} : job'[i] = job[i]
  BY <1>2, <1>3, StatusTyped
<1>5. resume'[j] = NotResuming /\ \A i \in Job \ {j} : resume'[i] = resume[i]
  BY <1>2, JobTyped
<1>6. \A i \in Job \ {j} : app'[i] = app[i]
  BY <1>2, PlanGiven
<1>. QED
  BY <1>1, <1>2, <1>4, <1>5, <1>6 DEF NotResuming

LEMMA StartResumeOnce ==
  ASSUME OrderedInv, NEW j \in Job, StartResume(j)
  PROVE  OrderInv' /\ OnceInv'
<1>1. PICK rs, todo, allow : /\ rs = SettledAtOnce(j)[j] /\ todo = InFlight(j) \ AtOnce(j)
                             /\ allow = job[j].allow
  OBVIOUS
<1>2. /\ UNCHANGED exec /\ UNCHANGED ops /\ UNCHANGED unseen /\ row' = SettledAtOnce(j)
      /\ job[j].status \notin {"none", "completed", "cancelled"} /\ ~resume[j].on
      /\ Source[j] = "user" => app[j].pc = "idle"
      /\ raced' = IF exec[j].pc # "idle" THEN raced \cup {j} ELSE raced
      /\ \/ ResumeDone(j, rs)
         \/ /\ resume' = [resume EXCEPT ![j] = [on |-> TRUE, todo |-> todo]]
            /\ UNCHANGED <<job, app>>
            /\ todo # {}
  BY <1>1 DEF StartResume
<1>3. app[j].pc = "idle"
  BY <1>2, JobTyped, SourceOf DEF Orderly
<1>4. PICK R : R = {e.row : e \in AtOnce(j)}
  OBVIOUS
<1>5. row' = WithStatus(j, R, "valid")
  BY <1>2, <1>4 DEF SettledAtOnce
<1>6. row'[j] = rs
  BY <1>1, <1>2
<1>7. Elsewhere(j)
  <2>1. \A i \in Job \ {j} : row'[i] = row[i]
    BY <1>5, StatusOfRows
  <2>2. \A i \in Job \ {j} : job'[i] = job[i] /\ resume'[i] = resume[i] /\ app'[i] = app[i]
    BY <1>2, ResumeDoneFrame, JobTyped
  <2>. QED
    BY <1>2, <2>1, <2>2 DEF Elsewhere
<1>8. ASSUME NEW r \in RowsOf[j], j \notin raced', <<j, r>> \notin unseen'
      PROVE  /\ exec[j].pc = "idle"
             /\ SafeRow(Live(j, r), row'[j][r]) /\ \A k, l \in Live(j, r) : k = l
             /\ SnapOK(r, Live(j, r), row'[j][r], todo)
  <2>1. j \notin raced /\ exec[j].pc = "idle"
    BY <1>2, <1>8
  <2>2. RowOnce(j, r, Live(j, r), row[j][r], exec[j], resume[j], app[j])
    BY <1>2, <1>8, <2>1, OnceWas
  <2>3. SafeRow(Live(j, r), row[j][r]) /\ \A k, l \in Live(j, r) : k = l
    BY <1>3, <2>1, <2>2 DEF RowOnce, Waits
  <2>. QED
    BY <1>1, <1>2, <2>1, <2>3, SnapshotRow
<1>9. CASE ResumeDone(j, rs)
  <2>1. /\ job' \in [Job -> JobRec] /\ job'[j].status = "executing" /\ ~resume'[j].on
        /\ HandOutPlan(j, rs, allow)
    BY <1>1, <1>9, ResumeDoneFrame
  <2>2. Orderly(j)'
    BY <1>2, <2>1, JobTyped, PlanGiven DEF Orderly
  <2>3. ASSUME NEW r \in RowsOf[j], j \notin raced', <<j, r>> \notin unseen'
        PROVE  Once(j, r)'
    BY <1>2, <1>3, <1>6, <1>8, <2>1, <2>3, PlannedRowOnce
  <2>. QED
    BY <1>2, <1>7, <2>1, <2>2, <2>3, LiveKept, OrderedFrom
<1>10. CASE /\ resume' = [resume EXCEPT ![j] = [on |-> TRUE, todo |-> todo]]
            /\ UNCHANGED <<job, app>>
            /\ todo # {}
  <2>1. resume'[j] = [on |-> TRUE, todo |-> todo] /\ job' \in [Job -> JobRec]
    BY <1>10, JobTyped
  <2>2. job[j].status # "deduped"
    <3>1. ASSUME Fresh(j) PROVE FALSE
      <4>1. PICK e : e \in todo
        BY <1>10
      <4>2. e \in InFlight(j)
        BY <1>1, <4>1
      <4>3. e.row \in RowsOf[j] /\ row[j][e.row].status = "executing"
        BY <4>2, FlightOf
      <4>. QED
        BY <3>1, <4>3 DEF Fresh
    <3>. QED
      BY <3>1, JobTyped DEF Orderly
  <2>3. Orderly(j)'
    BY <1>2, <1>3, <1>10, <2>1, <2>2, JobTyped DEF Orderly
  <2>4. ASSUME NEW r \in RowsOf[j], j \notin raced', <<j, r>> \notin unseen'
        PROVE  Once(j, r)'
    <3>1. PICK live, w, x, s, a : live = Live(j, r)' /\ w = row'[j][r] /\ x = exec'[j]
                                  /\ s = resume'[j] /\ a = app'[j]
      OBVIOUS
    <3>2. live = Live(j, r) /\ x.pc = "idle" /\ a.pc = "idle" /\ s.on /\ s.todo = todo
      BY <1>2, <1>3, <1>8, <1>10, <2>1, <2>4, <3>1, LiveKept
    <3>3. SafeRow(live, w) /\ SnapOK(r, live, w, s.todo) /\ \A k, l \in live : k = l
      BY <1>8, <2>4, <3>1, <3>2
    <3>4. RowOnce(j, r, live, w, x, s, a)
      BY <3>2, <3>3 DEF RowOnce, OnceInPass, OnceInApp
    <3>. QED
      BY <3>1, <3>4, OnceNow
  <2>. QED
    BY <1>2, <1>7, <2>1, <2>3, <2>4, LiveKept, OrderedFrom
<1>. QED
  BY <1>2, <1>9, <1>10

LEMMA ResumeSettlesOnce ==
  ASSUME OrderedInv, NEW j \in Job, ResumeSettles(j)
  PROVE  OrderInv' /\ OnceInv'
<1>1. PICK y, todo, e, t : /\ y = resume[j] /\ todo = y.todo /\ e = First(todo)
                           /\ t = [y EXCEPT !.todo = @ \ {e}]
  OBVIOUS
<1>2. /\ UNCHANGED exec /\ UNCHANGED app /\ UNCHANGED ops /\ UNCHANGED job
      /\ UNCHANGED unseen /\ UNCHANGED raced
      /\ y.on /\ todo # {} /\ Settle(j, First(todo))
      /\ resume' = [resume EXCEPT ![j] = t]
  BY <1>1 DEF ResumeSettles, history
<1>3. y \in ResumeState /\ todo \in SUBSET Snapshot
  BY <1>1, JobTyped DEF ResumeState
<1>4. t.on = y.on /\ t.todo \subseteq y.todo
  BY <1>1, <1>3 DEF ResumeState
<1>5. resume'[j] = t /\ \A i \in Job \ {j} : resume'[i] = resume[i]
  BY <1>2, JobTyped
<1>6. /\ \A i \in Job \ {j} : row'[i] = row[i]
      /\ \A r \in RowsOf[j] :
              /\ row'[j][r].policy = row[j][r].policy
              /\ SafeRow(Live(j, r), row[j][r]) /\ SnapOK(r, Live(j, r), row[j][r], todo)
                   => SafeRow(Live(j, r), row'[j][r])
  BY <1>2, <1>3, SettleRow
<1>7. Elsewhere(j)
  BY <1>2, <1>5, <1>6 DEF Elsewhere
<1>8. job[j].status \notin {"none", "deduped"} /\ app[j].pc = "idle"
  BY <1>1, <1>2, JobTyped, SourceOf DEF Orderly, Fresh
<1>9. Orderly(j)'
  BY <1>1, <1>2, <1>4, <1>5, <1>8, JobTyped DEF Orderly
<1>10. ASSUME NEW r \in RowsOf[j], j \notin raced', <<j, r>> \notin unseen'
       PROVE  Once(j, r)'
  <2>1. PICK live, w, x, a, v : live = Live(j, r) /\ w = row[j][r] /\ x = exec[j]
                                /\ a = app[j] /\ v = row'[j][r]
    OBVIOUS
  <2>2. RowOnce(j, r, live, w, x, y, a)
    BY <1>1, <1>2, <1>10, <2>1, OnceWas
  <2>3. x.pc = "idle" /\ a.pc = "idle"
    BY <1>1, <1>2, <1>8, <1>10, <2>1, JobTyped DEF Orderly
  <2>4. SafeRow(live, w) /\ SnapOK(r, live, w, todo)
    BY <1>1, <1>2, <2>2, <2>3 DEF RowOnce, Waits
  <2>5. SafeRow(live, v) /\ v.policy = w.policy
    BY <1>6, <2>1, <2>4
  <2>6. RowOnce(j, r, live, v, x, t, a)
    BY <1>2, <1>4, <2>2, <2>3, <2>5, ResumeSettlesRow
  <2>. QED
    BY <1>2, <1>5, <2>1, <2>6, LiveKept, OnceNow
<1>. QED
  BY <1>2, <1>7, <1>9, <1>10, LiveKept, JobTyped, OrderedFrom

LEMMA FinishResumeOnce ==
  ASSUME OrderedInv, NEW j \in Job, FinishResume(j)
  PROVE  OrderInv' /\ OnceInv'
<1>1. PICK rs, allow : rs = row[j] /\ allow = job[j].allow
  OBVIOUS
<1>2. /\ UNCHANGED row /\ UNCHANGED exec /\ UNCHANGED ops /\ UNCHANGED unseen /\ UNCHANGED raced
      /\ resume[j].on /\ ResumeDone(j, rs)
  BY <1>1 DEF FinishResume, history
<1>3. app[j].pc = "idle"
  BY <1>2, JobTyped, SourceOf DEF Orderly
<1>4. /\ job' \in [Job -> JobRec] /\ job'[j].status = "executing" /\ ~resume'[j].on
      /\ HandOutPlan(j, rs, allow)
  BY <1>1, <1>2, ResumeDoneFrame
<1>5. Orderly(j)'
  BY <1>2, <1>4, JobTyped, PlanGiven DEF Orderly
<1>6. Elsewhere(j)
  BY <1>2, ResumeDoneFrame DEF Elsewhere
<1>7. ASSUME NEW r \in RowsOf[j], j \notin raced', <<j, r>> \notin unseen'
      PROVE  Once(j, r)'
  <2>1. RowOnce(j, r, Live(j, r), row[j][r], exec[j], resume[j], app[j])
    BY <1>2, <1>7, OnceWas
  <2>2. exec[j].pc = "idle"
    BY <1>2, <1>7, JobTyped DEF Orderly
  <2>3. SafeRow(Live(j, r), rs[r]) /\ \A k, l \in Live(j, r) : k = l
    BY <1>1, <1>3, <2>1, <2>2 DEF RowOnce, Waits
  <2>. QED
    BY <1>1, <1>2, <1>3, <1>4, <2>2, <2>3, PlannedRowOnce
<1>. QED
  BY <1>2, <1>4, <1>5, <1>6, <1>7, LiveKept, OrderedFrom

-----------------------------------------------------------------------------
(* The executor's pass *)

\* A pass at work: its job has been read, is not the app's, and unless it was
\* raced no resume runs beside the pass.
LEMMA PassAtWork ==
  ASSUME OrderedInv, NEW j \in Job, exec[j].pc # "idle"
  PROVE  /\ Source[j] = "autopilot" /\ app[j].pc = "idle"
         /\ job[j].status \notin {"none", "deduped"}
         /\ j \notin raced => ~resume[j].on
BY JobTyped, SourceOf DEF Orderly, Fresh

\* What a pass at work becomes keeps its rows paid once.
RowsGoOn(j, y) ==
  \A r \in RowsOf[j] :
    /\ j \notin raced /\ <<j, r>> \notin unseen' /\ ~resume[j].on /\ app[j].pc = "idle"
    /\ RowOnce(j, r, Live(j, r), row[j][r], exec[j], resume[j], app[j])
    => RowOnce(j, r, Live(j, r)', row'[j][r], y, resume[j], app[j])

OthersShrink(j) == \A i \in Job \ {j} : \A r : Live(i, r)' \subseteq Live(i, r)

LEMMA PassOnce ==
  ASSUME OrderedInv, NEW j \in Job, NEW y, exec[j].pc # "idle", exec' = [exec EXCEPT ![j] = y],
         UNCHANGED resume, UNCHANGED app, UNCHANGED raced, unseen \subseteq unseen',
         job' \in [Job -> JobRec], job'[j].status \notin {"none", "deduped"},
         \A i \in Job \ {j} : job'[i] = job[i] /\ row'[i] = row[i],
         OpsFrame(j), OthersShrink(j), RowsGoOn(j, y)
  PROVE  OrderInv' /\ OnceInv'
<1>1. exec'[j] = y /\ \A i \in Job \ {j} : exec'[i] = exec[i]
  BY JobTyped
<1>2. Elsewhere(j)
  BY <1>1 DEF Elsewhere
<1>3. Orderly(j)'
  BY <1>1, PassAtWork DEF Orderly
<1>4. ASSUME NEW r \in RowsOf[j], j \notin raced', <<j, r>> \notin unseen'
      PROVE  Once(j, r)'
  <2>1. PICK live, w : live = Live(j, r)' /\ w = row'[j][r]
    OBVIOUS
  <2>2. RowOnce(j, r, Live(j, r), row[j][r], exec[j], resume[j], app[j])
    BY <1>4, OnceWas
  <2>3. RowOnce(j, r, live, w, y, resume[j], app[j])
    BY <1>4, <2>1, <2>2, PassAtWork DEF RowsGoOn
  <2>. QED
    BY <1>1, <2>1, <2>3, OnceNow
<1>. QED
  BY <1>2, <1>3, <1>4, OrderedFrom DEF OthersShrink

\* Steps that send nothing.
LEMMA QuietPassOnce ==
  ASSUME OrderedInv, NEW j \in Job, NEW y, exec[j].pc # "idle", exec' = [exec EXCEPT ![j] = y],
         UNCHANGED resume, UNCHANGED app, UNCHANGED raced, UNCHANGED ops, unseen \subseteq unseen',
         job' \in [Job -> JobRec], job'[j].status \notin {"none", "deduped"},
         \A i \in Job \ {j} : job'[i] = job[i] /\ row'[i] = row[i],
         RowsGoOn(j, y)
  PROVE  OrderInv' /\ OnceInv'
<1>1. OpsFrame(j) /\ OthersShrink(j)
  BY LiveKept DEF OthersShrink
<1>. QED
  BY <1>1, PassOnce

LEMMA BeginJobOnce ==
  ASSUME OrderedInv, NEW j \in Job, BeginJob(j)
  PROVE  OrderInv' /\ OnceInv'
<1>1. PICK y, todo, R : /\ todo = InFlight(j) \ AtOnce(j) /\ R = {e.row : e \in AtOnce(j)}
                        /\ y = [Resting EXCEPT !.pc = "reconcile", !.todo = todo]
  OBVIOUS
<1>2. /\ UNCHANGED resume /\ UNCHANGED app /\ UNCHANGED ops /\ UNCHANGED job /\ UNCHANGED unseen
      /\ Source[j] = "autopilot" /\ job[j].status = "executing" /\ exec[j].pc = "idle"
      /\ row' = SettledAtOnce(j) /\ exec' = [exec EXCEPT ![j] = y]
      /\ raced' = IF resume[j].on THEN raced \cup {j} ELSE raced
  BY <1>1 DEF BeginJob
<1>3. row' = WithStatus(j, R, "valid")
  BY <1>1, <1>2 DEF SettledAtOnce
<1>4. y.pc = "reconcile" /\ y.todo = todo /\ y.sel = {}
  BY <1>1 DEF Resting
<1>5. exec'[j] = y /\ \A i \in Job \ {j} : exec'[i] = exec[i]
  BY <1>2, JobTyped
<1>6. Elsewhere(j)
  <2>1. \A i \in Job \ {j} : row'[i] = row[i]
    BY <1>3, StatusOfRows
  <2>. QED
    BY <1>2, <1>5, <2>1 DEF Elsewhere
<1>7. app[j].pc = "idle"
  BY <1>2, JobTyped DEF Orderly
<1>8. Orderly(j)'
  BY <1>2, <1>5, <1>7 DEF Orderly
<1>9. ASSUME NEW r \in RowsOf[j], j \notin raced', <<j, r>> \notin unseen'
      PROVE  Once(j, r)'
  <2>1. PICK live, w, x, s, a : live = Live(j, r) /\ w = row'[j][r] /\ x = exec[j]
                                /\ s = resume[j] /\ a = app[j]
    OBVIOUS
  <2>2. j \notin raced /\ ~s.on
    BY <1>2, <1>9, <2>1
  <2>3. RowOnce(j, r, live, row[j][r], x, s, a)
    BY <1>2, <1>9, <2>1, <2>2, OnceWas
  <2>4. SafeRow(live, row[j][r]) /\ \A k, l \in live : k = l
    BY <1>2, <1>7, <2>1, <2>3 DEF RowOnce, Waits
  <2>5. SafeRow(live, w) /\ SnapOK(r, live, w, todo)
    BY <1>1, <1>2, <2>1, <2>4, SnapshotRow
  <2>6. RowOnce(j, r, live, w, y, s, a)
    BY <1>4, <1>7, <2>1, <2>2, <2>4, <2>5 DEF RowOnce, OnceInPass, OnceInApp
  <2>. QED
    BY <1>2, <1>5, <2>1, <2>6, LiveKept, OnceNow
<1>. QED
  BY <1>2, <1>6, <1>8, <1>9, LiveKept, JobTyped, OrderedFrom

LEMMA ExecutorSettlesOnce ==
  ASSUME OrderedInv, NEW j \in Job, ExecutorSettles(j)
  PROVE  OrderInv' /\ OnceInv'
<1>1. PICK x, todo, e, y : /\ x = exec[j] /\ todo = x.todo /\ e = First(todo)
                           /\ y = IF todo = {} THEN [x EXCEPT !.pc = "policy"]
                                  ELSE [x EXCEPT !.todo = @ \ {e}]
  OBVIOUS
<1>2. /\ UNCHANGED job /\ UNCHANGED resume /\ UNCHANGED app /\ UNCHANGED ops
      /\ UNCHANGED unseen /\ UNCHANGED raced /\ x.pc = "reconcile"
      /\ \/ todo = {} /\ UNCHANGED row
         \/ todo # {} /\ Settle(j, First(todo))
      /\ exec' = [exec EXCEPT ![j] = y]
  BY <1>1 DEF ExecutorSettles, history
<1>3. x \in PassState /\ todo \in SUBSET Snapshot
  BY <1>1, JobTyped DEF PassState
<1>4. (y.pc = "reconcile" \/ y.pc = "policy") /\ y.todo \subseteq x.todo
  BY <1>1, <1>2, <1>3 DEF PassState
<1>5. /\ \A i \in Job \ {j} : row'[i] = row[i]
      /\ \A r \in RowsOf[j] :
              /\ row'[j][r].policy = row[j][r].policy
              /\ SafeRow(Live(j, r), row[j][r]) /\ SnapOK(r, Live(j, r), row[j][r], todo)
                   => SafeRow(Live(j, r), row'[j][r])
  <2>1. CASE UNCHANGED row
    BY <2>1
  <2>2. CASE todo # {} /\ Settle(j, First(todo))
    BY <1>2, <1>3, <2>2, SettleRow
  <2>. QED
    BY <1>2, <2>1, <2>2
<1>6. ASSUME NEW r \in RowsOf[j], ~resume[j].on, app[j].pc = "idle",
             RowOnce(j, r, Live(j, r), row[j][r], exec[j], resume[j], app[j])
      PROVE  RowOnce(j, r, Live(j, r)', row'[j][r], y, resume[j], app[j])
  <2>1. PICK live, w, s, a, v : live = Live(j, r) /\ w = row[j][r]
                                /\ s = resume[j] /\ a = app[j] /\ v = row'[j][r]
    OBVIOUS
  <2>2. RowOnce(j, r, live, w, x, s, a) /\ ~s.on /\ a.pc = "idle"
    BY <1>1, <1>6, <2>1
  <2>3. SafeRow(live, w) /\ SnapOK(r, live, w, todo)
    BY <1>1, <1>2, <2>2 DEF RowOnce, Waits, OnceInPass
  <2>4. SafeRow(live, v) /\ v.policy = w.policy
    BY <1>5, <2>1, <2>3
  <2>5. RowOnce(j, r, live, v, y, s, a)
    BY <1>2, <1>4, <2>2, <2>4, PassSettlesRow
  <2>. QED
    BY <1>2, <2>1, <2>5, LiveKept
<1>7. exec[j].pc # "idle"
  BY <1>1, <1>2
<1>. QED
  <2>1. RowsGoOn(j, y)
    BY <1>6 DEF RowsGoOn
  <2>2. /\ job' \in [Job -> JobRec] /\ job'[j].status \notin {"none", "deduped"}
        /\ \A i \in Job \ {j} : job'[i] = job[i] /\ row'[i] = row[i]
    BY <1>2, <1>5, <1>7, PassAtWork, JobTyped
  <2>. QED
    BY <1>2, <1>7, <2>1, <2>2, QuietPassOnce

LEMMA CheckPolicyOnce ==
  ASSUME OrderedInv, NEW j \in Job, CheckPolicy(j)
  PROVE  OrderInv' /\ OnceInv'
<1>1. PICK x : x = exec[j]
  OBVIOUS
<1>2. /\ UNCHANGED row /\ UNCHANGED resume /\ UNCHANGED app /\ UNCHANGED ops
      /\ UNCHANGED unseen /\ UNCHANGED raced /\ x.pc = "policy"
  BY <1>1 DEF CheckPolicy, history
<1>3. exec[j].pc # "idle"
  BY <1>1, <1>2
<1>4. CASE /\ exec' = [exec EXCEPT ![j] = Resting]
           /\ job' = [job EXCEPT ![j].status = "failed"] \/ UNCHANGED job
  <2>1. PICK y, status : y = Resting /\ status = "failed"
    OBVIOUS
  <2>2. y.pc = "idle" /\ exec' = [exec EXCEPT ![j] = y]
    BY <1>4, <2>1 DEF Resting
  <2>3. /\ job' \in [Job -> JobRec] /\ job'[j].status \notin {"none", "deduped"}
        /\ \A i \in Job \ {j} : job'[i] = job[i]
    <3>1. CASE UNCHANGED job
      BY <1>3, <3>1, PassAtWork, JobTyped
    <3>2. CASE job' = [job EXCEPT ![j].status = status]
      <4>1. status \in JobStatus
        BY <2>1 DEF JobStatus
      <4>. QED
        BY <2>1, <3>2, <4>1, StatusTyped
    <3>. QED
      BY <1>4, <2>1, <3>1, <3>2
  <2>4. ASSUME NEW r \in RowsOf[j], ~resume[j].on, app[j].pc = "idle",
               RowOnce(j, r, Live(j, r), row[j][r], exec[j], resume[j], app[j])
        PROVE  RowOnce(j, r, Live(j, r)', row'[j][r], y, resume[j], app[j])
    <3>1. PICK live, w, s, a : live = Live(j, r) /\ w = row[j][r] /\ s = resume[j] /\ a = app[j]
      OBVIOUS
    <3>2. RowOnce(j, r, live, w, x, s, a) /\ ~s.on /\ a.pc = "idle"
      BY <1>1, <2>4, <3>1
    <3>3. SafeRow(live, w) /\ \A k, l \in live : k = l
      BY <1>2, <3>2 DEF RowOnce, Waits
    <3>4. RowOnce(j, r, live, w, y, s, a)
      BY <2>2, <3>2, <3>3, AtRest
    <3>. QED
      BY <1>2, <3>1, <3>4, LiveKept
  <2>5. RowsGoOn(j, y)
    BY <2>4 DEF RowsGoOn
  <2>. QED
    BY <1>2, <1>3, <2>2, <2>3, <2>5, QuietPassOnce
<1>5. CASE SelectRows(j)
  <2>1. PICK sel, y : /\ sel = Executable(j, row[j], job[j].allow)
                      /\ y = [x EXCEPT !.pc = "pay", !.sel = sel]
    OBVIOUS
  <2>2. x \in PassState
    BY <1>1, JobTyped
  <2>3. y.pc = "pay" /\ y.sel = sel
    BY <2>1, <2>2 DEF PassState
  <2>4. exec' = [exec EXCEPT ![j] = y] /\ UNCHANGED job
    BY <1>1, <1>5, <2>1 DEF SelectRows
  <2>5. ASSUME NEW r \in RowsOf[j], ~resume[j].on, app[j].pc = "idle",
               RowOnce(j, r, Live(j, r), row[j][r], exec[j], resume[j], app[j])
        PROVE  RowOnce(j, r, Live(j, r)', row'[j][r], y, resume[j], app[j])
    <3>1. PICK live, w, s, a : live = Live(j, r) /\ w = row[j][r] /\ s = resume[j] /\ a = app[j]
      OBVIOUS
    <3>2. RowOnce(j, r, live, w, x, s, a) /\ ~s.on /\ a.pc = "idle"
      BY <1>1, <2>5, <3>1
    <3>3. r \in y.sel => w.status \in {"valid", "failed"} /\ w.policy = "valid"
      BY <2>1, <2>3, <3>1 DEF Executable
    <3>4. RowOnce(j, r, live, w, y, s, a)
      BY <1>2, <2>3, <3>2, <3>3, PassSelectsRow
    <3>. QED
      BY <1>2, <3>1, <3>4, LiveKept
  <2>6. RowsGoOn(j, y)
    BY <2>5 DEF RowsGoOn
  <2>7. job' \in [Job -> JobRec] /\ job'[j].status \notin {"none", "deduped"}
    BY <1>3, <2>4, PassAtWork, JobTyped
  <2>. QED
    BY <1>2, <1>3, <2>4, <2>6, <2>7, QuietPassOnce
<1>. QED
  BY <1>4, <1>5 DEF CheckPolicy, PolicyLost, PolicyUnread

\* The next row: what the pass and the current row become.
LEMMA NextRowFrame ==
  ASSUME OrderedInv, NEW j \in Job, NextRow(j)
  PROVE  \E y : /\ exec' = [exec EXCEPT ![j] = y]
                /\ y.pc = "pay" /\ y.sel = exec[j].sel \ {Least(exec[j].sel)}
<1>1. PICK x, y : x = exec[j] /\ y = [x EXCEPT !.pc = "pay", !.op = NoOp, !.sel = @ \ {Current(j)}]
  OBVIOUS
<1>2. x \in PassState
  BY <1>1, JobTyped
<1>3. exec' = [exec EXCEPT ![j] = y]
  BY <1>1 DEF NextRow
<1>4. y.pc = "pay" /\ y.sel = x.sel \ {Current(j)}
  BY <1>1, <1>2 DEF PassState
<1>. QED
  BY <1>1, <1>3, <1>4 DEF Current

LEMMA CurrentIsSelected ==
  ASSUME OrderedInv, NEW j \in Job,
         exec[j].pc \in {"send", "wait"} \/ (exec[j].pc = "pay" /\ exec[j].sel # {})
  PROVE  Current(j) \in exec[j].sel /\ Current(j) \in RowsOf[j]
<1>1. PassOK(j, exec[j])
  BY PassTyped DEF OrderedInv
<1>2. exec[j].sel \in SUBSET RowsOf[j] /\ exec[j].sel # {}
  BY <1>1 DEF PassOK
<1>. QED
  BY <1>2, LeastIsIn DEF Current

\* A row that is selected and not sent yet may be given any status.
LEMMA PaysOnce ==
  ASSUME OrderedInv, NEW j \in Job, exec[j].pc \in {"pay", "send"},
         exec[j].pc = "send" \/ exec[j].sel # {}, NEW y, exec' = [exec EXCEPT ![j] = y],
         y.pc = "pay" \/ y.pc = "send", y.sel \subseteq exec[j].sel,
         UNCHANGED job, UNCHANGED resume, UNCHANGED app, UNCHANGED raced, UNCHANGED ops,
         unseen \subseteq unseen',
         UNCHANGED row \/ \E status : row' = WithStatus(j, {Current(j)}, status)
  PROVE  OrderInv' /\ OnceInv'
<1>1. PICK x, c, R : x = exec[j] /\ c = Current(j) /\ R = {c}
  OBVIOUS
<1>2. c \in x.sel /\ exec[j].pc # "idle"
  BY <1>1, CurrentIsSelected
<1>3. /\ \A i \in Job \ {j} : row'[i] = row[i]
      /\ \A r \in RowsOf[j] : row'[j][r] = row[j][r] \/ r = c
  <2>1. CASE UNCHANGED row
    BY <2>1
  <2>2. ASSUME NEW status, row' = WithStatus(j, R, status)
        PROVE  /\ \A i \in Job \ {j} : row'[i] = row[i]
               /\ \A r \in RowsOf[j] : row'[j][r] = row[j][r] \/ r = c
    <3>1. /\ \A i \in Job \ {j} : row'[i] = row[i]
          /\ \A r \in RowsOf[j] : r \notin R => row'[j][r] = row[j][r]
      BY <2>2, StatusOfRows
    <3>. QED
      BY <1>1, <3>1
  <2>. QED
    BY <1>1, <2>1, <2>2
<1>4. ASSUME NEW r \in RowsOf[j], ~resume[j].on, app[j].pc = "idle",
             RowOnce(j, r, Live(j, r), row[j][r], exec[j], resume[j], app[j])
      PROVE  RowOnce(j, r, Live(j, r)', row'[j][r], y, resume[j], app[j])
  <2>1. PICK live, w, s, a, v : live = Live(j, r) /\ w = row[j][r]
                                /\ s = resume[j] /\ a = app[j] /\ v = row'[j][r]
    OBVIOUS
  <2>2. RowOnce(j, r, live, w, x, s, a) /\ ~s.on /\ a.pc = "idle" /\ x.pc \in {"pay", "send"}
    BY <1>1, <1>4, <2>1
  <2>3. v = w \/ r \in x.sel
    BY <1>2, <1>3, <2>1
  <2>4. (y.pc = "pay" \/ y.pc = "send" \/ y.pc = "idle") /\ y.sel \subseteq x.sel
    BY <1>1
  <2>5. RowOnce(j, r, live, v, y, s, a)
    BY <2>2, <2>3, <2>4, PassPaysRow
  <2>. QED
    BY <2>1, <2>5, LiveKept
<1>5. RowsGoOn(j, y)
  BY <1>4 DEF RowsGoOn
<1>6. job' \in [Job -> JobRec] /\ job'[j].status \notin {"none", "deduped"}
  BY <1>2, PassAtWork, JobTyped
<1>. QED
  BY <1>2, <1>3, <1>5, <1>6, QuietPassOnce

LEMMA BeginRowOnce ==
  ASSUME OrderedInv, NEW j \in Job, BeginRow(j)
  PROVE  OrderInv' /\ OnceInv'
<1>1. /\ UNCHANGED job /\ UNCHANGED resume /\ UNCHANGED app /\ UNCHANGED ops
      /\ unseen \subseteq unseen' /\ UNCHANGED raced /\ exec[j].pc = "pay" /\ exec[j].sel # {}
  BY DEF BeginRow, history
<1>2. CASE /\ NextRow(j)
           /\ row' = WithStatus(j, {Current(j)}, "failed") \/ UNCHANGED row
  <2>1. PICK y : exec' = [exec EXCEPT ![j] = y] /\ y.pc = "pay" /\ y.sel \subseteq exec[j].sel
    BY <1>2, NextRowFrame
  <2>2. UNCHANGED row \/ \E status : row' = WithStatus(j, {Current(j)}, status)
    BY <1>2
  <2>3. exec[j].pc \in {"pay", "send"} /\ (y.pc = "pay" \/ y.pc = "send")
    BY <1>1, <2>1
  <2>. QED
    BY <1>1, <2>1, <2>2, <2>3, PaysOnce
<1>3. CASE /\ exec' = [exec EXCEPT ![j].pc = "send"]
           /\ row' = WithStatus(j, {Current(j)}, "executing")
  <2>1. PICK x, y : x = exec[j] /\ y = [x EXCEPT !.pc = "send"]
    OBVIOUS
  <2>2. x \in PassState
    BY <2>1, JobTyped
  <2>3. y.pc = "send" /\ y.sel = x.sel
    BY <2>1, <2>2 DEF PassState
  <2>4. exec' = [exec EXCEPT ![j] = y]
    BY <1>3, <2>1
  <2>5. UNCHANGED row \/ \E status : row' = WithStatus(j, {Current(j)}, status)
    BY <1>3
  <2>6. /\ exec[j].pc \in {"pay", "send"} /\ y.sel \subseteq exec[j].sel
        /\ y.pc = "pay" \/ y.pc = "send"
    BY <1>1, <2>1, <2>3
  <2>. QED
    BY <1>1, <2>4, <2>5, <2>6, PaysOnce
<1>. QED
  BY <1>2, <1>3 DEF BeginRow

LEMMA SendOnce ==
  ASSUME OrderedInv, NEW j \in Job, Send(j)
  PROVE  OrderInv' /\ OnceInv'
<1>1. PICK x, c, R, m, y : /\ x = exec[j] /\ c = Least(x.sel) /\ R = {c} /\ m = Len(ops) + 1
                           /\ y = [x EXCEPT !.pc = "wait", !.op = m]
  OBVIOUS
<1>2. /\ UNCHANGED job /\ UNCHANGED row /\ UNCHANGED resume /\ UNCHANGED app
      /\ UNCHANGED unseen /\ UNCHANGED raced /\ x.pc = "send"
      /\ Accepted(j, R) /\ exec' = [exec EXCEPT ![j] = y]
  BY <1>1 DEF Send, store, history, Current
<1>3. c \in x.sel /\ R \in SUBSET RowsOf[j] /\ exec[j].pc # "idle"
  BY <1>1, <1>2, CurrentIsSelected DEF Current
<1>4. x \in PassState
  BY <1>1, JobTyped
<1>5. y.pc = "wait" /\ y.sel = x.sel /\ y.op = m
  BY <1>1, <1>4 DEF PassState
<1>6. /\ \A k \in DOMAIN ops' :
              \/ k \in DOMAIN ops /\ ops'[k].job = ops[k].job /\ ops'[k].rows = ops[k].rows
              \/ k = Len(ops) + 1 /\ ops'[k].job = j /\ ops'[k].rows = R
      /\ \A i, r : Live(i, r)' \subseteq
              IF i = j /\ r \in R THEN Live(i, r) \cup {Len(ops) + 1} ELSE Live(i, r)
  BY <1>2, <1>3, LiveAccepted DEF OrderedInv
<1>7. OpsFrame(j) /\ OthersShrink(j)
  BY <1>6 DEF OpsFrame, OthersShrink
<1>8. ASSUME NEW r \in RowsOf[j], ~resume[j].on, app[j].pc = "idle",
             RowOnce(j, r, Live(j, r), row[j][r], exec[j], resume[j], app[j])
      PROVE  RowOnce(j, r, Live(j, r)', row'[j][r], y, resume[j], app[j])
  <2>1. PICK live, w, s, a, more : live = Live(j, r) /\ w = row[j][r]
                                   /\ s = resume[j] /\ a = app[j] /\ more = Live(j, r)'
    OBVIOUS
  <2>2. RowOnce(j, r, live, w, x, s, a) /\ ~s.on /\ a.pc = "idle"
    BY <1>1, <1>8, <2>1
  <2>3. more \subseteq (IF r = Least(x.sel) THEN live \cup {m} ELSE live)
    BY <1>1, <1>6, <2>1
  <2>4. Least(x.sel) \in x.sel
    BY <1>1, <1>3
  <2>5. RowOnce(j, r, more, w, y, s, a)
    BY <1>2, <1>5, <2>2, <2>3, <2>4, PassSendsRow
  <2>. QED
    BY <1>2, <2>1, <2>5
<1>9. RowsGoOn(j, y)
  BY <1>8 DEF RowsGoOn
<1>10. /\ job' \in [Job -> JobRec] /\ job'[j].status \notin {"none", "deduped"}
       /\ \A i \in Job \ {j} : job'[i] = job[i] /\ row'[i] = row[i]
  BY <1>2, <1>3, PassAtWork, JobTyped
<1>. QED
  BY <1>2, <1>3, <1>7, <1>9, <1>10, PassOnce

\* An operation that was taken although the call failed is unseen.
LEMMA SendFailsOnce ==
  ASSUME OrderedInv, NEW j \in Job, SendFails(j)
  PROVE  OrderInv' /\ OnceInv'
<1>1. PICK x, c, R : x = exec[j] /\ c = Least(x.sel) /\ R = {c}
  OBVIOUS
<1>2. /\ UNCHANGED job /\ UNCHANGED resume /\ UNCHANGED app /\ UNCHANGED raced /\ x.pc = "send"
      /\ row' = WithStatus(j, {Current(j)}, "failed") /\ NextRow(j)
      /\ \/ Accepted(j, R) /\ unseen' = unseen \cup {<<j, c>>}
         \/ UNCHANGED <<ops, unseen>>
  BY <1>1 DEF SendFails, Current
<1>3. PICK y : /\ exec' = [exec EXCEPT ![j] = y]
               /\ y.pc = "pay" /\ y.sel = exec[j].sel \ {Least(exec[j].sel)}
  BY <1>2, NextRowFrame
<1>4. CASE UNCHANGED <<ops, unseen>>
  <2>1. UNCHANGED ops /\ unseen \subseteq unseen'
    BY <1>4
  <2>2. UNCHANGED row \/ \E status : row' = WithStatus(j, {Current(j)}, status)
    BY <1>2
  <2>3. /\ exec[j].pc \in {"pay", "send"} /\ y.sel \subseteq exec[j].sel
        /\ y.pc = "pay" \/ y.pc = "send"
        /\ exec[j].pc = "send" \/ exec[j].sel # {}
    BY <1>1, <1>2, <1>3
  <2>. QED
    BY <1>2, <1>3, <2>1, <2>2, <2>3, PaysOnce
<1>5. CASE Accepted(j, R) /\ unseen' = unseen \cup {<<j, c>>}
  <2>1. c \in x.sel /\ R \in SUBSET RowsOf[j] /\ exec[j].pc # "idle"
    BY <1>1, <1>2, CurrentIsSelected DEF Current
  <2>2. /\ \A k \in DOMAIN ops' :
              \/ k \in DOMAIN ops /\ ops'[k].job = ops[k].job /\ ops'[k].rows = ops[k].rows
              \/ k = Len(ops) + 1 /\ ops'[k].job = j /\ ops'[k].rows = R
        /\ \A i, r : Live(i, r)' \subseteq
              IF i = j /\ r \in R THEN Live(i, r) \cup {Len(ops) + 1} ELSE Live(i, r)
    BY <1>5, <2>1, LiveAccepted DEF OrderedInv
  <2>3. OpsFrame(j) /\ OthersShrink(j)
    BY <2>2 DEF OpsFrame, OthersShrink
  <2>4. row' = WithStatus(j, R, "failed")
    BY <1>1, <1>2 DEF Current
  <2>5. /\ \A i \in Job \ {j} : row'[i] = row[i]
        /\ \A r \in RowsOf[j] : r \notin R => row'[j][r] = row[j][r]
    BY <2>4, StatusOfRows
  <2>6. ASSUME NEW r \in RowsOf[j], <<j, r>> \notin unseen', ~resume[j].on, app[j].pc = "idle",
               RowOnce(j, r, Live(j, r), row[j][r], exec[j], resume[j], app[j])
        PROVE  RowOnce(j, r, Live(j, r)', row'[j][r], y, resume[j], app[j])
    <3>1. PICK live, w, s, a, less : live = Live(j, r) /\ w = row[j][r]
                                     /\ s = resume[j] /\ a = app[j] /\ less = Live(j, r)'
      OBVIOUS
    <3>2. RowOnce(j, r, live, w, x, s, a) /\ ~s.on /\ a.pc = "idle"
      BY <1>1, <2>6, <3>1
    <3>3. r \notin R
      BY <1>1, <1>5, <2>6
    <3>4. less \subseteq live /\ row'[j][r] = w
      BY <2>2, <2>5, <3>1, <3>3
    <3>5. x.pc \in {"pay", "send"} /\ y.sel \subseteq x.sel
      BY <1>1, <1>2, <1>3
    <3>6. RowOnce(j, r, live, w, y, s, a)
      BY <1>3, <3>2, <3>5, PassPaysRow
    <3>7. RowOnce(j, r, less, w, y, s, a)
      BY <3>4, <3>6, FewerLive
    <3>. QED
      BY <3>1, <3>4, <3>7
  <2>7. RowsGoOn(j, y)
    BY <2>6 DEF RowsGoOn
  <2>8. /\ job' \in [Job -> JobRec] /\ job'[j].status \notin {"none", "deduped"}
        /\ \A i \in Job \ {j} : job'[i] = job[i] /\ row'[i] = row[i]
    BY <1>2, <2>1, <2>5, PassAtWork, JobTyped
  <2>9. unseen \subseteq unseen'
    BY <1>5
  <2>. QED
    BY <1>2, <1>3, <2>1, <2>3, <2>7, <2>8, <2>9, PassOnce
<1>. QED
  BY <1>2, <1>4, <1>5

LEMMA AwaitOnce ==
  ASSUME OrderedInv, NEW j \in Job, Await(j)
  PROVE  OrderInv' /\ OnceInv'
<1>1. PICK x, c, R, k, status :
        /\ x = exec[j] /\ c = Least(x.sel) /\ R = {c} /\ k = x.op
        /\ status = IF ops[k].indexed /\ ops[k].state = "mined" THEN "confirmed" ELSE "executing"
  OBVIOUS
<1>2. /\ UNCHANGED job /\ UNCHANGED resume /\ UNCHANGED app /\ UNCHANGED ops
      /\ unseen \subseteq unseen' /\ UNCHANGED raced /\ x.pc = "wait" /\ NextRow(j)
      /\ row' = Recorded(j, R, status, k)
  BY <1>1 DEF Await, history, Current
<1>3. c \in x.sel /\ exec[j].pc # "idle"
  BY <1>1, <1>2, CurrentIsSelected DEF Current
<1>4. k # NoOp
  <2>1. x \in PassState /\ PassOK(j, x)
    BY <1>1, PassTyped DEF OrderedInv
  <2>2. Executes(k, j, c) /\ k \in OpId \cup {NoOp}
    BY <1>1, <1>2, <2>1 DEF PassOK, PassState
  <2>3. k \in OpId
    BY <2>2, OperationId DEF OrderedInv
  <2>. QED
    BY <2>3, CsvAssumption DEF OpId
<1>5. PICK y : /\ exec' = [exec EXCEPT ![j] = y]
               /\ y.pc = "pay" /\ y.sel = exec[j].sel \ {Least(exec[j].sel)}
  BY <1>2, NextRowFrame
<1>6. /\ \A i \in Job \ {j} : row'[i] = row[i]
      /\ \A r \in RowsOf[j] :
            /\ r \notin R => row'[j][r] = row[j][r]
            /\ r \in R => row'[j][r].status = status /\ row'[j][r].op = k
  BY <1>2, RecordOfRows
<1>7. ASSUME NEW r \in RowsOf[j], ~resume[j].on, app[j].pc = "idle",
             RowOnce(j, r, Live(j, r), row[j][r], exec[j], resume[j], app[j])
      PROVE  RowOnce(j, r, Live(j, r)', row'[j][r], y, resume[j], app[j])
  <2>1. PICK live, w, s, a, v : live = Live(j, r) /\ w = row[j][r]
                                /\ s = resume[j] /\ a = app[j] /\ v = row'[j][r]
    OBVIOUS
  <2>2. RowOnce(j, r, live, w, x, s, a) /\ ~s.on /\ a.pc = "idle"
    BY <1>1, <1>7, <2>1
  <2>3. /\ r # Least(x.sel) => v = w
        /\ r = Least(x.sel) => v.status = "confirmed" \/ (v.status = "executing" /\ v.op = x.op)
    BY <1>1, <1>6, <2>1
  <2>4. Least(x.sel) \in x.sel /\ x.op # NoOp /\ y.sel = x.sel \ {Least(x.sel)}
    BY <1>1, <1>3, <1>4, <1>5
  <2>5. RowOnce(j, r, live, v, y, s, a)
    BY <1>2, <1>5, <2>2, <2>3, <2>4, PassSawRow
  <2>. QED
    BY <1>2, <2>1, <2>5, LiveKept
<1>8. RowsGoOn(j, y)
  BY <1>7 DEF RowsGoOn
<1>9. /\ job' \in [Job -> JobRec] /\ job'[j].status \notin {"none", "deduped"}
      /\ \A i \in Job \ {j} : job'[i] = job[i] /\ row'[i] = row[i]
  BY <1>2, <1>3, <1>6, PassAtWork, JobTyped
<1>. QED
  BY <1>2, <1>3, <1>5, <1>8, <1>9, QuietPassOnce

\* A pass or an app's last report leaves the job read.
LEMMA FinalStatusTyped ==
  ASSUME OrderedInv, NEW j \in Job, NEW rs
  PROVE  /\ FinalStatus(j, rs) \in JobStatus
         /\ job[j].status \notin {"none", "deduped"} => FinalStatus(j, rs) \notin {"none", "deduped"}
<1>1. job[j].status \in JobStatus
  BY JobTyped DEF JobRec
<1>2. FinalStatus(j, rs) \in {"cancelled", "completed", "partially_completed", job[j].status}
  BY DEF FinalStatus
<1>. QED
  BY <1>1, <1>2 DEF JobStatus

LEMMA FinishPassOnce ==
  ASSUME OrderedInv, NEW j \in Job, FinishPass(j)
  PROVE  OrderInv' /\ OnceInv'
<1>1. PICK x, y, status : x = exec[j] /\ y = Resting /\ status = FinalStatus(j, row[j])
  OBVIOUS
<1>2. /\ UNCHANGED row /\ UNCHANGED resume /\ UNCHANGED app /\ UNCHANGED ops
      /\ unseen \subseteq unseen' /\ UNCHANGED raced /\ x.pc = "pay"
      /\ job' = [job EXCEPT ![j].status = status] /\ exec' = [exec EXCEPT ![j] = y]
  BY <1>1 DEF FinishPass, history
<1>3. exec[j].pc # "idle" /\ y.pc = "idle" /\ y.sel = {}
  BY <1>1, <1>2 DEF Resting
<1>4. status \in JobStatus /\ status \notin {"none", "deduped"}
  BY <1>1, <1>3, FinalStatusTyped, PassAtWork
<1>5. job' \in [Job -> JobRec] /\ job'[j].status = status /\ \A i \in Job \ {j} : job'[i] = job[i]
  BY <1>2, <1>4, StatusTyped
<1>6. ASSUME NEW r \in RowsOf[j], ~resume[j].on, app[j].pc = "idle",
             RowOnce(j, r, Live(j, r), row[j][r], exec[j], resume[j], app[j])
      PROVE  RowOnce(j, r, Live(j, r)', row'[j][r], y, resume[j], app[j])
  <2>1. PICK live, w, s, a : live = Live(j, r) /\ w = row[j][r] /\ s = resume[j] /\ a = app[j]
    OBVIOUS
  <2>2. RowOnce(j, r, live, w, x, s, a) /\ ~s.on /\ a.pc = "idle"
    BY <1>1, <1>6, <2>1
  <2>3. SafeRow(live, w) /\ \A k, l \in live : k = l
    BY <1>2, <2>2 DEF RowOnce, Waits
  <2>4. RowOnce(j, r, live, w, y, s, a)
    BY <1>3, <2>2, <2>3, AtRest
  <2>. QED
    BY <1>2, <2>1, <2>4, LiveKept
<1>7. RowsGoOn(j, y)
  BY <1>6 DEF RowsGoOn
<1>8. /\ job' \in [Job -> JobRec] /\ job'[j].status \notin {"none", "deduped"}
      /\ \A i \in Job \ {j} : job'[i] = job[i] /\ row'[i] = row[i]
  BY <1>2, <1>4, <1>5
<1>. QED
  BY <1>2, <1>3, <1>7, <1>8, QuietPassOnce

-----------------------------------------------------------------------------
(* The app *)

LEMMA AppAtWork ==
  ASSUME OrderedInv, NEW j \in Job, app[j].pc # "idle"
  PROVE  /\ Source[j] = "user" /\ exec[j].pc = "idle" /\ ~resume[j].on
         /\ job[j].status \notin {"none", "deduped"}
BY JobTyped, SourceOf DEF Orderly, Fresh

\* What an app at work becomes keeps its rows paid once.
ChunksGoOn(j, b) ==
  \A r \in RowsOf[j] :
    /\ <<j, r>> \notin unseen' /\ ~resume[j].on /\ exec[j].pc = "idle"
    /\ RowOnce(j, r, Live(j, r), row[j][r], exec[j], resume[j], app[j])
    => RowOnce(j, r, Live(j, r)', row'[j][r], exec[j], resume[j], b)

LEMMA AppOnce ==
  ASSUME OrderedInv, NEW j \in Job, NEW b, app[j].pc # "idle",
         app'[j] = b, \A i \in Job \ {j} : app'[i] = app[i],
         UNCHANGED exec, UNCHANGED resume, UNCHANGED raced, unseen \subseteq unseen',
         job' \in [Job -> JobRec], job'[j].status \notin {"none", "deduped"},
         \A i \in Job \ {j} : job'[i] = job[i] /\ row'[i] = row[i],
         OpsFrame(j), OthersShrink(j), ChunksGoOn(j, b)
  PROVE  OrderInv' /\ OnceInv'
<1>1. Elsewhere(j)
  BY DEF Elsewhere
<1>2. Orderly(j)'
  BY AppAtWork DEF Orderly
<1>3. ASSUME NEW r \in RowsOf[j], j \notin raced', <<j, r>> \notin unseen'
      PROVE  Once(j, r)'
  <2>1. PICK live, w : live = Live(j, r)' /\ w = row'[j][r]
    OBVIOUS
  <2>2. RowOnce(j, r, Live(j, r), row[j][r], exec[j], resume[j], app[j])
    BY <1>3, OnceWas
  <2>3. RowOnce(j, r, live, w, exec[j], resume[j], b)
    BY <1>3, <2>1, <2>2, AppAtWork DEF ChunksGoOn
  <2>. QED
    BY <2>1, <2>3, OnceNow
<1>. QED
  BY <1>1, <1>2, <1>3, OrderedFrom DEF OthersShrink

LEMMA ChunkIsPlanned ==
  ASSUME OrderedInv, NEW j \in Job, app[j].pc \in {"send", "wait"}
  PROVE  /\ NextChunk(j, app[j].plan) \subseteq app[j].plan
         /\ NextChunk(j, app[j].plan) \in SUBSET RowsOf[j]
<1>1. PICK plan : plan = app[j].plan
  OBVIOUS
<1>2. plan \in SUBSET RowsOf[j] /\ plan # {}
  BY <1>1, AppTyped DEF OrderedInv, AppOK
<1>3. Least(plan) \in plan
  BY <1>2, LeastIsIn
<1>4. NextChunk(j, plan) \subseteq plan
  <2>1. CASE plan \ Singles[j] = {}
    <3>1. NextChunk(j, plan) = {Least(plan)}
      BY <2>1 DEF NextChunk
    <3>. QED
      BY <1>3, <3>1
  <2>2. CASE plan \ Singles[j] # {}
    BY <2>2 DEF NextChunk
  <2>. QED
    BY <2>1, <2>2
<1>. QED
  BY <1>1, <1>2, <1>4

\* A waiting app's operation is one.
LEMMA WaitedFor ==
  ASSUME OrderedInv, NEW j \in Job, app[j].pc = "wait"
  PROVE  app[j].op # NoOp
<1>1. PICK a : a = app[j]
  OBVIOUS
<1>2. a \in AppState /\ AppOK(j, a) /\ a.pc = "wait"
  BY <1>1, AppTyped DEF OrderedInv
<1>3. a.plan \in SUBSET RowsOf[j] /\ a.plan # {} /\ a.op \in OpId \cup {NoOp}
  BY <1>2 DEF AppOK, AppState
<1>4. PICK r : r \in NextChunk(j, a.plan)
  BY <1>3, ChunkNotEmpty
<1>5. Executes(a.op, j, r)
  BY <1>2, <1>4 DEF AppOK
<1>6. a.op \in OpId
  BY <1>3, <1>5, OperationId DEF OrderedInv
<1>. QED
  BY <1>1, <1>6, CsvAssumption DEF OpId

LEMMA AppSendOnce ==
  ASSUME OrderedInv, NEW j \in Job, AppSend(j)
  PROVE  OrderInv' /\ OnceInv'
<1>1. PICK a, R, m, b : /\ a = app[j] /\ R = NextChunk(j, a.plan) /\ m = Len(ops) + 1
                        /\ b = [a EXCEPT !.pc = "wait", !.op = m]
  OBVIOUS
<1>2. /\ UNCHANGED job /\ UNCHANGED row /\ UNCHANGED exec /\ UNCHANGED resume
      /\ unseen \subseteq unseen' /\ UNCHANGED raced /\ a.pc = "send"
      /\ Accepted(j, R) /\ app' = [app EXCEPT ![j] = b]
  BY <1>1 DEF AppSend, store, history, Chunk
<1>3. R \subseteq a.plan /\ R \in SUBSET RowsOf[j] /\ app[j].pc # "idle"
  BY <1>1, <1>2, ChunkIsPlanned
<1>4. a \in AppState
  BY <1>1, JobTyped
<1>5. b.pc = "wait" /\ b.plan = a.plan /\ b.op = m
  BY <1>1, <1>4 DEF AppState
<1>6. /\ \A k \in DOMAIN ops' :
              \/ k \in DOMAIN ops /\ ops'[k].job = ops[k].job /\ ops'[k].rows = ops[k].rows
              \/ k = Len(ops) + 1 /\ ops'[k].job = j /\ ops'[k].rows = R
      /\ \A i, r : Live(i, r)' \subseteq
              IF i = j /\ r \in R THEN Live(i, r) \cup {Len(ops) + 1} ELSE Live(i, r)
  BY <1>2, <1>3, LiveAccepted DEF OrderedInv
<1>7. OpsFrame(j) /\ OthersShrink(j)
  BY <1>6 DEF OpsFrame, OthersShrink
<1>8. ASSUME NEW r \in RowsOf[j], ~resume[j].on, exec[j].pc = "idle",
             RowOnce(j, r, Live(j, r), row[j][r], exec[j], resume[j], app[j])
      PROVE  RowOnce(j, r, Live(j, r)', row'[j][r], exec[j], resume[j], b)
  <2>1. PICK live, w, x, s, more : live = Live(j, r) /\ w = row[j][r]
                                   /\ x = exec[j] /\ s = resume[j] /\ more = Live(j, r)'
    OBVIOUS
  <2>2. RowOnce(j, r, live, w, x, s, a) /\ ~s.on /\ x.pc = "idle"
    BY <1>1, <1>8, <2>1
  <2>3. more \subseteq (IF r \in NextChunk(j, a.plan) THEN live \cup {m} ELSE live)
    BY <1>1, <1>6, <2>1
  <2>4. NextChunk(j, a.plan) \subseteq a.plan
    BY <1>1, <1>3
  <2>5. w.op # m
    <3>1. w.op # NoOp => w.op \in DOMAIN ops
      BY <2>1, RowTyped DEF OrderedInv, RowOK, Executes
    <3>2. ops \in Seq(Operation) /\ m \in Nat /\ m \notin DOMAIN ops
      BY <1>1 DEF OrderedInv, ImportInv
    <3>. QED
      BY <3>1, <3>2, CsvAssumption
  <2>6. RowOnce(j, r, more, w, x, s, b)
    BY <1>2, <1>5, <2>2, <2>3, <2>4, <2>5, AppSendsRow
  <2>. QED
    BY <1>2, <2>1, <2>6
<1>9. ChunksGoOn(j, b)
  BY <1>8 DEF ChunksGoOn
<1>10. /\ job' \in [Job -> JobRec] /\ job'[j].status \notin {"none", "deduped"}
       /\ \A i \in Job \ {j} : job'[i] = job[i] /\ row'[i] = row[i]
       /\ app'[j] = b /\ \A i \in Job \ {j} : app'[i] = app[i]
  BY <1>2, <1>3, AppAtWork, JobTyped
<1>. QED
  BY <1>2, <1>3, <1>7, <1>9, <1>10, AppOnce

\* What a report changes.
LEMMA ReportFrame ==
  ASSUME OrderedInv, NEW j \in Job, app[j].pc = "wait", NEW status,
         Report(j, Chunk(j), status, app[j].op)
  PROVE  /\ job' \in [Job -> JobRec] /\ job'[j].status \notin {"none", "deduped"}
         /\ \A i \in Job \ {j} : job'[i] = job[i] /\ row'[i] = row[i]
         /\ \A r \in RowsOf[j] :
              /\ row'[j][r].duplicate = row[j][r].duplicate
              /\ r \notin NextChunk(j, app[j].plan) => row'[j][r] = row[j][r]
              /\ r \in NextChunk(j, app[j].plan) =>
                   \/ row'[j][r] = row[j][r] /\ row[j][r].status = "confirmed"
                   \/ row'[j][r].status = status /\ row'[j][r].op = app[j].op
<1>1. PICK C, k, R, final :
        /\ C = NextChunk(j, app[j].plan) /\ k = app[j].op
        /\ R = {r \in C : row[j][r].status # "confirmed"}
        /\ final = FinalStatus(j, Recorded(j, R, status, k)[j])
  OBVIOUS
<1>2. row' = Recorded(j, R, status, k) /\ job' = [job EXCEPT ![j].status = final]
  BY <1>1 DEF Report, Chunk
<1>3. final \in JobStatus /\ final \notin {"none", "deduped"}
  BY <1>1, FinalStatusTyped, AppAtWork
<1>4. job' \in [Job -> JobRec] /\ job'[j].status = final /\ \A i \in Job \ {j} : job'[i] = job[i]
  BY <1>2, <1>3, StatusTyped
<1>5. /\ \A i \in Job \ {j} : row'[i] = row[i]
      /\ \A r \in RowsOf[j] :
              /\ row'[j][r].policy = row[j][r].policy /\ row'[j][r].duplicate = row[j][r].duplicate
              /\ r \notin R => row'[j][r] = row[j][r]
              /\ r \in R => row'[j][r].status = status /\ row'[j][r].op = k
  BY <1>2, RecordOfRows
<1>. QED
  BY <1>1, <1>3, <1>4, <1>5

LEMMA AppAcknowledgesOnce ==
  ASSUME OrderedInv, NEW j \in Job, AppAcknowledges(j)
  PROVE  OrderInv' /\ OnceInv'
<1>1. PICK a, C, status : a = app[j] /\ C = NextChunk(j, a.plan) /\ status = "executing"
  OBVIOUS
<1>2. /\ UNCHANGED exec /\ UNCHANGED resume /\ UNCHANGED app /\ UNCHANGED ops
      /\ unseen \subseteq unseen' /\ UNCHANGED raced /\ app[j].pc = "wait"
      /\ Report(j, Chunk(j), status, app[j].op)
  BY <1>1 DEF AppAcknowledges, history
<1>3. /\ job' \in [Job -> JobRec] /\ job'[j].status \notin {"none", "deduped"}
      /\ \A i \in Job \ {j} : job'[i] = job[i] /\ row'[i] = row[i]
      /\ \A r \in RowsOf[j] :
           /\ r \notin C => row'[j][r] = row[j][r]
           /\ r \in C => row'[j][r] = row[j][r] \/ row'[j][r].status = status
  BY <1>1, <1>2, ReportFrame
<1>4. ASSUME NEW r \in RowsOf[j], ~resume[j].on, exec[j].pc = "idle",
             RowOnce(j, r, Live(j, r), row[j][r], exec[j], resume[j], app[j])
      PROVE  RowOnce(j, r, Live(j, r)', row'[j][r], exec[j], resume[j], a)
  <2>1. PICK live, w, x, s, v : live = Live(j, r) /\ w = row[j][r]
                                /\ x = exec[j] /\ s = resume[j] /\ v = row'[j][r]
    OBVIOUS
  <2>2. RowOnce(j, r, live, w, x, s, a) /\ ~s.on /\ x.pc = "idle"
    BY <1>1, <1>4, <2>1
  <2>3. v = w \/ (r \in NextChunk(j, a.plan) /\ v.status = "executing")
    BY <1>1, <1>3, <2>1
  <2>4. RowOnce(j, r, live, v, x, s, a)
    BY <1>1, <1>2, <2>2, <2>3, AppTellsRow
  <2>. QED
    BY <1>2, <2>1, <2>4, LiveKept
<1>5. ChunksGoOn(j, a)
  BY <1>4 DEF ChunksGoOn
<1>6. OpsFrame(j) /\ OthersShrink(j)
  BY <1>2, LiveKept DEF OthersShrink
<1>7. app[j].pc # "idle" /\ app'[j] = a /\ \A i \in Job \ {j} : app'[i] = app[i]
  BY <1>1, <1>2
<1>. QED
  BY <1>2, <1>3, <1>5, <1>6, <1>7, AppOnce

\* An app goes on with the rest of its plan or stops.
LEMMA NextStepFrame ==
  ASSUME OrderedInv, NEW j \in Job, NextStep(j) \/ app' = [app EXCEPT ![j] = Closed]
  PROVE  /\ \A i \in Job \ {j} : app'[i] = app[i]
         /\ \/ app'[j].pc = "idle"
            \/ app'[j].pc = "send" /\ app'[j].plan \subseteq app[j].plan \ NextChunk(j, app[j].plan)
               /\ NextStep(j)
<1>1. PICK rest : rest = app[j].plan \ NextChunk(j, app[j].plan)
  OBVIOUS
<1>2. CASE app' = [app EXCEPT ![j] = Closed]
  <2>1. app'[j] = Closed /\ \A i \in Job \ {j} : app'[i] = app[i]
    BY <1>2, JobTyped
  <2>. QED
    BY <2>1 DEF Closed
<1>3. CASE NextStep(j)
  <2>1. PICK b : b = IF rest = {} THEN Closed ELSE [Closed EXCEPT !.pc = "send", !.plan = rest]
    OBVIOUS
  <2>2. app' = [app EXCEPT ![j] = b]
    BY <1>1, <1>3, <2>1 DEF NextStep, Chunk
  <2>3. app'[j] = b /\ \A i \in Job \ {j} : app'[i] = app[i]
    BY <2>2, JobTyped
  <2>4. b.pc = "idle" \/ (b.pc = "send" /\ b.plan = rest)
    BY <2>1 DEF Closed
  <2>. QED
    BY <1>1, <1>3, <2>3, <2>4
<1>. QED
  BY <1>2, <1>3

LEMMA AppSeesMinedOnce ==
  ASSUME OrderedInv, NEW j \in Job, AppSeesMined(j)
  PROVE  OrderInv' /\ OnceInv'
<1>1. PICK a, b, C, status : /\ a = app[j] /\ b = app'[j] /\ C = NextChunk(j, a.plan)
                             /\ status = "confirmed"
  OBVIOUS
<1>2. /\ UNCHANGED exec /\ UNCHANGED resume /\ UNCHANGED ops
      /\ unseen \subseteq unseen' /\ UNCHANGED raced /\ app[j].pc = "wait" /\ NextStep(j)
      /\ Report(j, Chunk(j), status, app[j].op)
  BY <1>1 DEF AppSeesMined, history
<1>3. /\ job' \in [Job -> JobRec] /\ job'[j].status \notin {"none", "deduped"}
      /\ \A i \in Job \ {j} : job'[i] = job[i] /\ row'[i] = row[i]
      /\ \A r \in RowsOf[j] :
           /\ r \notin C => row'[j][r] = row[j][r]
           /\ r \in C => row'[j][r].status = status
  BY <1>1, <1>2, ReportFrame
<1>4. /\ \A i \in Job \ {j} : app'[i] = app[i]
      /\ b.pc = "idle" \/ (b.pc = "send" /\ b.plan \subseteq a.plan \ C)
  BY <1>1, <1>2, NextStepFrame
<1>5. ASSUME NEW r \in RowsOf[j], ~resume[j].on, exec[j].pc = "idle",
             RowOnce(j, r, Live(j, r), row[j][r], exec[j], resume[j], app[j])
      PROVE  RowOnce(j, r, Live(j, r)', row'[j][r], exec[j], resume[j], b)
  <2>1. PICK live, w, x, s, v : live = Live(j, r) /\ w = row[j][r]
                                /\ x = exec[j] /\ s = resume[j] /\ v = row'[j][r]
    OBVIOUS
  <2>2. RowOnce(j, r, live, w, x, s, a) /\ ~s.on /\ x.pc = "idle"
    BY <1>1, <1>5, <2>1
  <2>3. a.pc = "wait" /\ NextChunk(j, a.plan) \subseteq a.plan
    BY <1>1, <1>2, ChunkIsPlanned
  <2>4. /\ r \in NextChunk(j, a.plan) => v.status = "confirmed"
        /\ r \notin NextChunk(j, a.plan) => v = w
    BY <1>1, <1>3, <2>1
  <2>5. b.pc = "idle" \/ (b.pc = "send" /\ b.plan \subseteq a.plan \ NextChunk(j, a.plan))
    BY <1>1, <1>4
  <2>6. RowOnce(j, r, live, v, x, s, b)
    BY <2>2, <2>3, <2>4, <2>5, AppSawRow
  <2>. QED
    BY <1>2, <2>1, <2>6, LiveKept
<1>6. ChunksGoOn(j, b)
  BY <1>5 DEF ChunksGoOn
<1>7. OpsFrame(j) /\ OthersShrink(j)
  BY <1>2, LiveKept DEF OthersShrink
<1>8. app[j].pc # "idle" /\ app'[j] = b
  BY <1>1, <1>2
<1>. QED
  BY <1>2, <1>3, <1>4, <1>6, <1>7, <1>8, AppOnce

\* A failure that is not a receipt of one is an end nobody saw.
LEMMA AppSeesFailedOnce ==
  ASSUME OrderedInv, NEW j \in Job, AppSeesFailed(j)
  PROVE  OrderInv' /\ OnceInv'
<1>1. PICK a, b, C, k, status : /\ a = app[j] /\ b = app'[j] /\ C = NextChunk(j, a.plan)
                                /\ k = a.op /\ status = "failed"
  OBVIOUS
<1>2. /\ UNCHANGED exec /\ UNCHANGED resume /\ UNCHANGED ops /\ UNCHANGED raced
      /\ app[j].pc = "wait" /\ Report(j, Chunk(j), status, app[j].op)
      /\ NextStep(j) \/ app' = [app EXCEPT ![j] = Closed]
      /\ ~ops[k].indexed \/ ops[k].state = "reverted"
      /\ unseen' = IF ops[k].indexed THEN unseen ELSE unseen \cup ({j} \X C)
  BY <1>1 DEF AppSeesFailed, Chunk
<1>3. /\ job' \in [Job -> JobRec] /\ job'[j].status \notin {"none", "deduped"}
      /\ \A i \in Job \ {j} : job'[i] = job[i] /\ row'[i] = row[i]
      /\ \A r \in RowsOf[j] : r \notin C => row'[j][r] = row[j][r]
  BY <1>1, <1>2, ReportFrame
<1>4. /\ \A i \in Job \ {j} : app'[i] = app[i]
      /\ b.pc = "idle" \/ (b.pc = "send" /\ b.plan \subseteq a.plan \ C)
  BY <1>1, <1>2, NextStepFrame
<1>5. ASSUME NEW r \in RowsOf[j], <<j, r>> \notin unseen', ~resume[j].on, exec[j].pc = "idle",
             RowOnce(j, r, Live(j, r), row[j][r], exec[j], resume[j], app[j])
      PROVE  RowOnce(j, r, Live(j, r)', row'[j][r], exec[j], resume[j], b)
  <2>1. PICK live, w, x, s, v : live = Live(j, r) /\ w = row[j][r]
                                /\ x = exec[j] /\ s = resume[j] /\ v = row'[j][r]
    OBVIOUS
  <2>2. RowOnce(j, r, live, w, x, s, a) /\ ~s.on /\ x.pc = "idle"
    BY <1>1, <1>5, <2>1
  <2>3. a.pc = "wait" /\ NextChunk(j, a.plan) \subseteq a.plan
    BY <1>1, <1>2, ChunkIsPlanned
  <2>4. r \in NextChunk(j, a.plan) => live = {}
    <3>1. ASSUME r \in C
          PROVE  live \subseteq {k} /\ k \notin live
      <4>1. live \subseteq {k}
        BY <1>1, <2>2, <2>3, <3>1 DEF RowOnce, OnceInApp
      <4>2. ops[k].indexed
        BY <1>2, <1>5, <3>1
      <4>3. k \notin live
        BY <1>2, <2>1, <4>2 DEF Live
      <4>. QED
        BY <4>1, <4>3
    <3>. QED
      BY <1>1, <3>1
  <2>5. r \notin NextChunk(j, a.plan) => v = w
    BY <1>1, <1>3, <2>1
  <2>6. b.pc = "idle" \/ (b.pc = "send" /\ b.plan \subseteq a.plan \ NextChunk(j, a.plan))
    BY <1>1, <1>4
  <2>7. RowOnce(j, r, live, v, x, s, b)
    BY <2>2, <2>3, <2>4, <2>5, <2>6, AppSawRow
  <2>. QED
    BY <1>2, <2>1, <2>7, LiveKept
<1>6. ChunksGoOn(j, b)
  BY <1>5 DEF ChunksGoOn
<1>7. OpsFrame(j) /\ OthersShrink(j)
  BY <1>2, LiveKept DEF OthersShrink
<1>8. app[j].pc # "idle" /\ app'[j] = b /\ unseen \subseteq unseen'
  BY <1>1, <1>2
<1>. QED
  BY <1>2, <1>3, <1>4, <1>6, <1>7, <1>8, AppOnce

\* A page that is closed leaves rows whose hash it reported in flight.
LEMMA CloseAppOnce ==
  ASSUME OrderedInv, NEW j \in Job, CloseApp(j)
  PROVE  OrderInv' /\ OnceInv'
<1>1. PICK a, b, C : a = app[j] /\ b = app'[j] /\ C = NextChunk(j, a.plan)
  OBVIOUS
<1>2. /\ UNCHANGED job /\ UNCHANGED row /\ UNCHANGED exec /\ UNCHANGED resume /\ UNCHANGED ops
      /\ UNCHANGED raced /\ a.pc # "idle" /\ app' = [app EXCEPT ![j] = Closed]
      /\ unseen' = unseen \cup {<<j, r>> : r \in {r \in C : a.pc = "wait" /\ row[j][r].op # a.op}}
  BY <1>1 DEF CloseApp, store, Chunk
<1>3. b = Closed /\ b.pc = "idle" /\ \A i \in Job \ {j} : app'[i] = app[i]
  BY <1>1, <1>2, JobTyped DEF Closed
<1>4. ASSUME NEW r \in RowsOf[j], <<j, r>> \notin unseen', ~resume[j].on, exec[j].pc = "idle",
             RowOnce(j, r, Live(j, r), row[j][r], exec[j], resume[j], app[j])
      PROVE  RowOnce(j, r, Live(j, r)', row'[j][r], exec[j], resume[j], b)
  <2>1. PICK live, w, x, s : live = Live(j, r) /\ w = row[j][r] /\ x = exec[j] /\ s = resume[j]
    OBVIOUS
  <2>2. RowOnce(j, r, live, w, x, s, a) /\ ~s.on /\ x.pc = "idle"
    BY <1>1, <1>4, <2>1
  <2>3. a.pc = "wait" => NextChunk(j, a.plan) \subseteq a.plan /\ a.op # NoOp
    BY <1>1, ChunkIsPlanned, WaitedFor
  <2>4. a.pc = "wait" /\ r \in NextChunk(j, a.plan) =>
           \/ w.status = "confirmed" \/ w.policy = "blocked"
           \/ w.status = "executing" /\ w.op = a.op /\ a.op # NoOp
    <3>1. ASSUME a.pc = "wait", r \in C
          PROVE  w.op = a.op
      BY <1>2, <1>4, <2>1, <3>1
    <3>. QED
      BY <1>1, <2>2, <2>3, <3>1 DEF RowOnce, OnceInApp
  <2>5. RowOnce(j, r, live, w, x, s, b)
    BY <1>3, <2>2, <2>3, <2>4, AppSawRow
  <2>. QED
    BY <1>2, <2>1, <2>5, LiveKept
<1>5. ChunksGoOn(j, b)
  BY <1>4 DEF ChunksGoOn
<1>6. OpsFrame(j) /\ OthersShrink(j)
  BY <1>2, LiveKept DEF OthersShrink
<1>7. /\ app[j].pc # "idle" /\ app'[j] = b /\ unseen \subseteq unseen'
      /\ job' \in [Job -> JobRec] /\ job'[j].status \notin {"none", "deduped"}
      /\ \A i \in Job \ {j} : job'[i] = job[i] /\ row'[i] = row[i]
  BY <1>1, <1>2, AppAtWork, JobTyped
<1>. QED
  BY <1>2, <1>3, <1>5, <1>6, <1>7, AppOnce

-----------------------------------------------------------------------------
(* The chain, crashes, and the invariant *)

\* An operation is mined, reverted, or its receipt becomes readable.
LEMMA ChainStep ==
  ASSUME ops \in Seq(Operation), NEW k \in DOMAIN ops, Mine(k) \/ Index(k)
  PROVE  \E o : /\ ops' = [ops EXCEPT ![k] = o] /\ o.job = ops[k].job /\ o.rows = ops[k].rows
                /\ o.state \in {"pooled", "mined"} => ops[k].state \in {"pooled", "mined"}
<1>1. ops[k] \in Operation
  OBVIOUS
<1>2. CASE Mine(k)
  <2>1. PICK z : ops' = [ops EXCEPT ![k].state = z]
    BY <1>2 DEF Mine
  <2>2. PICK o : o = [ops[k] EXCEPT !.state = z]
    OBVIOUS
  <2>3. o.job = ops[k].job /\ o.rows = ops[k].rows /\ ops' = [ops EXCEPT ![k] = o]
    BY <1>1, <2>1, <2>2 DEF Operation
  <2>. QED
    BY <1>2, <2>3 DEF Mine
<1>3. CASE Index(k)
  <2>1. PICK o : o = [ops[k] EXCEPT !.indexed = TRUE]
    OBVIOUS
  <2>2. o.job = ops[k].job /\ o.rows = ops[k].rows /\ o.state = ops[k].state
    BY <1>1, <2>1 DEF Operation
  <2>3. ops' = [ops EXCEPT ![k] = o]
    BY <1>3, <2>1 DEF Index
  <2>. QED
    BY <2>2, <2>3
<1>. QED
  BY <1>2, <1>3

LEMMA ChainOnce ==
  ASSUME OrderedInv, NEW k \in DOMAIN ops, Mine(k) \/ Index(k)
  PROVE  OrderInv' /\ OnceInv'
<1>1. /\ UNCHANGED job /\ UNCHANGED row /\ UNCHANGED exec /\ UNCHANGED resume /\ UNCHANGED app
      /\ UNCHANGED unseen /\ UNCHANGED raced
  BY DEF Mine, Index, store, history
<1>2. ops \in Seq(Operation)
  BY DEF OrderedInv, ImportInv
<1>3. /\ DOMAIN ops' = DOMAIN ops
      /\ \A m \in DOMAIN ops :
           /\ ops'[m].job = ops[m].job /\ ops'[m].rows = ops[m].rows
           /\ ops'[m].state \in {"pooled", "mined"} => ops[m].state \in {"pooled", "mined"}
  <2>1. PICK o : /\ ops' = [ops EXCEPT ![k] = o] /\ o.job = ops[k].job /\ o.rows = ops[k].rows
                 /\ o.state \in {"pooled", "mined"} => ops[k].state \in {"pooled", "mined"}
    BY <1>2, ChainStep
  <2>2. DOMAIN ops' = DOMAIN ops /\ \A m \in DOMAIN ops : ops'[m] = IF m = k THEN o ELSE ops[m]
    BY <1>2, <2>1
  <2>. QED
    BY <2>1, <2>2
<1>4. PICK j : j = ops[k].job
  OBVIOUS
<1>5. j \in Job
  <2>1. ops[k] \in Operation
    BY <1>2
  <2>. QED
    BY <1>4, <2>1 DEF Operation
<1>6. \A i, r : Live(i, r)' \subseteq Live(i, r)
  BY <1>3 DEF Live
<1>7. OpsFrame(j) /\ Elsewhere(j)
  BY <1>1, <1>3 DEF OpsFrame, Elsewhere
<1>8. Orderly(j)'
  <2>1. Fresh(j) => Fresh(j)'
    BY <1>1, <1>3 DEF Fresh
  <2>. QED
    BY <1>1, <1>5, <2>1, JobTyped DEF Orderly
<1>9. ASSUME NEW r \in RowsOf[j], j \notin raced', <<j, r>> \notin unseen'
      PROVE  Once(j, r)'
  <2>1. RowOnce(j, r, Live(j, r), row[j][r], exec[j], resume[j], app[j])
    BY <1>1, <1>5, <1>9, OnceWas
  <2>2. PICK less : less = Live(j, r)'
    OBVIOUS
  <2>3. RowOnce(j, r, less, row[j][r], exec[j], resume[j], app[j])
    BY <1>6, <2>1, <2>2, FewerLive
  <2>. QED
    BY <1>1, <2>2, <2>3, OnceNow
<1>. QED
  BY <1>1, <1>5, <1>6, <1>7, <1>8, <1>9, JobTyped, OrderedFrom

\* The service dies; the row its pass waited for is one nobody saw the end of.
LEMMA CrashedRow ==
  ASSUME NEW j, NEW r, NEW live, NEW w, NEW x, NEW s, NEW a, RowOnce(j, r, live, w, x, s, a),
         ~(x.pc = "wait" /\ r = Least(x.sel)),
         NEW y, NEW t, y.pc = "idle", ~t.on
  PROVE  RowOnce(j, r, live, w, y, t, a)
BY DEF RowOnce, OnceInPass, Waits

LEMMA CrashOnce ==
  ASSUME OrderedInv, Crash
  PROVE  OrderInv' /\ OnceInv'
<1>1. /\ UNCHANGED row /\ UNCHANGED app /\ UNCHANGED ops /\ UNCHANGED raced
      /\ job' = [j \in Job |-> [job[j] EXCEPT !.reading = FALSE]]
      /\ unseen' = unseen \cup {<<j, Current(j)>> : j \in {j \in Job : exec[j].pc = "wait"}}
      /\ exec' = [j \in Job |-> Resting] /\ resume' = [j \in Job |-> NotResuming]
  BY DEF Crash
<1>2. job' \in [Job -> JobRec] /\ \A j \in Job : job'[j].status = job[j].status
  <2>1. ASSUME NEW j \in Job
        PROVE  job'[j] \in JobRec /\ job'[j].status = job[j].status
    <3>1. job'[j] = [job[j] EXCEPT !.reading = FALSE] /\ job[j] \in JobRec
      BY <1>1, JobTyped
    <3>. QED
      BY <3>1 DEF JobRec
  <2>. QED
    BY <1>1, <2>1
<1>3. \A j \in Job : exec'[j].pc = "idle" /\ ~resume'[j].on
  BY <1>1 DEF Resting, NotResuming
<1>4. ASSUME NEW j \in Job
      PROVE  Orderly(j)'
  <2>1. Fresh(j) => Fresh(j)'
    BY <1>1, <1>3 DEF Fresh
  <2>. QED
    BY <1>1, <1>2, <1>3, <2>1, JobTyped DEF Orderly
<1>5. ASSUME NEW j \in Job, j \notin raced', NEW r \in RowsOf[j], <<j, r>> \notin unseen'
      PROVE  Once(j, r)'
  <2>1. PICK live, w, x, s, a, y, t : /\ live = Live(j, r) /\ w = row[j][r] /\ x = exec[j]
                                      /\ s = resume[j] /\ a = app[j]
                                      /\ y = exec'[j] /\ t = resume'[j]
    OBVIOUS
  <2>2. RowOnce(j, r, live, w, x, s, a)
    BY <1>1, <1>5, <2>1, OnceWas
  <2>3. ~(x.pc = "wait" /\ r = Least(x.sel))
    <3>1. ASSUME x.pc = "wait", r = Least(x.sel)
          PROVE  <<j, r>> \in unseen'
      BY <1>1, <2>1, <3>1 DEF Current
    <3>. QED
      BY <1>5, <3>1
  <2>4. y.pc = "idle" /\ ~t.on
    BY <1>3, <2>1
  <2>5. RowOnce(j, r, live, w, y, t, a)
    BY <2>2, <2>3, <2>4, CrashedRow
  <2>. QED
    BY <1>1, <2>1, <2>5, LiveKept, OnceNow
<1>. QED
  BY <1>2, <1>4, <1>5 DEF OrderInv, OnceInv

LEMMA InitOrdered == Init => OrderedInv
<1>. SUFFICES ASSUME Init PROVE OrderInv /\ OnceInv
  BY InitEstablishes DEF OrderedInv
<1>1. job = [j \in Job |-> [status |-> "none", allow |-> FALSE, reading |-> FALSE]]
  BY DEF Init, JobsAre
<1>2. /\ row = [j \in Job |-> [r \in RowsOf[j] |->
              [status |-> "absent", policy |-> "blocked", duplicate |-> FALSE, op |-> NoOp]]]
      /\ exec = [j \in Job |-> Resting] /\ resume = [j \in Job |-> NotResuming]
      /\ app = [j \in Job |-> Closed] /\ ops = << >>
  BY DEF Init, NothingRuns
<1>3. ASSUME NEW j \in Job
      PROVE  Fresh(j)
  BY <1>2 DEF Fresh, Resting, NotResuming, Closed
<1>4. job \in [Job -> JobRec]
  BY <1>1 DEF JobRec, JobStatus
<1>5. ASSUME NEW j \in Job
      PROVE  Orderly(j)
  BY <1>3 DEF Orderly, Fresh
<1>6. ASSUME NEW j \in Job, NEW r \in RowsOf[j]
      PROVE  Once(j, r)
  <2>1. PICK live, w, x, s, a : live = Live(j, r) /\ w = row[j][r] /\ x = exec[j]
                                /\ s = resume[j] /\ a = app[j]
    OBVIOUS
  <2>2. live = {} /\ x.pc = "idle" /\ ~s.on /\ a.pc = "idle"
    BY <1>3, <2>1, FreshIsUnpaid DEF Fresh
  <2>3. RowOnce(j, r, live, w, x, s, a)
    BY <2>2, AtRest DEF SafeRow
  <2>. QED
    BY <2>1, <2>3 DEF Once
<1>. QED
  BY <1>4, <1>5, <1>6 DEF OrderInv, OnceInv

LEMMA NothingOrdered ==
  ASSUME OrderedInv, UNCHANGED vars
  PROVE  OrderInv' /\ OnceInv'
<1>1. /\ UNCHANGED job /\ UNCHANGED row /\ UNCHANGED exec /\ UNCHANGED resume /\ UNCHANGED app
      /\ UNCHANGED ops /\ UNCHANGED unseen /\ UNCHANGED raced
  BY DEF vars, store, history
<1>2. OrderInv'
  BY <1>1 DEF OrderedInv, OrderInv, Orderly, Fresh
<1>3. ASSUME NEW j \in Job, j \notin raced', NEW r \in RowsOf[j], <<j, r>> \notin unseen'
      PROVE  Once(j, r)'
  BY <1>1, <1>3, OnceWas, OnceNow, LiveKept
<1>. QED
  BY <1>2, <1>3 DEF OnceInv

LEMMA OrderedIsInductive == OrderedInv /\ [Next]_vars => OrderedInv'
<1>. SUFFICES ASSUME OrderedInv, [Next]_vars PROVE OrderInv' /\ OnceInv'
  BY ImportInvIsInductive DEF OrderedInv
<1>1. ASSUME NEW j \in Job,
             \/ DetectDuplicates(j) \/ Preview(j) \/ Cancel(j)
             \/ \E removed \in SUBSET RowsOf[j], allow \in Overrides(j) : Approve(j, removed, allow)
             \/ StartResume(j) \/ ResumeSettles(j) \/ FinishResume(j)
      PROVE  OrderInv' /\ OnceInv'
  <2>1. Overrides(j) \subseteq BOOLEAN
    BY DEF Overrides
  <2>2. ASSUME NEW removed \in SUBSET RowsOf[j], NEW allow \in Overrides(j), Approve(j, removed, allow)
        PROVE  OrderInv' /\ OnceInv'
    BY <2>1, <2>2, ApproveOnce
  <2>. QED
    BY <1>1, <2>2, DetectDuplicatesOnce, PreviewOnce, CancelOnce, StartResumeOnce,
       ResumeSettlesOnce, FinishResumeOnce, Zenon
<1>2. ASSUME NEW j \in Job,
             \/ BeginJob(j) \/ ExecutorSettles(j) \/ CheckPolicy(j) \/ BeginRow(j)
             \/ Send(j) \/ SendFails(j) \/ Await(j) \/ FinishPass(j)
      PROVE  OrderInv' /\ OnceInv'
  BY <1>2, BeginJobOnce, ExecutorSettlesOnce, CheckPolicyOnce, BeginRowOnce, SendOnce,
     SendFailsOnce, AwaitOnce, FinishPassOnce, Zenon
<1>3. ASSUME NEW j \in Job,
             \/ AppSend(j) \/ AppAcknowledges(j) \/ AppSeesMined(j) \/ AppSeesFailed(j) \/ CloseApp(j)
      PROVE  OrderInv' /\ OnceInv'
  BY <1>3, AppSendOnce, AppAcknowledgesOnce, AppSeesMinedOnce, AppSeesFailedOnce,
     CloseAppOnce, Zenon
<1>4. ASSUME NEW k \in DOMAIN ops, Mine(k) \/ Index(k)
      PROVE  OrderInv' /\ OnceInv'
  BY <1>4, ChainOnce
<1>. QED
  BY <1>1, <1>2, <1>3, <1>4, CrashOnce, NothingOrdered, Zenon DEF Next

LEMMA AtMostOneIsOne ==
  ASSUME NEW S, \A k, l \in S : k = l
  PROVE  Cardinality(S) <= 1
<1>1. CASE S = {}
  BY <1>1, FS_EmptySet
<1>2. CASE S # {}
  <2>1. PICK k : k \in S
    BY <1>2
  <2>2. S = {k}
    BY <2>1
  <2>3. Cardinality(S) = 1
    BY <2>2, FS_Singleton
  <2>. QED
    BY <2>3
<1>. QED
  BY <1>1, <1>2

\* A row whose operations' ends were all seen, of a job whose resumes kept out
\* of the executor's way, is executed at most once: a retry, a resume, a late
\* report and a crash find it confirmed, blocked, or in flight.
THEOREM PaidOnce == Spec => []PaidOnceIfSeenAndSerial
<1>1. OrderedInv => PaidOnceIfSeenAndSerial
  <2>. SUFFICES ASSUME OrderedInv, NEW j \in Job \ raced, NEW r \in RowsOf[j], <<j, r>> \notin unseen
                PROVE  Cardinality(Payments(j, r)) <= 1
    BY DEF PaidOnceIfSeenAndSerial
  <2>1. \A k, l \in Live(j, r) : k = l
    BY OnceWas DEF RowOnce
  <2>2. Payments(j, r) \subseteq Live(j, r)
    BY DEF Payments, Live
  <2>. QED
    BY <2>1, <2>2, AtMostOneIsOne
<1>. QED
  BY InitOrdered, OrderedIsInductive, <1>1, PTL DEF Spec

-----------------------------------------------------------------------------
(* Autopilot jobs and what is known to be paid *)

\* What was known to be paid when an autopilot file was read is flagged,
\* never selected and never sent.
KnownOK(j) ==
  /\ \A r \in RowsOf[j] : Content[j][r] \in known[j] => row[j][r].duplicate
  /\ exec[j].pc \in {"pay", "send", "wait"} => \A r \in exec[j].sel : Content[j][r] \notin known[j]
  /\ \A k \in DOMAIN ops : ops[k].job = j => \A r \in ops[k].rows : Content[j][r] \notin known[j]

KnownInv ==
  /\ known \in [Job -> {known[j] : j \in Job}]
  /\ \A j \in Job : Source[j] = "autopilot" => KnownOK(j)

\* What most steps leave alone: the flags of the rows; and whom a pass selects
\* is not flagged, and an operation sent for an autopilot job is of its selection.
FlagsKept == \A j \in Job : \A r \in RowsOf[j] : row'[j][r].duplicate = row[j][r].duplicate

SelectionsKept ==
  \A j \in Job : Source[j] = "autopilot" /\ exec'[j].pc \in {"pay", "send", "wait"} =>
    \/ exec[j].pc \in {"pay", "send", "wait"} /\ exec'[j].sel \subseteq exec[j].sel
    \/ exec'[j].sel \subseteq Executable(j, row[j], job[j].allow)

SentKept ==
  \A k \in DOMAIN ops' :
    \/ k \in DOMAIN ops /\ ops'[k].job = ops[k].job /\ ops'[k].rows = ops[k].rows
    \/ \E j \in Job : /\ ops'[k].job = j
                      /\ \/ Source[j] = "user"
                         \/ exec[j].pc = "send" /\ ops'[k].rows \subseteq exec[j].sel

LEMMA KnownFrom ==
  ASSUME KnownInv, FlagsKept, SelectionsKept, SentKept, UNCHANGED known
  PROVE  KnownInv'
<1>. SUFFICES ASSUME NEW j \in Job, Source[j] = "autopilot"
              PROVE  KnownOK(j)'
  BY DEF KnownInv
<1>1. KnownOK(j)
  BY DEF KnownInv
<1>2. \A r \in RowsOf[j] : Content[j][r] \in known'[j] => row'[j][r].duplicate
  BY <1>1 DEF KnownOK, FlagsKept
<1>3. \A r \in Executable(j, row[j], job[j].allow) : Content[j][r] \notin known[j]
  BY <1>1 DEF KnownOK, Executable
<1>4. exec'[j].pc \in {"pay", "send", "wait"} => \A r \in exec'[j].sel : Content[j][r] \notin known'[j]
  BY <1>1, <1>3 DEF KnownOK, SelectionsKept
<1>5. ASSUME NEW k \in DOMAIN ops', ops'[k].job = j, NEW r \in ops'[k].rows
      PROVE  Content[j][r] \notin known'[j]
  BY <1>1, <1>5 DEF KnownOK, SentKept
<1>. QED
  BY <1>2, <1>4, <1>5 DEF KnownOK

\* What keeps the flags.
LEMMA FlagsOfPatch ==
  ASSUME OrderedInv, NEW j \in Job,
         \/ UNCHANGED row
         \/ \E R, status : row' = WithStatus(j, R, status)
         \/ \E R, status, k : row' = Recorded(j, R, status, k)
  PROVE  FlagsKept
<1>1. CASE UNCHANGED row
  BY <1>1 DEF FlagsKept
<1>2. ASSUME NEW R, NEW status, row' = WithStatus(j, R, status)
      PROVE  FlagsKept
  <2>1. /\ \A i \in Job \ {j} : row'[i] = row[i]
        /\ \A r \in RowsOf[j] : row'[j][r].duplicate = row[j][r].duplicate
    BY <1>2, StatusOfRows
  <2>. QED
    BY <2>1 DEF FlagsKept
<1>3. ASSUME NEW R, NEW status, NEW k, row' = Recorded(j, R, status, k)
      PROVE  FlagsKept
  <2>1. /\ \A i \in Job \ {j} : row'[i] = row[i]
        /\ \A r \in RowsOf[j] : row'[j][r].duplicate = row[j][r].duplicate
    BY <1>3, RecordOfRows
  <2>. QED
    BY <2>1 DEF FlagsKept
<1>. QED
  BY <1>1, <1>2, <1>3

LEMMA FlagsOfSettle ==
  ASSUME OrderedInv, NEW j \in Job, NEW e, Settle(j, e)
  PROVE  FlagsKept
<1>1. UNCHANGED row \/ \E R, status : row' = WithStatus(j, R, status)
  BY DEF Settle
<1>. QED
  BY <1>1, FlagsOfPatch

\* What keeps the selections.
LEMMA SelectionsOfPass ==
  ASSUME OrderedInv, NEW j \in Job, NEW y, exec' = [exec EXCEPT ![j] = y],
         \/ y.pc \notin {"pay", "send", "wait"}
         \/ exec[j].pc \in {"pay", "send", "wait"} /\ y.sel \subseteq exec[j].sel
         \/ y.sel \subseteq Executable(j, row[j], job[j].allow)
  PROVE  SelectionsKept
<1>1. exec'[j] = y /\ \A i \in Job \ {j} : exec'[i] = exec[i]
  BY JobTyped
<1>. QED
  BY <1>1 DEF SelectionsKept

LEMMA NothingSent ==
  ASSUME UNCHANGED ops
  PROVE  SentKept
BY DEF SentKept

LEMMA NothingSelected ==
  ASSUME UNCHANGED exec
  PROVE  SelectionsKept
BY DEF SelectionsKept

LEMMA SentFor ==
  ASSUME OrderedInv, NEW j \in Job, NEW R \in SUBSET RowsOf[j], Accepted(j, R),
         Source[j] = "user" \/ (exec[j].pc = "send" /\ R \subseteq exec[j].sel)
  PROVE  SentKept
<1>1. \A k \in DOMAIN ops' :
              \/ k \in DOMAIN ops /\ ops'[k].job = ops[k].job /\ ops'[k].rows = ops[k].rows
              \/ k = Len(ops) + 1 /\ ops'[k].job = j /\ ops'[k].rows = R
  BY LiveAccepted DEF OrderedInv
<1>. QED
  BY <1>1 DEF SentKept

\* Reading a file flags everything confirmed.
LEMMA DetectDuplicatesKnown ==
  ASSUME OrderedInv, KnownInv, NEW j \in Job, DetectDuplicates(j)
  PROVE  KnownInv'
<1>1. PICK K : K = UNION {ContentsWith(i, {"confirmed"}) : i \in Remembered}
  OBVIOUS
<1>2. /\ UNCHANGED exec /\ UNCHANGED ops /\ job[j].status = "none"
      /\ known' = [known EXCEPT ![j] = K]
  BY <1>1 DEF DetectDuplicates
<1>3. known'[j] = K /\ \A i \in Job \ {j} : known'[i] = known[i]
  BY <1>2 DEF KnownInv
<1>4. known' \in [Job -> {known'[i] : i \in Job}]
  BY <1>2 DEF KnownInv
<1>5. K \subseteq HistoryKeys
  BY <1>1 DEF HistoryKeys, ContentsWith
<1>6. PICK registry \in SUBSET ReceiptKeys :
        row' = [row EXCEPT ![j] = [r \in RowsOf[j] |->
                 [row[j][r] EXCEPT !.duplicate =
                    RepeatedInFile(j, r) \/ Content[j][r] \in HistoryKeys \cup registry]]]
  BY DEF DetectDuplicates
<1>7. PICK f : f = [r \in RowsOf[j] |->
                 [row[j][r] EXCEPT !.duplicate =
                    RepeatedInFile(j, r) \/ Content[j][r] \in HistoryKeys \cup registry]]
  OBVIOUS
<1>8. row'[j] = f /\ \A i \in Job \ {j} : row'[i] = row[i]
  BY <1>6, <1>7, JobTyped
<1>9. ASSUME NEW r \in RowsOf[j], Content[j][r] \in K
      PROVE  f[r].duplicate
  <2>1. row[j][r] \in RowRecord
    BY RowTyped DEF OrderedInv
  <2>2. PICK d : d = (RepeatedInFile(j, r) \/ Content[j][r] \in HistoryKeys \cup registry)
    OBVIOUS
  <2>3. d
    BY <1>5, <1>9, <2>2
  <2>4. f[r] = [row[j][r] EXCEPT !.duplicate = d]
    BY <1>7, <2>2, Zenon
  <2>5. f[r].duplicate = d
    BY <2>1, <2>4, Zenon DEF RowRecord
  <2>. QED
    BY <2>3, <2>5
<1>10. Fresh(j)
  BY <1>2, JobTyped DEF Orderly
<1>11. ASSUME NEW i \in Job, Source[i] = "autopilot"
       PROVE  KnownOK(i)'
  <2>1. CASE i = j
    <3>1. \A r \in RowsOf[i] : Content[i][r] \in known'[i] => row'[i][r].duplicate
      BY <1>3, <1>8, <1>9, <2>1
    <3>. QED
      BY <1>2, <1>10, <2>1, <3>1 DEF KnownOK, Fresh
  <2>2. CASE i # j
    <3>1. row'[i] = row[i] /\ known'[i] = known[i]
      BY <1>3, <1>8, <2>2
    <3>. QED
      BY <1>2, <1>11, <3>1 DEF KnownInv, KnownOK
  <2>. QED
    BY <2>1, <2>2
<1>. QED
  BY <1>4, <1>11 DEF KnownInv

LEMMA PreviewFlags ==
  ASSUME OrderedInv, NEW j \in Job, Preview(j)
  PROVE  FlagsKept
<1>1. PICK f, ok : /\ row' = [row EXCEPT ![j] = f]
                   /\ f = [r \in RowsOf[j] |->
                             LET verdict == IF r \in ok THEN "valid" ELSE "blocked" IN
                             [row[j][r] EXCEPT !.status = verdict, !.policy = verdict]]
  BY DEF Preview
<1>2. row'[j] = f /\ \A i \in Job \ {j} : row'[i] = row[i]
  BY <1>1, JobTyped
<1>3. ASSUME NEW r \in RowsOf[j]
      PROVE  f[r].duplicate = row[j][r].duplicate
  <2>1. row[j][r] \in RowRecord
    BY RowTyped DEF OrderedInv
  <2>2. PICK v : f[r] = [row[j][r] EXCEPT !.status = v, !.policy = v]
    BY <1>1
  <2>. QED
    BY <2>1, <2>2 DEF RowRecord
<1>. QED
  BY <1>2, <1>3 DEF FlagsKept

LEMMA ApproveFlags ==
  ASSUME OrderedInv, NEW j \in Job, NEW removed, NEW allow, Approve(j, removed, allow)
  PROVE  FlagsKept
<1>1. PICK f : f = [r \in RowsOf[j] |->
               IF r \in removed
               THEN [row[j][r] EXCEPT !.status = "blocked", !.policy = "blocked"]
               ELSE row[j][r]]
  OBVIOUS
<1>2. row'[j] = f /\ \A i \in Job \ {j} : row'[i] = row[i]
  BY <1>1, JobTyped DEF Approve
<1>3. ASSUME NEW r \in RowsOf[j]
      PROVE  f[r].duplicate = row[j][r].duplicate
  <2>1. row[j][r] \in RowRecord
    BY RowTyped DEF OrderedInv
  <2>2. \/ f[r] = row[j][r]
        \/ f[r] = [row[j][r] EXCEPT !.status = "blocked", !.policy = "blocked"]
    BY <1>1
  <2>. QED
    BY <2>1, <2>2 DEF RowRecord
<1>. QED
  BY <1>2, <1>3 DEF FlagsKept

\* What happens to a job before and between its passes.
LEMMA IntakeKnown ==
  ASSUME OrderedInv, KnownInv, NEW j \in Job,
         \/ Preview(j) \/ Cancel(j) \/ \E removed, allow : Approve(j, removed, allow)
         \/ StartResume(j) \/ ResumeSettles(j) \/ FinishResume(j)
  PROVE  KnownInv'
<1>1. UNCHANGED exec /\ UNCHANGED ops /\ UNCHANGED known
  BY DEF Preview, Cancel, Approve, StartResume, ResumeSettles, FinishResume, history
<1>2. FlagsKept
  <2>1. CASE Cancel(j) \/ FinishResume(j)
    BY <2>1, FlagsOfPatch DEF Cancel, FinishResume
  <2>2. CASE StartResume(j)
    <3>1. row' = SettledAtOnce(j)
      BY <2>2 DEF StartResume
    <3>2. PICK R, status : R = {e.row : e \in AtOnce(j)} /\ status = "valid"
      OBVIOUS
    <3>3. row' = WithStatus(j, R, status)
      BY <3>1, <3>2 DEF SettledAtOnce
    <3>. QED
      BY <3>3, FlagsOfPatch
  <2>3. CASE ResumeSettles(j)
    BY <2>3, FlagsOfSettle DEF ResumeSettles
  <2>. QED
    BY <2>1, <2>2, <2>3, PreviewFlags, ApproveFlags
<1>. QED
  BY <1>1, <1>2, NothingSent, NothingSelected, KnownFrom

LEMMA PassKnown ==
  ASSUME OrderedInv, KnownInv, NEW j \in Job,
         \/ BeginJob(j) \/ ExecutorSettles(j) \/ CheckPolicy(j) \/ BeginRow(j)
         \/ Send(j) \/ SendFails(j) \/ Await(j) \/ FinishPass(j)
  PROVE  KnownInv'
<1>1. UNCHANGED known
  BY DEF BeginJob, ExecutorSettles, CheckPolicy, BeginRow, Send, SendFails, Await, FinishPass, history
<1>2. PICK x : x = exec[j]
  OBVIOUS
<1>3. x \in PassState
  BY <1>2, JobTyped
<1>4. ASSUME NextRow(j), x.pc \in {"pay", "send", "wait"}
      PROVE  SelectionsKept
  <2>1. PICK y : /\ exec' = [exec EXCEPT ![j] = y]
                 /\ y.pc = "pay" /\ y.sel = exec[j].sel \ {Least(exec[j].sel)}
    BY <1>4, NextRowFrame
  <2>2. exec[j].pc \in {"pay", "send", "wait"} /\ y.sel \subseteq exec[j].sel
    BY <1>2, <1>4, <2>1
  <2>. QED
    BY <2>1, <2>2, SelectionsOfPass
<1>5. ASSUME NEW y, exec' = [exec EXCEPT ![j] = y], y.pc \in {"idle", "reconcile", "policy"}
      PROVE  SelectionsKept
  BY <1>5, SelectionsOfPass
<1>6. ASSUME NEW y, exec' = [exec EXCEPT ![j] = y], x.pc \in {"pay", "send"}, y.sel = x.sel
      PROVE  SelectionsKept
  BY <1>2, <1>6, SelectionsOfPass
<1>7. CASE BeginJob(j)
  <2>1. PICK R, status, y : /\ R = {e.row : e \in AtOnce(j)} /\ status = "valid"
                            /\ y = [Resting EXCEPT !.pc = "reconcile", !.todo = InFlight(j) \ AtOnce(j)]
    OBVIOUS
  <2>2. row' = WithStatus(j, R, status) /\ exec' = [exec EXCEPT ![j] = y] /\ UNCHANGED ops
    BY <1>7, <2>1 DEF BeginJob, SettledAtOnce
  <2>3. y.pc = "reconcile"
    BY <2>1 DEF Resting
  <2>. QED
    BY <1>1, <1>5, <2>2, <2>3, FlagsOfPatch, NothingSent, KnownFrom
<1>8. CASE ExecutorSettles(j)
  <2>1. PICK todo, e : todo = x.todo /\ e = First(todo)
    OBVIOUS
  <2>2. PICK y : y = IF todo = {} THEN [x EXCEPT !.pc = "policy"] ELSE [x EXCEPT !.todo = @ \ {e}]
    OBVIOUS
  <2>3. exec' = [exec EXCEPT ![j] = y] /\ UNCHANGED ops /\ x.pc = "reconcile"
    BY <1>2, <1>8, <2>1, <2>2 DEF ExecutorSettles
  <2>4. y.pc \in {"idle", "reconcile", "policy"}
    BY <1>3, <2>2, <2>3 DEF PassState
  <2>5. FlagsKept
    <3>1. UNCHANGED row \/ Settle(j, e)
      BY <1>2, <1>8, <2>1 DEF ExecutorSettles
    <3>. QED
      BY <3>1, FlagsOfSettle, FlagsOfPatch
  <2>. QED
    BY <1>1, <1>5, <2>3, <2>4, <2>5, NothingSent, KnownFrom
<1>9. CASE CheckPolicy(j)
  <2>1. UNCHANGED row /\ UNCHANGED ops
    BY <1>9 DEF CheckPolicy
  <2>2. SelectionsKept
    <3>1. CASE exec' = [exec EXCEPT ![j] = Resting]
      <4>1. Resting.pc = "idle"
        BY DEF Resting
      <4>. QED
        BY <1>5, <3>1, <4>1
    <3>2. CASE SelectRows(j)
      <4>1. PICK sel, y : /\ sel = Executable(j, row[j], job[j].allow)
                          /\ y = [x EXCEPT !.pc = "pay", !.sel = sel]
        OBVIOUS
      <4>2. y.sel = sel
        BY <1>3, <4>1 DEF PassState
      <4>3. exec' = [exec EXCEPT ![j] = y]
        BY <1>2, <3>2, <4>1 DEF SelectRows
      <4>. QED
        BY <4>1, <4>2, <4>3, SelectionsOfPass
    <3>. QED
      BY <1>9, <3>1, <3>2 DEF CheckPolicy, PolicyLost, PolicyUnread
  <2>. QED
    BY <1>1, <2>1, <2>2, FlagsOfPatch, NothingSent, KnownFrom
<1>10. CASE BeginRow(j)
  <2>1. UNCHANGED ops /\ x.pc = "pay"
    BY <1>2, <1>10 DEF BeginRow
  <2>2. FlagsKept
    <3>1. UNCHANGED row \/ \E R, status : row' = WithStatus(j, R, status)
      BY <1>10 DEF BeginRow
    <3>. QED
      BY <3>1, FlagsOfPatch
  <2>3. SelectionsKept
    <3>1. CASE NextRow(j)
      BY <1>4, <2>1, <3>1
    <3>2. CASE exec' = [exec EXCEPT ![j].pc = "send"]
      <4>1. PICK y : y = [x EXCEPT !.pc = "send"]
        OBVIOUS
      <4>2. y.sel = x.sel
        BY <1>3, <4>1 DEF PassState
      <4>3. exec' = [exec EXCEPT ![j] = y]
        BY <1>2, <3>2, <4>1
      <4>. QED
        BY <1>6, <2>1, <4>2, <4>3
    <3>. QED
      BY <1>10, <3>1, <3>2 DEF BeginRow
  <2>. QED
    BY <1>1, <2>1, <2>2, <2>3, NothingSent, KnownFrom
<1>11. CASE Send(j)
  <2>1. PICK R, y : R = {Current(j)} /\ y = [x EXCEPT !.pc = "wait", !.op = Len(ops) + 1]
    OBVIOUS
  <2>2. UNCHANGED row /\ x.pc = "send" /\ Accepted(j, R) /\ exec' = [exec EXCEPT ![j] = y]
    BY <1>2, <1>11, <2>1 DEF Send, store
  <2>3. y.sel = x.sel
    BY <1>3, <2>1 DEF PassState
  <2>4. R \in SUBSET RowsOf[j] /\ R \subseteq exec[j].sel /\ exec[j].pc = "send"
    BY <1>2, <2>1, <2>2, CurrentIsSelected
  <2>. QED
    BY <1>1, <1>6, <2>2, <2>3, <2>4, FlagsOfPatch, SentFor, KnownFrom
<1>12. CASE SendFails(j)
  <2>1. PICK R, status : R = {Current(j)} /\ status = "failed"
    OBVIOUS
  <2>2. /\ x.pc = "send" /\ row' = WithStatus(j, R, status) /\ NextRow(j)
        /\ Accepted(j, R) \/ UNCHANGED ops
    BY <1>2, <1>12, <2>1 DEF SendFails
  <2>3. R \in SUBSET RowsOf[j] /\ R \subseteq exec[j].sel /\ exec[j].pc = "send"
    BY <1>2, <2>1, <2>2, CurrentIsSelected
  <2>4. SentKept
    BY <2>2, <2>3, SentFor, NothingSent
  <2>. QED
    BY <1>1, <1>4, <2>2, <2>4, FlagsOfPatch, KnownFrom
<1>13. CASE Await(j)
  <2>1. UNCHANGED ops /\ NextRow(j) /\ x.pc = "wait" /\ \E R, status, k : row' = Recorded(j, R, status, k)
    BY <1>2, <1>13 DEF Await
  <2>. QED
    BY <1>1, <1>4, <2>1, FlagsOfPatch, NothingSent, KnownFrom
<1>14. CASE FinishPass(j)
  <2>1. PICK y : y = Resting
    OBVIOUS
  <2>2. y.pc = "idle" /\ exec' = [exec EXCEPT ![j] = y] /\ UNCHANGED row /\ UNCHANGED ops
    BY <1>14, <2>1 DEF Resting, FinishPass
  <2>. QED
    BY <1>1, <1>5, <2>2, FlagsOfPatch, NothingSent, KnownFrom
<1>. QED
  BY <1>7, <1>8, <1>9, <1>10, <1>11, <1>12, <1>13, <1>14

LEMMA AppKnown ==
  ASSUME OrderedInv, KnownInv, NEW j \in Job,
         AppSend(j) \/ AppAcknowledges(j) \/ AppSeesMined(j) \/ AppSeesFailed(j) \/ CloseApp(j)
  PROVE  KnownInv'
<1>1. UNCHANGED known /\ UNCHANGED exec
  BY DEF AppSend, AppAcknowledges, AppSeesMined, AppSeesFailed, CloseApp, history, store
<1>2. FlagsKept
  <2>1. UNCHANGED row \/ \E R, status, k : row' = Recorded(j, R, status, k)
    BY DEF AppSend, AppAcknowledges, AppSeesMined, AppSeesFailed, CloseApp, Report, store
  <2>. QED
    BY <2>1, FlagsOfPatch
<1>3. SentKept
  <2>1. CASE AppSend(j)
    <3>1. PICK R : R = NextChunk(j, app[j].plan)
      OBVIOUS
    <3>2. Accepted(j, R) /\ app[j].pc \in {"send", "wait"}
      BY <2>1, <3>1 DEF AppSend, Chunk
    <3>3. R \in SUBSET RowsOf[j] /\ Source[j] = "user"
      BY <3>1, <3>2, ChunkIsPlanned, AppAtWork
    <3>. QED
      BY <3>2, <3>3, SentFor
  <2>2. CASE UNCHANGED ops
    BY <2>2, NothingSent
  <2>. QED
    BY <2>1, <2>2 DEF AppAcknowledges, AppSeesMined, AppSeesFailed, CloseApp
<1>. QED
  BY <1>1, <1>2, <1>3, NothingSelected, KnownFrom

LEMMA OthersKnown ==
  ASSUME OrderedInv, KnownInv,
         Crash \/ (\E k \in DOMAIN ops : Mine(k) \/ Index(k)) \/ UNCHANGED vars
  PROVE  KnownInv'
<1>1. UNCHANGED row /\ UNCHANGED known
  BY DEF Crash, Mine, Index, vars, store, history
<1>2. FlagsKept
  BY <1>1 DEF FlagsKept
<1>3. SelectionsKept
  <2>1. CASE UNCHANGED exec
    BY <2>1, NothingSelected
  <2>2. CASE exec' = [j \in Job |-> Resting]
    BY <2>2 DEF SelectionsKept, Resting
  <2>. QED
    BY <2>1, <2>2 DEF Crash, Mine, Index, vars
<1>4. SentKept
  <2>1. CASE UNCHANGED ops
    BY <2>1, NothingSent
  <2>2. CASE \E k \in DOMAIN ops : Mine(k) \/ Index(k)
    <3>1. PICK k \in DOMAIN ops : Mine(k) \/ Index(k)
      BY <2>2
    <3>2. ops \in Seq(Operation)
      BY DEF OrderedInv, ImportInv
    <3>3. PICK o : ops' = [ops EXCEPT ![k] = o] /\ o.job = ops[k].job /\ o.rows = ops[k].rows
      BY <3>1, <3>2, ChainStep
    <3>4. DOMAIN ops' = DOMAIN ops /\ \A m \in DOMAIN ops : ops'[m] = IF m = k THEN o ELSE ops[m]
      BY <3>2, <3>3
    <3>. QED
      BY <3>3, <3>4 DEF SentKept
  <2>. QED
    BY <2>1, <2>2 DEF Crash, vars
<1>. QED
  BY <1>1, <1>2, <1>3, <1>4, KnownFrom

LEMMA InitKnown == Init => KnownInv
<1>. SUFFICES ASSUME NothingRuns PROVE KnownInv
  BY DEF Init
<1>1. known = [j \in Job |-> {}] /\ ops = << >> /\ exec = [j \in Job |-> Resting]
  BY DEF NothingRuns
<1>2. known \in [Job -> {known[j] : j \in Job}]
  BY <1>1
<1>. QED
  BY <1>1, <1>2 DEF KnownInv, KnownOK, Resting

LEMMA KnownIsInductive == OrderedInv /\ KnownInv /\ [Next]_vars => KnownInv'
<1>. SUFFICES ASSUME OrderedInv, KnownInv, [Next]_vars PROVE KnownInv'
  OBVIOUS
<1>1. ASSUME NEW j \in Job,
             \/ DetectDuplicates(j) \/ Preview(j) \/ Cancel(j)
             \/ \E removed \in SUBSET RowsOf[j], allow \in Overrides(j) : Approve(j, removed, allow)
             \/ StartResume(j) \/ ResumeSettles(j) \/ FinishResume(j)
      PROVE  KnownInv'
  BY <1>1, DetectDuplicatesKnown, IntakeKnown, Zenon
<1>. QED
  BY <1>1, PassKnown, AppKnown, OthersKnown, Zenon DEF Next

\* Nothing is sent for an autopilot job that was known to be paid when its file
\* was read, whatever was resumed, settled or reported since.
THEOREM KnownAreLeftAlone == Spec => []KnownPaymentsNotRepeated
<1>1. OrderedInv /\ KnownInv => KnownPaymentsNotRepeated
  <2>. SUFFICES ASSUME OrderedInv, KnownInv, NEW k \in DOMAIN ops, Source[ops[k].job] = "autopilot",
                       NEW r \in ops[k].rows
                PROVE  Content[ops[k].job][r] \notin known[ops[k].job]
    BY DEF KnownPaymentsNotRepeated
  <2>1. ops[k] \in Operation
    BY DEF OrderedInv, ImportInv
  <2>2. ops[k].job \in Job
    BY <2>1 DEF Operation
  <2>. QED
    BY <2>2 DEF KnownInv, KnownOK
<1>. QED
  BY InitOrdered, OrderedIsInductive, InitKnown, KnownIsInductive, <1>1, PTL DEF Spec
-----------------------------------------------------------------------------
(***************************************************************************)
(* One file.  The severity of a row is that of its duplicates when it was  *)
(* looked at, after the last row was resolved.                             *)
(***************************************************************************)

IsList(s) == \E S : s \in Seq(S)

Judged ==
  fileStage \in {"deduped", "previewed"} =>
    \E receipted : severity = [i \in DOMAIN prepared |-> Severity(i, PaidBefore, receipted)]

RecordsFit ==
  fileStage = "previewed" =>
    \E verdict : records = [i \in DOMAIN prepared |-> RecordOf(i, verdict[i])]

FileInv == IsList(prepared) /\ Judged /\ RecordsFit

LEMMA ListGrows == ASSUME NEW s, IsList(s), NEW x PROVE IsList(Append(s, x))
<1>1. PICK S : s \in Seq(S)
  BY DEF IsList
<1>2. PICK T : T = S \cup {x}
  OBVIOUS
<1>3. s \in Seq(T) /\ x \in T
  BY <1>1, <1>2
<1>4. Append(s, x) \in Seq(T)
  BY <1>3
<1>. QED
  BY <1>4 DEF IsList

LEMMA ListIsFinite == ASSUME NEW s, IsList(s) PROVE IsFiniteSet(DOMAIN s)
<1>1. PICK S : s \in Seq(S)
  BY DEF IsList
<1>2. Len(s) \in Nat /\ DOMAIN s = 1..Len(s)
  BY <1>1
<1>3. IsFiniteSet(1..Len(s))
  BY <1>2, FS_Interval
<1>. QED
  BY <1>2, <1>3

LEMMA FileInitially == FileInit => FileInv
<1>1. << >> \in Seq({})
  OBVIOUS
<1>. QED
  BY <1>1 DEF FileInit, FileInv, IsList, Judged, RecordsFit

LEMMA FileKept == FileInv /\ [FileNext]_fileVars => FileInv'
<1>. SUFFICES ASSUME FileInv, [FileNext]_fileVars PROVE FileInv'
  OBVIOUS
<1>1. CASE Upload
  BY <1>1 DEF Upload, FileInv, IsList, Judged, RecordsFit
<1>2. CASE Parse
  BY <1>2 DEF Parse, FileInv, IsList, Judged, RecordsFit
<1>3. CASE ResolveRow
  <2>1. \E x : prepared' = Append(prepared, x)
    BY <1>3 DEF ResolveRow
  <2>2. IsList(prepared)'
    BY <2>1, ListGrows DEF FileInv, IsList
  <2>. QED
    BY <1>3, <2>2 DEF ResolveRow, FileInv, Judged, RecordsFit
<1>4. CASE Detect
  <2>1. PICK receipted : severity' = [i \in DOMAIN prepared |-> Severity(i, PaidBefore, receipted)]
    BY <1>4 DEF Detect
  <2>2. \A i, earlier, seen : Severity(i, earlier, seen)' = Severity(i, earlier, seen)
    BY <1>4 DEF Detect, Severity, DedupeRows, Repeats, ContentKey, SameRecipientAmount, Collides
  <2>3. Judged'
    BY <1>4, <2>1, <2>2 DEF Detect, Judged
  <2>. QED
    BY <1>4, <2>3 DEF Detect, FileInv, IsList, RecordsFit
<1>5. CASE StoreRecords
  <2>1. PICK verdict : records' = [i \in DOMAIN prepared |-> RecordOf(i, verdict[i])]
    BY <1>5 DEF StoreRecords
  <2>2. \A i, verdictOf : RecordOf(i, verdictOf)' = RecordOf(i, verdictOf)
    BY <1>5 DEF StoreRecords, RecordOf
  <2>3. \A i, earlier, seen : Severity(i, earlier, seen)' = Severity(i, earlier, seen)
    BY <1>5 DEF StoreRecords, Severity, DedupeRows, Repeats, ContentKey, SameRecipientAmount, Collides
  <2>4. RecordsFit'
    BY <1>5, <2>1, <2>2 DEF StoreRecords, RecordsFit
  <2>5. Judged'
    BY <1>5, <2>3 DEF StoreRecords, FileInv, Judged
  <2>. QED
    BY <1>5, <2>4, <2>5 DEF StoreRecords, FileInv, IsList
<1>6. CASE UNCHANGED fileVars
  <2>1. UNCHANGED <<fileSource, fileStage, prepared, severity, records>>
    BY <1>6 DEF fileVars
  <2>2. \A i, verdictOf : RecordOf(i, verdictOf)' = RecordOf(i, verdictOf)
    BY <2>1 DEF RecordOf
  <2>3. \A i, earlier, seen : Severity(i, earlier, seen)' = Severity(i, earlier, seen)
    BY <2>1 DEF Severity, DedupeRows, Repeats, ContentKey, SameRecipientAmount, Collides
  <2>. QED
    BY <2>1, <2>2, <2>3 DEF FileInv, IsList, Judged, RecordsFit
<1>. QED
  BY <1>1, <1>2, <1>3, <1>4, <1>5, <1>6 DEF FileNext

\* Two rows of one recipient, amount and type: either their content is the same
\* or their group has more than one.
LEMMA TwinsRepeat ==
  ASSUME IsList(prepared), NEW i \in DedupeRows, NEW j \in DedupeRows, i # j, NEW earlier,
         prepared[i].to = prepared[j].to, prepared[i].amount = prepared[j].amount,
         prepared[i].type = prepared[j].type
  PROVE  Repeats(i, earlier)
<1>1. CASE ContentKey(prepared[i]) = ContentKey(prepared[j])
  BY <1>1 DEF Repeats
<1>2. CASE ContentKey(prepared[i]) # ContentKey(prepared[j])
  <2>1. PICK key : key = [k \in SameRecipientAmount(i) |-> ContentKey(prepared[k])]
    OBVIOUS
  <2>2. PICK keys : keys = {ContentKey(prepared[k]) : k \in SameRecipientAmount(i)}
    OBVIOUS
  <2>3. key \in Surjection(SameRecipientAmount(i), keys)
    BY <2>1, <2>2 DEF Surjection
  <2>4. IsFiniteSet(SameRecipientAmount(i))
    <3>1. SameRecipientAmount(i) \subseteq DOMAIN prepared
      BY DEF SameRecipientAmount, DedupeRows
    <3>. QED
      BY <3>1, ListIsFinite, FS_Subset
  <2>5. IsFiniteSet(keys)
    BY <2>3, <2>4, FS_Surjection
  <2>6. PICK a, b : a = ContentKey(prepared[i]) /\ b = ContentKey(prepared[j])
    OBVIOUS
  <2>7. a \in keys /\ b \in keys /\ a # b
    BY <1>2, <2>2, <2>6 DEF SameRecipientAmount
  <2>8. Cardinality(keys) > 1
    <3>1. IsFiniteSet({a}) /\ Cardinality({a}) = 1 /\ {a} \subseteq keys /\ {a} # keys
      BY <2>7, FS_Singleton
    <3>2. Cardinality({a}) < Cardinality(keys)
      BY <2>5, <3>1, FS_Subset, FS_CardinalityType
    <3>. QED
      BY <3>1, <3>2
  <2>. QED
    BY <2>2, <2>8 DEF Repeats
<1>. QED
  BY <1>1, <1>2

\* However recipients, amounts, memos and schedules are written: a file pays or
\* subscribes nobody to the same amount twice (detectDuplicates,
\* severityForType, selectExecutableRows).
THEOREM FilePaysEveryoneOnce == FileInit /\ [][FileNext]_fileVars => []FilePaysOnce
<1>1. FileInv => FilePaysOnce
  <2>. SUFFICES ASSUME FileInv, fileStage = "previewed",
                       NEW i \in Selected(FALSE), NEW j \in Selected(FALSE), i # j,
                       records[i].type = records[j].type, records[i].type # <<"request">>,
                       records[i].to = records[j].to, records[i].amount = records[j].amount
                PROVE  FALSE
    BY DEF FilePaysOnce
  <2>1. PICK verdict : records = [k \in DOMAIN prepared |-> RecordOf(k, verdict[k])]
    BY DEF FileInv, RecordsFit
  <2>2. PICK receipted : severity = [k \in DOMAIN prepared |-> Severity(k, PaidBefore, receipted)]
    BY DEF FileInv, Judged
  <2>3. /\ i \in DOMAIN prepared /\ records[i] = RecordOf(i, verdict[i])
        /\ j \in DOMAIN prepared /\ records[j] = RecordOf(j, verdict[j])
    BY <2>1 DEF Selected
  <2>4. /\ records[i].status = "valid" /\ records[i].severity # "block"
        /\ records[j].status = "valid"
    BY DEF Selected
  <2>5. /\ prepared[i].to # NoAddress /\ prepared[j].to # NoAddress
        /\ severity[i] # "block"
    BY <2>3, <2>4 DEF RecordOf
  <2>6. /\ prepared[i].to = prepared[j].to /\ prepared[i].amount = prepared[j].amount
        /\ prepared[i].type = prepared[j].type /\ prepared[i].type # <<"request">>
    BY <2>3 DEF RecordOf
  <2>7. i \in DedupeRows /\ j \in DedupeRows
    BY <2>3, <2>5 DEF DedupeRows
  <2>8. Repeats(i, PaidBefore)
    BY <2>6, <2>7, TwinsRepeat DEF FileInv
  <2>9. severity[i] = "block"
    BY <2>2, <2>3, <2>6, <2>7, <2>8 DEF Severity, SeverityForType
  <2>. QED
    BY <2>5, <2>9
<1>. QED
  BY FileInitially, FileKept, <1>1, PTL
-----------------------------------------------------------------------------
(***************************************************************************)
(* One file, from the sheet to the records.  What the rows say is what the *)
(* sheet says, and each prepared row is the row at its place, normalised.  *)
(***************************************************************************)
HasRows == fileStage \in {"resolving", "deduped", "previewed"}

RowsSaySheet ==
  /\ Len(rows) = Len(SheetRows(sheet))
  /\ \A k \in 1..Len(rows), col \in Column : rows[k][col] = Says(sheet, k, col)

\* The fields of a prepared row are those of the row, normalised.
Normal(entry, raw) ==
  LET norm == NormalizeRow(raw) IN
  /\ entry.type = norm.type /\ entry.recipient = norm.recipient /\ entry.amount = norm.amount
  /\ entry.memo = norm.memo /\ entry.schedule = norm.schedule
  /\ entry.to # NoAddress => norm.ok

SheetInv ==
  /\ sheet \in Sheets
  /\ fileStage = "text" => text = XlsxToCsv(sheet)
  /\ HasRows => RowsSaySheet
  /\ ~HasRows => prepared = << >>
  /\ \A k \in DOMAIN prepared : Normal(prepared[k], rows[k])
  /\ fileStage \in {"deduped", "previewed"} => Len(prepared) = Len(rows)

LEMMA SheetInitially == FileInit => SheetInv
BY DEF FileInit, SheetInv, HasRows

LEMMA SheetKept ==
  ASSUME EachSheetIsRead, FileInv, SheetInv, [FileNext]_fileVars
  PROVE  SheetInv'
<1>1. CASE Upload
  BY <1>1 DEF Upload, SheetInv, HasRows
<1>2. CASE Parse
  <2>1. fileStage = "text" /\ text = XlsxToCsv(sheet) /\ prepared = << >>
    BY <1>2 DEF Parse, SheetInv, HasRows
  <2> DEFINE parsed == ParseCsvRows(text)
  <2>2. CASE fileStage' = "resolving" /\ ~parsed.error /\ rows' = parsed.rows
    <3>1. /\ Len(rows') = Len(SheetRows(sheet))
          /\ \A k \in 1..Len(rows'), col \in Column : rows'[k][col] = Says(sheet, k, col)
      BY <2>1, <2>2 DEF EachSheetIsRead, SheetInv
    <3>2. RowsSaySheet'
      BY <1>2, <3>1 DEF RowsSaySheet, Parse
    <3> HIDE DEF parsed
    <3> QED
      BY <1>2, <2>1, <2>2, <3>2 DEF Parse, SheetInv, HasRows
  <2>3. CASE fileStage' = "refused"
    BY <1>2, <2>1, <2>3 DEF Parse, SheetInv, HasRows
  <2> QED
    BY <1>2, <2>2, <2>3 DEF Parse
<1>3. CASE ResolveRow
  <2>1. /\ fileStage = "resolving" /\ Len(prepared) < Len(rows)
        /\ UNCHANGED <<sheet, fileStage, text, rows>>
    BY <1>3 DEF ResolveRow
  <2> DEFINE i == Len(prepared) + 1
             norm == NormalizeRow(rows[i])
  <2>2. norm.to = NoAddress
    BY DEF NormalizeRow
  <2>3. PICK entry : prepared' = Append(prepared, entry) /\ Normal(entry, rows[i])
    <3>1. CASE ~norm.ok
      BY <1>3, <2>2, <3>1 DEF ResolveRow, Normal
    <3>2. CASE norm.ok
      <4>1. PICK to : prepared' = Append(prepared, [norm EXCEPT !.to = to])
        BY <1>3, <3>2 DEF ResolveRow
      <4>2. Normal([norm EXCEPT !.to = to], rows[i])
        BY <3>2 DEF Normal, NormalizeRow
      <4> QED
        BY <4>1, <4>2
    <3> QED
      BY <3>1, <3>2
  <2>4. \A k \in DOMAIN prepared' : Normal(prepared'[k], rows[k])
    <3>1. PICK S : prepared \in Seq(S)
      BY DEF FileInv, IsList
    <3>2. DOMAIN prepared' = DOMAIN prepared \cup {i}
      BY <2>3, <3>1
    <3>3. \A k \in DOMAIN prepared : prepared'[k] = prepared[k]
      BY <2>3, <3>1
    <3>4. prepared'[i] = entry
      BY <2>3, <3>1
    <3> QED
      BY <2>3, <3>2, <3>3, <3>4 DEF SheetInv
  <2>5. RowsSaySheet'
    BY <2>1 DEF SheetInv, HasRows, RowsSaySheet
  <2> QED
    BY <2>1, <2>4, <2>5 DEF SheetInv, HasRows
<1>4. CASE Detect \/ StoreRecords
  <2>1. /\ HasRows /\ fileStage' \in {"deduped", "previewed"} /\ Len(prepared) = Len(rows)
        /\ UNCHANGED <<sheet, text, rows, prepared>>
    BY <1>4 DEF Detect, StoreRecords, HasRows, SheetInv
  <2>2. RowsSaySheet'
    BY <2>1 DEF SheetInv, RowsSaySheet
  <2> QED
    BY <2>1, <2>2 DEF SheetInv, HasRows
<1>5. CASE UNCHANGED fileVars
  <2>1. UNCHANGED <<sheet, fileStage, text, rows, prepared>>
    BY <1>5 DEF fileVars
  <2>2. RowsSaySheet' = RowsSaySheet
    BY <2>1 DEF RowsSaySheet
  <2> QED
    BY <2>1, <2>2 DEF SheetInv, HasRows
<1> QED
  BY <1>1, <1>2, <1>3, <1>4, <1>5 DEF FileNext

\* The app reads back the period of the schedule that the service stored.
LEMMA PeriodIsKept ==
  ASSUME NEW cell, ParseSchedule(cell).canonical # NoSchedule
  PROVE  PeriodFromCanonical(ParseSchedule(cell).canonical) = ParseSchedule(cell).period
<1> DEFINE word == IF Len(Trim(cell)) = 1 THEN Trim(cell)[1] ELSE ""
           Made(period, kind, form, n) == [period |-> period, canonical |-> <<kind, form, n>>]
<1>1. OneDay \in Nat /\ OneWeek \in Nat
  BY FileAssumption
<1>2. PICK w : w = word
  OBVIOUS
<1>3. CASE w \in DOMAIN Weekday
  <2>1. ParseSchedule(cell) = Made(OneWeek, "weekly", "n", Weekday[w])
    BY <1>2, <1>3 DEF ParseSchedule
  <2> QED
    BY <2>1 DEF PeriodFromCanonical
<1>4. CASE w \notin DOMAIN Weekday /\ w \in {"daily", "every day"}
  <2>1. PICK spec : spec = ParseSchedule(cell)
    OBVIOUS
  <2>2. spec = [period |-> OneDay, canonical |-> <<"daily", "", 0>>]
    BY <1>2, <1>4, <2>1 DEF ParseSchedule
  <2>3. /\ spec.period = OneDay /\ spec.canonical[1] = "daily"
        /\ spec.canonical[2] # "n" /\ spec.canonical[2] # "every"
    BY <2>2
  <2>4. OneDay = 1 * OneDay
    BY <1>1
  <2>5. PeriodFromCanonical(spec.canonical) = 1 * OneDay
    BY <2>3 DEF PeriodFromCanonical
  <2> QED
    BY <2>1, <2>3, <2>4, <2>5
<1>5. CASE w \notin DOMAIN Weekday /\ w \in {"weekly", "every week"}
  <2>1. PICK spec : spec = ParseSchedule(cell)
    OBVIOUS
  <2>2. spec = [period |-> OneWeek, canonical |-> <<"weekly", "", 0>>]
    BY <1>2, <1>5, <2>1 DEF ParseSchedule
  <2>3. /\ spec.period = OneWeek /\ spec.canonical[1] = "weekly"
        /\ spec.canonical[2] # "n" /\ spec.canonical[2] # "every"
    BY <1>1, <2>2
  <2>4. PeriodFromCanonical(spec.canonical) = OneWeek
    BY <2>3 DEF PeriodFromCanonical
  <2> QED
    BY <2>1, <2>3, <2>4
<1>6. CASE w \notin DOMAIN Weekday /\ w \in {"monthly", "every month"}
  <2>1. PICK spec : spec = ParseSchedule(cell)
    OBVIOUS
  <2>2. spec = [period |-> 30 * OneDay, canonical |-> <<"monthly", "", 0>>]
    BY <1>2, <1>6, <2>1 DEF ParseSchedule
  <2>3. /\ spec.period = 30 * OneDay /\ spec.canonical[1] = "monthly"
        /\ spec.canonical[2] # "n" /\ spec.canonical[2] # "every"
    BY <1>1, <2>2
  <2>4. PeriodFromCanonical(spec.canonical) = 30 * OneDay
    BY <2>3 DEF PeriodFromCanonical
  <2> QED
    BY <2>1, <2>3, <2>4
<1>7. CASE /\ w \notin DOMAIN Weekday
           /\ w \notin {"daily", "every day", "weekly", "every week", "monthly", "every month"}
  <2>1. CASE w \in DOMAIN EveryN /\ EveryN[w].n >= 1 /\ EveryN[w].unit = "day"
    <3>1. ParseSchedule(cell) = Made(EveryN[w].n * OneDay, "daily", "n", EveryN[w].n)
      BY <1>2, <1>7, <2>1 DEF ParseSchedule
    <3> QED
      BY <3>1 DEF PeriodFromCanonical
  <2>2. CASE w \in DOMAIN EveryN /\ EveryN[w].n >= 1 /\ EveryN[w].unit # "day"
    <3>1. ParseSchedule(cell) = Made(EveryN[w].n * OneWeek, "weekly", "every", EveryN[w].n)
      BY <1>2, <1>7, <2>2 DEF ParseSchedule
    <3> QED
      BY <3>1 DEF PeriodFromCanonical
  <2>3. CASE ~(w \in DOMAIN EveryN /\ EveryN[w].n >= 1)
    BY <1>2, <1>7, <2>3 DEF ParseSchedule
  <2> QED
    BY <2>1, <2>2, <2>3
<1> QED
  BY <1>3, <1>4, <1>5, <1>6, <1>7

(***************************************************************************)
(* If what the app writes is what the service reads, the records of a file *)
(* are those of its sheet, whatever the names resolve to and whichever     *)
(* rows are refused (csv-import.ts createJob, BulkImport.tsx).             *)
(***************************************************************************)
THEOREM RecordsComeFromTheSheet ==
  EachSheetIsRead => (FileInit /\ [][FileNext]_fileVars => []RecordsAreTheSheets)
<1> SUFFICES ASSUME EachSheetIsRead
             PROVE  FileInit /\ [][FileNext]_fileVars => []RecordsAreTheSheets
  OBVIOUS
<1>1. ASSUME FileInv, SheetInv
      PROVE  RecordsAreTheSheets
  <2> SUFFICES ASSUME fileStage = "previewed"
               PROVE  RecordsAreTheSheets
    BY DEF RecordsAreTheSheets
  <2>1. PICK verdict : records = [k \in DOMAIN prepared |-> RecordOf(k, verdict[k])]
    BY <1>1 DEF FileInv, RecordsFit
  <2>2. PICK S : prepared \in Seq(S)
    BY <1>1 DEF FileInv, IsList
  <2>3. RowsSaySheet /\ Len(prepared) = Len(rows)
    BY <1>1 DEF SheetInv, HasRows
  <2>4. Len(records) = Len(SheetRows(sheet)) /\ DOMAIN prepared = 1..Len(rows)
    BY <2>1, <2>2, <2>3 DEF RowsSaySheet
  <2>5. ASSUME NEW i \in Selected(TRUE)
        PROVE  /\ records[i].type = Trim(Says(sheet, i, "type"))
               /\ records[i].recipient = Trim(Says(sheet, i, "recipient"))
               /\ records[i].amount = ParseQusdcAmount(Says(sheet, i, "amount"))
               /\ records[i].memo = NormalizeMemo(Says(sheet, i, "memo"))
               /\ records[i].type = <<"subscription">> =>
                    PeriodFromCanonical(records[i].schedule) =
                      ParseSchedule(Says(sheet, i, "schedule")).period
    <3>1. i \in DOMAIN prepared /\ records[i] = RecordOf(i, verdict[i]) /\ records[i].status = "valid"
      BY <2>1 DEF Selected
    <3>2. prepared[i].to # NoAddress
      BY <3>1 DEF RecordOf
    <3>3. PICK entry : entry = prepared[i]
      OBVIOUS
    <3>4. /\ records[i].type = entry.type /\ records[i].recipient = entry.recipient
          /\ records[i].amount = entry.amount /\ records[i].memo = entry.memo
          /\ records[i].schedule = entry.schedule
      BY <3>1, <3>3 DEF RecordOf
    <3>5. Normal(entry, rows[i]) /\ NormalizeRow(rows[i]).ok
      BY <1>1, <3>1, <3>2, <3>3 DEF SheetInv, Normal
    <3>6. \A col \in Column : rows[i][col] = Says(sheet, i, col)
      BY <2>3, <2>4, <3>1 DEF RowsSaySheet
    <3>7. /\ rows[i]["type"] = Says(sheet, i, "type")
          /\ rows[i]["recipient"] = Says(sheet, i, "recipient")
          /\ rows[i]["amount"] = Says(sheet, i, "amount")
          /\ rows[i]["memo"] = Says(sheet, i, "memo")
          /\ rows[i]["schedule"] = Says(sheet, i, "schedule")
      BY <3>6 DEF Column
    <3>8. /\ entry.type = Trim(rows[i]["type"]) /\ entry.recipient = Trim(rows[i]["recipient"])
          /\ entry.amount = ParseQusdcAmount(rows[i]["amount"])
          /\ entry.memo = NormalizeMemo(rows[i]["memo"])
          /\ entry.schedule = ParseSchedule(rows[i]["schedule"]).canonical
          /\ entry.type = <<"subscription">> => entry.schedule # NoSchedule
      BY <3>5 DEF Normal, NormalizeRow
    <3>9. entry.type = <<"subscription">> =>
            PeriodFromCanonical(entry.schedule) = ParseSchedule(rows[i]["schedule"]).period
      BY <3>8, PeriodIsKept
    <3> QED
      BY <3>4, <3>7, <3>8, <3>9
  <2> QED
    BY <2>4, <2>5 DEF RecordsAreTheSheets
<1>2. FileInit => FileInv /\ SheetInv
  BY FileInitially, SheetInitially
<1>3. FileInv /\ SheetInv /\ [FileNext]_fileVars => (FileInv /\ SheetInv)'
  BY FileKept, SheetKept
<1> QED
  BY <1>1, <1>2, <1>3, PTL
================================================================================
