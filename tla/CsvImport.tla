------------------------------- MODULE CsvImport -------------------------------
(***************************************************************************)
(* Bulk import of payments (csv-import.ts over csv-import-store.ts, the    *)
(* SDK's csv/compose.ts and csv/dedupe.ts, and the plan runner of the app, *)
(* BulkImport.tsx): one smart account's jobs, each a file of payment rows. *)
(*                                                                         *)
(* The rows of an autopilot job are paid one by one by the service's       *)
(* executor, those of a user job in chunks by the app, which reports back. *)
(* What the service does between two awaits is one action.  At most one    *)
(* executor pass works on a job (the set "processing"), but a resume runs  *)
(* beside it.                                                              *)
(*                                                                         *)
(* The bundler is external.  All jobs belong to one account, whose nonce   *)
(* lets one operation wait in the pool: a later one takes its place.       *)
(*                                                                         *)
(* Left out: the 24 hours after which history is forgotten, amounts, a     *)
(* second app session working on the same job, and a job that waits its    *)
(* turn in the list a tick read.                                           *)
(***************************************************************************)
EXTENDS Integers, Sequences, FiniteSets

CONSTANTS
  Job,          \* imported files
  Source,       \* job -> "user" or "autopilot"
  RowsOf,       \* job -> its row indexes
  Singles,      \* job -> rows that are requests or subscriptions
  Content,      \* job -> row -> its contentKey
  ChunkSize,    \* CSV_IMPORT_BATCH_CHUNK_SIZE
  NoOp,         \* no user operation recorded (userOpHash undefined)
  MaxOps,       \* bound on submitted operations
  MaxCrashes    \* bound on crashes of the service

ASSUME CsvAssumption ==
  /\ Source \in [Job -> {"user", "autopilot"}]
  /\ RowsOf \in [Job -> SUBSET Nat] /\ \A j \in Job : IsFiniteSet(RowsOf[j])
  /\ \A j \in Job : Singles[j] \subseteq RowsOf[j]
  /\ \A j \in Job : Source[j] = "autopilot" => Singles[j] = {}
  /\ ChunkSize \in Nat \ {0} /\ MaxOps \in Nat /\ MaxCrashes \in Nat
  /\ NoOp \notin Nat

OpId == 1..MaxOps

JobStatus == {"none", "deduped", "previewed", "executing", "completed",
              "partially_completed", "cancelled", "failed"}

\* PaymentIntentRecord.  A row that needs review is never eligible and never
\* counted as executable: it is "blocked" here.  Rows are "absent" until the
\* preview stores them.
RowRecord ==
  [status : {"absent", "valid", "blocked", "executing", "confirmed", "failed"},
   policy : {"valid", "blocked"}, duplicate : BOOLEAN, op : OpId \cup {NoOp}]

\* A row as reconcileExecutingRows read it before its awaits.
Snapshot == [row : UNION {RowsOf[j] : j \in Job}, op : OpId \cup {NoOp}]

Operation ==
  [job : Job, rows : SUBSET UNION {RowsOf[j] : j \in Job},
   state : {"pooled", "mined", "reverted", "dropped"}, indexed : BOOLEAN]

VARIABLES
  job,          \* job -> its status, allowDuplicateRows, and whether createJob
                \* is still at work on it
  row,          \* job -> row -> its record
  exec,         \* job -> the executor's pass over it
  resume,       \* job -> a resumeJob call that is reconciling, or not
  app,          \* job -> the app working through a plan
  ops,          \* operations the bundler accepted, in order
  receipts,     \* job -> rows a receipt was written for
  crashes,
  known,        \* history: job -> contents already confirmed when it was read
  unseen,       \* history: rows with an operation nobody knows the end of
  raced         \* history: jobs resumed while the executor was at work

store == <<job, row, receipts>>
history == <<known, unseen, raced>>
vars == <<store, exec, resume, app, ops, crashes, history>>

TypeOK ==
  /\ job \in [Job -> [status : JobStatus, allow : BOOLEAN, reading : BOOLEAN]]
  /\ \A j \in Job : row[j] \in [RowsOf[j] -> RowRecord]
  /\ \A j \in Job :
       /\ exec[j].pc \in {"idle", "reconcile", "policy", "pay", "send", "wait"}
       /\ exec[j].todo \subseteq Snapshot /\ exec[j].sel \subseteq RowsOf[j]
       /\ resume[j].on \in BOOLEAN /\ resume[j].todo \subseteq Snapshot
       /\ app[j].pc \in {"idle", "send", "wait"} /\ app[j].plan \subseteq RowsOf[j]
       /\ receipts[j] \subseteq RowsOf[j]
  /\ \A k \in DOMAIN ops : ops[k] \in Operation
  /\ crashes \in 0..MaxCrashes

Resting == [pc |-> "idle", todo |-> {}, sel |-> {}, op |-> NoOp]
NotResuming == [on |-> FALSE, todo |-> {}]
Closed == [pc |-> "idle", plan |-> {}, op |-> NoOp]

JobsAre(status) ==
  job = [j \in Job |-> [status |-> status[j], allow |-> FALSE, reading |-> FALSE]]

NothingRuns ==
  /\ row = [j \in Job |-> [r \in RowsOf[j] |->
              [status |-> "absent", policy |-> "blocked", duplicate |-> FALSE, op |-> NoOp]]]
  /\ exec = [j \in Job |-> Resting]
  /\ resume = [j \in Job |-> NotResuming]
  /\ app = [j \in Job |-> Closed]
  /\ ops = << >>
  /\ receipts = [j \in Job |-> {}]
  /\ crashes = 0
  /\ known = [j \in Job |-> {}] /\ unseen = {} /\ raced = {}

Init == JobsAre([j \in Job |-> "none"]) /\ NothingRuns

Least(S) == CHOOSE r \in S : \A s \in S : r <= s
WithStatus(j, R, status) ==
  [row EXCEPT ![j] = [r \in RowsOf[j] |->
     IF r \in R THEN [row[j][r] EXCEPT !.status = status] ELSE row[j][r]]]

-----------------------------------------------------------------------------
(* Upload and preview: createJob *)

\* jobsWithin: jobs that were cancelled or have failed are not looked at.
Remembered == {j \in Job : job[j].status \in
                {"executing", "completed", "partially_completed", "previewed"}}

ContentsWith(j, statuses) ==
  {Content[j][r] : r \in {r \in RowsOf[j] : row[j][r].status \in statuses}}

\* Mutant: only what is in flight counts as history.
HistoryInFlight == UNION {ContentsWith(j, {"executing"}) : j \in Remembered}

HistoryKeys == UNION {ContentsWith(j, {"confirmed", "executing"}) : j \in Remembered}

\* receiptHistoryWarnings: any part of what was issued may be read.
ReceiptKeys == UNION {{Content[j][r] : r \in receipts[j]} : j \in Job}

RepeatedInFile(j, r) == \E s \in RowsOf[j] \ {r} : Content[j][s] = Content[j][r]

\* detectDuplicates blocks a payment seen in the file or in history.  (Requests
\* are only warned about, which stops nothing.)
DetectDuplicates(j) ==
  /\ job[j].status = "none"
  /\ \E registry \in SUBSET ReceiptKeys :
       row' = [row EXCEPT ![j] = [r \in RowsOf[j] |->
                 [row[j][r] EXCEPT !.duplicate =
                    RepeatedInFile(j, r) \/ Content[j][r] \in HistoryKeys \cup registry]]]
  /\ job' = [job EXCEPT ![j].status = "deduped", ![j].reading = TRUE]
  /\ known' = [known EXCEPT ![j] =
                 UNION {ContentsWith(i, {"confirmed"}) : i \in Remembered}]
  /\ UNCHANGED <<receipts, exec, resume, app, ops, crashes, unseen, raced>>

\* previewPolicyForRows against the policy of the moment; a user's own rows are
\* not held against a policy.
Preview(j) ==
  /\ job[j].status = "deduped"
  /\ \E ok \in SUBSET RowsOf[j] :
       /\ Source[j] = "user" => ok = RowsOf[j]
       /\ row' = [row EXCEPT ![j] = [r \in RowsOf[j] |->
                    LET verdict == IF r \in ok THEN "valid" ELSE "blocked" IN
                    [row[j][r] EXCEPT !.status = verdict, !.policy = verdict]]]
  /\ job' = [job EXCEPT ![j].status = "previewed", ![j].reading = FALSE]
  /\ UNCHANGED <<receipts, exec, resume, app, ops, crashes, history>>

-----------------------------------------------------------------------------
(* Selection, plans and the job's own status *)

\* selectExecutableRows over the records rs of job j.
Executable(j, rs, allow) ==
  {r \in RowsOf[j] :
     /\ rs[r].status \in {"valid", "failed"}
     /\ rs[r].policy = "valid"
     /\ rs[r].duplicate => Source[j] = "user" /\ allow}

\* buildUserPlan, as the set of rows still to be done: payments in chunks, in
\* row order, then the requests and subscriptions one by one.
NextChunk(j, plan) ==
  LET pays == plan \ Singles[j] IN
  IF pays = {} THEN {Least(plan)}
  ELSE {r \in pays : Cardinality({s \in pays : s < r}) < ChunkSize}

HandOutPlan(j, rs, allow) ==
  IF Source[j] = "user"
  THEN LET plan == Executable(j, rs, allow) IN
       app' = [app EXCEPT ![j] =
                 IF plan = {} THEN Closed ELSE [Closed EXCEPT !.pc = "send", !.plan = plan]]
  ELSE UNCHANGED app

\* finalizeJobStatus
FinalStatus(j, rs) ==
  LET statuses == {rs[r].status : r \in RowsOf[j]}
      running == statuses \cap {"valid", "executing"} IN
  CASE job[j].status = "cancelled" -> "cancelled"
    [] job[j].status # "cancelled" /\ running = {} /\ "failed" \notin statuses -> "completed"
    [] job[j].status # "cancelled" /\ running = {} /\ {"failed", "confirmed"} \subseteq statuses
         -> "partially_completed"
    [] OTHER -> job[j].status

\* allowDuplicateRows means nothing to an autopilot job.
Overrides(j) == IF Source[j] = "user" THEN BOOLEAN ELSE {FALSE}

\* approveJob: removed rows are blocked whatever their status was.
Approve(j, removed, allow) ==
  LET rs == [r \in RowsOf[j] |->
               IF r \in removed
               THEN [row[j][r] EXCEPT !.status = "blocked", !.policy = "blocked"]
               ELSE row[j][r]] IN
  /\ job[j].status \in {"previewed", "partially_completed"}
  /\ Source[j] = "user" => app[j].pc = "idle" /\ ~resume[j].on
  /\ row' = [row EXCEPT ![j] = rs]
  /\ job' = [job EXCEPT ![j].status = "executing", ![j].allow = allow]
  /\ HandOutPlan(j, rs, allow)
  /\ UNCHANGED <<receipts, exec, resume, ops, crashes, history>>

\* cancelJob
Cancel(j) ==
  /\ job[j].status \notin {"none", "completed", "cancelled"}
  /\ job' = [job EXCEPT ![j].status = "cancelled"]
  /\ UNCHANGED <<row, receipts, exec, resume, app, ops, crashes, history>>

-----------------------------------------------------------------------------
(* reconcileExecutingRows, run by the executor and by a resume *)

InFlight(j) ==
  {[row |-> r, op |-> row[j][r].op] : r \in {r \in RowsOf[j] : row[j][r].status = "executing"}}

First(todo) == CHOOSE e \in todo : \A f \in todo : e.row <= f.row

\* writeReceiptForRow.  A write that failed is one that no preview will read.
WriteReceipt(j, R) == receipts' = [receipts EXCEPT ![j] = @ \cup R]

\* Mutant: any receipt settles the row.
SettleAnyReceipt(j, e) ==
  \/ /\ e.op = NoOp
     /\ row' = WithStatus(j, {e.row}, "valid")
     /\ UNCHANGED receipts
  \/ /\ e.op # NoOp /\ ops[e.op].indexed
     /\ row' = WithStatus(j, {e.row}, "confirmed")
     /\ WriteReceipt(j, {e.row})
  \/ /\ e.op # NoOp /\ ~ops[e.op].indexed
     /\ UNCHANGED <<row, receipts>>

\* The row is settled by what the snapshot says of it, whatever became of it
\* since: without a hash it can be tried again, else the receipt decides.
Settle(j, e) ==
  \/ /\ e.op = NoOp
     /\ row' = WithStatus(j, {e.row}, "valid")
     /\ UNCHANGED receipts
  \/ /\ e.op # NoOp /\ ops[e.op].indexed /\ ops[e.op].state = "mined"
     /\ row' = WithStatus(j, {e.row}, "confirmed")
     /\ WriteReceipt(j, {e.row})
  \/ /\ e.op # NoOp /\ ops[e.op].indexed /\ ops[e.op].state = "reverted"
     /\ row' = WithStatus(j, {e.row}, "failed")
     /\ UNCHANGED receipts
  \/ /\ e.op # NoOp /\ ~ops[e.op].indexed
     /\ UNCHANGED <<row, receipts>>

\* Rows without a hash that come before any with one are settled in the same
\* breath as the snapshot is taken.  (Those that come later are settled after
\* an await, of a receipt read or written.)
AtOnce(j) ==
  {e \in InFlight(j) : \A f \in InFlight(j) : f.row <= e.row => f.op = NoOp}

SettledAtOnce(j) == WithStatus(j, {e.row : e \in AtOnce(j)}, "valid")

\* The job is executing again, whatever it was set to meanwhile.
ResumeDone(j, rs) ==
  /\ job' = [job EXCEPT ![j].status = "executing"]
  /\ resume' = [resume EXCEPT ![j] = NotResuming]
  /\ HandOutPlan(j, rs, job[j].allow)

\* resumeJob up to its first await, or to its end when there is none.
StartResume(j) ==
  /\ job[j].status \notin {"none", "completed", "cancelled"}
  /\ ~resume[j].on
  /\ Source[j] = "user" => app[j].pc = "idle"
  /\ row' = SettledAtOnce(j)
  /\ LET todo == InFlight(j) \ AtOnce(j) IN
     IF todo = {} THEN ResumeDone(j, SettledAtOnce(j)[j])
     ELSE /\ resume' = [resume EXCEPT ![j] = [on |-> TRUE, todo |-> todo]]
          /\ UNCHANGED <<job, app>>
  /\ raced' = IF exec[j].pc # "idle" THEN raced \cup {j} ELSE raced
  /\ UNCHANGED <<receipts, exec, ops, crashes, known, unseen>>

ResumeSettles(j) ==
  /\ resume[j].on /\ resume[j].todo # {}
  /\ LET e == First(resume[j].todo) IN
     /\ Settle(j, e)
     /\ resume' = [resume EXCEPT ![j].todo = @ \ {e}]
  /\ UNCHANGED <<job, exec, app, ops, crashes, history>>

FinishResume(j) ==
  /\ resume[j].on /\ resume[j].todo = {}
  /\ ResumeDone(j, row[j])
  /\ UNCHANGED <<row, receipts, exec, ops, crashes, history>>

-----------------------------------------------------------------------------
(* runCsvImportOnce and executeAutopilotJob *)

\* A tick takes up a job, unless "processing" says that another pass is at it.
BeginJob(j) ==
  /\ Source[j] = "autopilot" /\ job[j].status = "executing"
  /\ exec[j].pc = "idle"
  /\ row' = SettledAtOnce(j)
  /\ exec' = [exec EXCEPT ![j] =
                [Resting EXCEPT !.pc = "reconcile", !.todo = InFlight(j) \ AtOnce(j)]]
  /\ raced' = IF resume[j].on THEN raced \cup {j} ELSE raced
  /\ UNCHANGED <<job, receipts, resume, app, ops, crashes, known, unseen>>

ExecutorSettles(j) ==
  /\ exec[j].pc = "reconcile"
  /\ IF exec[j].todo = {}
     THEN exec' = [exec EXCEPT ![j].pc = "policy"] /\ UNCHANGED <<row, receipts>>
     ELSE LET e == First(exec[j].todo) IN
          /\ Settle(j, e)
          /\ exec' = [exec EXCEPT ![j].todo = @ \ {e}]
  /\ UNCHANGED <<job, resume, app, ops, crashes, history>>

\* The policy is inactive or its key unknown: the job fails.
PolicyLost(j) ==
  /\ job' = [job EXCEPT ![j].status = "failed"]
  /\ exec' = [exec EXCEPT ![j] = Resting]

\* The policy cannot be read: the pass ends.
PolicyUnread(j) ==
  /\ exec' = [exec EXCEPT ![j] = Resting]
  /\ UNCHANGED job

SelectRows(j) ==
  /\ exec' = [exec EXCEPT ![j].pc = "pay", ![j].sel = Executable(j, row[j], job[j].allow)]
  /\ UNCHANGED job

CheckPolicy(j) ==
  /\ exec[j].pc = "policy"
  /\ PolicyLost(j) \/ PolicyUnread(j) \/ SelectRows(j)
  /\ UNCHANGED <<row, receipts, resume, app, ops, crashes, history>>

Current(j) == Least(exec[j].sel)
NextRow(j) == exec' = [exec EXCEPT ![j].pc = "pay", ![j].op = NoOp, ![j].sel = @ \ {Current(j)}]

\* The next selected row: too large for the policy, without a gas route (left
\* for the next tick), or marked as executing and sent.  A hash recorded for an
\* earlier attempt stays in the record.
BeginRow(j) ==
  /\ exec[j].pc = "pay" /\ exec[j].sel # {}
  /\ \/ NextRow(j) /\ row' = WithStatus(j, {Current(j)}, "failed")
     \/ NextRow(j) /\ UNCHANGED row
     \/ /\ exec' = [exec EXCEPT ![j].pc = "send"]
        /\ row' = WithStatus(j, {Current(j)}, "executing")
  /\ UNCHANGED <<job, receipts, resume, app, ops, crashes, history>>

\* The bundler takes the operation; one still in the pool has the same nonce.
Accepted(j, R) ==
  /\ Len(ops) < MaxOps
  /\ ops' = Append([k \in DOMAIN ops |->
                      IF ops[k].state = "pooled" THEN [ops[k] EXCEPT !.state = "dropped"]
                      ELSE ops[k]],
                   [job |-> j, rows |-> R, state |-> "pooled", indexed |-> FALSE])

Send(j) ==
  /\ exec[j].pc = "send"
  /\ Accepted(j, {Current(j)})
  /\ exec' = [exec EXCEPT ![j].pc = "wait", ![j].op = Len(ops) + 1]
  /\ UNCHANGED <<store, resume, app, crashes, history>>

\* The call throws, before or after the bundler took the operation.
SendFails(j) ==
  /\ exec[j].pc = "send"
  /\ \/ /\ Accepted(j, {Current(j)})
        /\ unseen' = unseen \cup {<<j, Current(j)>>}
     \/ UNCHANGED <<ops, unseen>>
  /\ row' = WithStatus(j, {Current(j)}, "failed")
  /\ NextRow(j)
  /\ UNCHANGED <<job, receipts, resume, app, crashes, known, raced>>

Recorded(j, R, status, k) ==
  [row EXCEPT ![j] = [r \in RowsOf[j] |->
     IF r \in R THEN [row[j][r] EXCEPT !.status = status, !.op = k] ELSE row[j][r]]]

\* Mutant: an operation without a receipt is taken for a failure.
AwaitOrFail(j) ==
  LET k == exec[j].op IN
  /\ exec[j].pc = "wait"
  /\ IF ops[k].indexed /\ ops[k].state = "mined"
     THEN /\ row' = Recorded(j, {Current(j)}, "confirmed", k)
          /\ WriteReceipt(j, {Current(j)})
     ELSE row' = Recorded(j, {Current(j)}, "failed", k) /\ UNCHANGED receipts
  /\ NextRow(j)
  /\ UNCHANGED <<job, resume, app, ops, crashes, history>>

\* waitForUserOp: mined, or (reverted or out of time) left to be reconciled.
Await(j) ==
  LET k == exec[j].op IN
  /\ exec[j].pc = "wait"
  /\ IF ops[k].indexed /\ ops[k].state = "mined"
     THEN /\ row' = Recorded(j, {Current(j)}, "confirmed", k)
          /\ WriteReceipt(j, {Current(j)})
     ELSE row' = Recorded(j, {Current(j)}, "executing", k) /\ UNCHANGED receipts
  /\ NextRow(j)
  /\ UNCHANGED <<job, resume, app, ops, crashes, history>>

\* recountJob, finalizeJobStatus
FinishPass(j) ==
  /\ exec[j].pc = "pay" /\ exec[j].sel = {}
  /\ job' = [job EXCEPT ![j].status = FinalStatus(j, row[j])]
  /\ exec' = [exec EXCEPT ![j] = Resting]
  /\ UNCHANGED <<row, receipts, resume, app, ops, crashes, history>>

\* The service dies at work and is started again with the stored jobs and rows.
Crash ==
  /\ crashes < MaxCrashes
  /\ \E j \in Job : exec[j].pc # "idle" \/ resume[j].on \/ job[j].reading
  /\ crashes' = crashes + 1
  /\ job' = [j \in Job |-> [job[j] EXCEPT !.reading = FALSE]]
  /\ unseen' = unseen \cup {<<j, Current(j)>> : j \in {j \in Job : exec[j].pc = "wait"}}
  /\ exec' = [j \in Job |-> Resting]
  /\ resume' = [j \in Job |-> NotResuming]
  /\ UNCHANGED <<row, receipts, app, ops, known, raced>>

-----------------------------------------------------------------------------
(* The app: executePlan, reporting through confirmUserRows *)

Chunk(j) == NextChunk(j, app[j].plan)
NextStep(j) ==
  LET rest == app[j].plan \ Chunk(j) IN
  app' = [app EXCEPT ![j] = IF rest = {} THEN Closed
                            ELSE [Closed EXCEPT !.pc = "send", !.plan = rest]]

AppSend(j) ==
  /\ app[j].pc = "send"
  /\ Accepted(j, Chunk(j))
  /\ app' = [app EXCEPT ![j].pc = "wait", ![j].op = Len(ops) + 1]
  /\ UNCHANGED <<store, exec, resume, crashes, history>>

\* confirmUserRows leaves rows that are confirmed already.
Report(j, R, status, k) ==
  LET open == {r \in R : row[j][r].status # "confirmed"}
      rs == Recorded(j, open, status, k) IN
  /\ row' = rs
  /\ IF status = "confirmed" THEN WriteReceipt(j, open \ Singles[j]) ELSE UNCHANGED receipts
  /\ job' = [job EXCEPT ![j].status = FinalStatus(j, rs[j])]

\* A client may report the hash before it waits.
AppAcknowledges(j) ==
  /\ app[j].pc = "wait"
  /\ \E r \in Chunk(j) : row[j][r].op # app[j].op
  /\ Report(j, Chunk(j), "executing", app[j].op)
  /\ UNCHANGED <<exec, resume, app, ops, crashes, history>>

AppSeesMined(j) ==
  LET k == app[j].op IN
  /\ app[j].pc = "wait"
  /\ ops[k].indexed /\ ops[k].state = "mined"
  /\ Report(j, Chunk(j), "confirmed", k)
  /\ NextStep(j)
  /\ UNCHANGED <<exec, resume, ops, crashes, history>>

\* waitForUserOp answers "failed" for a reverted operation, and for one that
\* takes too long.  A failed chunk ends the plan, a failed single does not.
AppSeesFailed(j) ==
  LET k == app[j].op IN
  /\ app[j].pc = "wait"
  /\ ~ops[k].indexed \/ ops[k].state = "reverted"
  /\ Report(j, Chunk(j), "failed", k)
  /\ IF Chunk(j) \subseteq Singles[j] THEN NextStep(j)
     ELSE app' = [app EXCEPT ![j] = Closed]
  /\ unseen' = IF ops[k].indexed THEN unseen ELSE unseen \cup ({j} \X Chunk(j))
  /\ UNCHANGED <<exec, resume, ops, crashes, known, raced>>

\* The page is closed or a call throws: what was sent and not reported is lost.
CloseApp(j) ==
  /\ app[j].pc # "idle"
  /\ app' = [app EXCEPT ![j] = Closed]
  /\ unseen' = unseen \cup
       {<<j, r>> : r \in {r \in Chunk(j) : app[j].pc = "wait" /\ row[j][r].op # app[j].op}}
  /\ UNCHANGED <<store, exec, resume, ops, crashes, known, raced>>

-----------------------------------------------------------------------------
(* The chain and the bundler *)

\* An operation the bundler drops on its own is one that is never mined.
Mine(k) ==
  /\ ops[k].state = "pooled"
  /\ \E outcome \in {"mined", "reverted"} :
       ops' = [ops EXCEPT ![k].state = outcome]
  /\ UNCHANGED <<store, exec, resume, app, crashes, history>>

Index(k) ==
  /\ ops[k].state \in {"mined", "reverted"} /\ ~ops[k].indexed
  /\ ops' = [ops EXCEPT ![k].indexed = TRUE]
  /\ UNCHANGED <<store, exec, resume, app, crashes, history>>

-----------------------------------------------------------------------------
Next ==
  \/ \E j \in Job :
       \/ DetectDuplicates(j) \/ Preview(j) \/ Cancel(j)
       \/ \E removed \in SUBSET RowsOf[j], allow \in Overrides(j) : Approve(j, removed, allow)
       \/ StartResume(j) \/ ResumeSettles(j) \/ FinishResume(j)
       \/ BeginJob(j) \/ ExecutorSettles(j) \/ CheckPolicy(j) \/ BeginRow(j)
       \/ Send(j) \/ SendFails(j) \/ Await(j) \/ FinishPass(j)
       \/ AppSend(j) \/ AppAcknowledges(j) \/ AppSeesMined(j) \/ AppSeesFailed(j) \/ CloseApp(j)
  \/ Crash
  \/ \E k \in DOMAIN ops : Mine(k) \/ Index(k)

Spec == Init /\ [][Next]_vars

-----------------------------------------------------------------------------
(* Properties *)

Payments(j, r) ==
  {k \in DOMAIN ops : ops[k].job = j /\ r \in ops[k].rows /\ ops[k].state = "mined"}

\* docs/bulk-intent-import.md: "retries / crashes / re-uploads can never
\* double-pay".  No row of a job is executed twice.
RowPaidOnce == \A j \in Job : \A r \in RowsOf[j] : Cardinality(Payments(j, r)) <= 1

\* "Re-running submits zero duplicate ops": as long as the end of every
\* operation was seen by whoever sent it, and for a job whose resumes kept out
\* of the executor's way, no row is executed twice.
PaidOnceIfSeenAndSerial ==
  \A j \in Job \ raced : \A r \in RowsOf[j] :
    <<j, r>> \notin unseen => Cardinality(Payments(j, r)) <= 1

\* A row is called confirmed only when an operation that executes it was mined:
\* reconciling by a snapshot, late reports and stale hashes invent no payment.
ConfirmedMeansPaid ==
  \A j \in Job : \A r \in RowsOf[j] :
    row[j][r].status = "confirmed" => Payments(j, r) # {}

\* An autopilot job never pays what another job was known to have paid when
\* its own file was read: "Autopilot jobs ALWAYS block duplicates".
KnownPaymentsNotRepeated ==
  \A k \in DOMAIN ops : Source[ops[k].job] = "autopilot" =>
    \A r \in ops[k].rows : Content[ops[k].job][r] \notin known[ops[k].job]
================================================================================
