------------------------------ MODULE MCCsvImport ------------------------------
(***************************************************************************)
(* Bulk import for TLC.  Jobs meet only in the duplicate history and in    *)
(* the account's one place in the pool, so the files are looked at in      *)
(* groups: the files of the other groups were cancelled before anything    *)
(* was stored for them.  A behaviour looks at jobs, or at one file on its  *)
(* way to the records.                                                     *)
(***************************************************************************)
EXTENDS CsvImport, CsvFile, TLC

CONSTANTS payroll, refund, wages, bill,   \* jobs
          rent, fee, seat,                \* contents
          Groups,                         \* the groups of jobs a run looks at
          p1, p2,                         \* addresses
          SheetRowsUpTo                   \* rows of the longest sheet

\* What the proofs about the records take as a hypothesis.
ASSUME SheetsAreRead == EachSheetIsRead

VARIABLE part  \* "jobs" or "file"

mcSource == [j \in Job |-> IF j \in {payroll, refund} THEN "autopilot" ELSE "user"]
mcRowsOf ==
  [j \in Job |-> CASE j = payroll -> 1..2 [] j = wages -> 1..3 [] OTHER -> {1}]
mcSingles == [j \in Job |-> IF j = wages THEN {3} ELSE {}]
mcContent == [j \in Job |-> [r \in mcRowsOf[j] |-> <<rent, fee, seat>>[r]]]

\* Rows of a sheet.  The memos are the same text, but for white space, or
\* need quotes; "1" and "1.0" are the same amount, "1.001" is too precise.
SheetRow(type, to, amount, memo, schedule) ==
  [type |-> <<type>>, recipient |-> <<to>>, amount |-> <<amount>>, memo |-> memo, schedule |-> schedule]

mcSheetRows ==
  {SheetRow("pay", "a.qie", "1", <<"x", " ", "y">>, << >>),
   SheetRow("pay", "b.qie", "1.0", <<"x", CR, "y">>, << >>),
   SheetRow("pay", "a.qie", "1", <<"x", Comma, Quote, LF>>, << >>),
   SheetRow("pay", "a.qie", "1.001", << >>, << >>),
   SheetRow("request", "b.qie", "1", <<"x", " ", " ", "y">>, << >>),
   SheetRow("subscription", "a.qie", "1", << >>, <<"every 2 weeks">>),
   SheetRow("subscription", "b.qie", "1", << >>, <<"friday">>),
   [c \in Column |-> << >>]}

mcHeaders ==
  {<<"type", "recipient", "amount", "memo", "schedule">>,
   <<"schedule", "memo", "amount", "recipient", "type">>,
   <<"type", "recipient", "amount">>, <<"type", "recipient", "memo">>}

mcSheets ==
  [header : mcHeaders, rows : UNION {[1..n -> mcSheetRows] : n \in 1..SheetRowsUpTo - 1}]
  \cup [header : {<<"type", "recipient", "amount", "memo", "schedule">>},
         rows : [1..SheetRowsUpTo -> mcSheetRows]]

mcNumeral == [w \in {"1", "1.0", "1.001"} |->
                [whole |-> 1, frac |-> CASE w = "1" -> << >> [] w = "1.0" -> <<0>> [] OTHER -> <<0, 0, 1>>]]
mcWeekday == "friday" :> 5
mcEveryN == "every 2 weeks" :> [n |-> 2, unit |-> "week"]
mcResolves == "a.qie" :> {p1} @@ "b.qie" :> {p1, p2, NoAddress}
mcPaidBefore == {<<p2, 100, <<"x", Blank, "y">>, NoSchedule>>}
mcReceipted == {<<p1, 100>>}

MCInit ==
  /\ part \in {"jobs", "file"}
  /\ IF part = "jobs"
     THEN \E G \in Groups : JobsAre([j \in Job |-> IF j \in G THEN "none" ELSE "cancelled"])
     ELSE JobsAre([j \in Job |-> "cancelled"])
  /\ NothingRuns
  /\ IF part = "jobs" THEN sheet = CHOOSE s \in Sheets : TRUE ELSE sheet \in Sheets
  /\ FileInit

MCNext ==
  \/ part = "jobs" /\ Next /\ UNCHANGED <<fileVars, part>>
  \/ part = "file" /\ FileNext /\ UNCHANGED <<vars, part>>

MCSpec == MCInit /\ [][MCNext]_<<vars, fileVars, part>>

Looked(j) == job[j].status # "cancelled" \/ row[j][1].status # "absent"

\* Two files at a time are looked at without crashes and without a resume that
\* waits for receipts; the refund's file is read once something was sent for
\* the bill.
Simpler ==
  Looked(refund) \/ Looked(bill) =>
    /\ crashes = 0 /\ \A j \in {refund, bill} : ~resume[j].on
    /\ job[refund].status # "none" =>
         ops # << >> /\ job[bill].status \notin {"none", "deduped", "previewed"}
================================================================================
