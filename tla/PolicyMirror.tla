------------------------------ MODULE PolicyMirror ------------------------------
(***************************************************************************)
(* What a CSV import says of its rows before they are run under a policy:  *)
(* the mirror of the on-chain checks (sdk csv/policy.ts), as createJob     *)
(* feeds and reads it for an autopilot import.  "If it and the chain       *)
(* disagree, the chain wins": the chain is AgentPolicyManager.             *)
(***************************************************************************)
EXTENDS AgentPolicyManager

CONSTANT RowLists  \* the files that are tried: their rows with a resolved recipient

ASSUME RowListsAssumption ==
  RowLists \subseteq Seq([type : {"pay", "request", "subscription"},
                          recipient : Recipient, amount : Uint \ {0}])

\* remaining: a limit of 0 is none.  What the rows before have accrued counts.
Exceeds(amount, limit, used) == limit # 0 /\ used + amount > limit

RailAllowed(p, type) ==
  CASE type = "pay" -> "single" \in p.terms.allow
    [] type = "request" -> "request" \in p.terms.allow
    [] type = "subscription" -> "subscription" \in p.terms.allow

HardViolation(id, row, accrued) ==
  LET p == policies[id] IN
  \/ ~p.active \/ p.guardianRevoked
  \/ p.terms.validUntil # 0 /\ p.terms.validUntil <= now
  \/ p.terms.validAfter > now
  \/ ~RailAllowed(p, row.type)
  \/ row.recipient \notin allowedRecipients[id]
  \/ Exceeds(row.amount, p.terms.maxPerTx, 0)
  \/ Exceeds(row.amount, p.terms.totalLimit, p.spentTotal + accrued)

\* The counters are compared as they are stored, whether or not their window
\* is over.
SoftViolation(id, row, accrued) ==
  LET p == policies[id] IN
  \/ Exceeds(row.amount, p.terms.dailyLimit, p.spentToday + accrued)
  \/ Exceeds(row.amount, p.terms.weeklyLimit, p.spentThisWeek + accrued)

PolicyStatus(id, row, accrued) ==
  IF HardViolation(id, row, accrued) THEN "blocked"
  ELSE IF SoftViolation(id, row, accrued) THEN "needs_review" ELSE "valid"

\* Mutant: every row is compared with what is stored, not with the rows before.
PreviewRowsAlone(id, rows) == [i \in DOMAIN rows |-> PolicyStatus(id, rows[i], 0)]

\* previewPolicyForRows: a row that is not blocked consumes budget for those
\* that follow.  Accrued is what each prefix of the rows has consumed.
Accrued(id, rows) ==
  LET accrued[i \in 0..Len(rows)] ==
        IF i = 0 THEN 0
        ELSE accrued[i - 1]
               + (IF PolicyStatus(id, rows[i], accrued[i - 1]) = "blocked" THEN 0 ELSE rows[i].amount)
  IN accrued

PreviewRows(id, rows) ==
  [i \in DOMAIN rows |-> PolicyStatus(id, rows[i], Accrued(id, rows)[i - 1])]

\* The records of the job: a session runs payments only.
RowStatuses(id, rows) ==
  LET preview == PreviewRows(id, rows) IN
  [i \in DOMAIN rows |-> IF rows[i].type = "pay" THEN preview[i] ELSE "blocked"]
-----------------------------------------------------------------------------
(* The rows on the chain *)

TransferOf(id, row) ==
  [selector |-> "transfer", target |-> policies[id].terms.token, value |-> 0,
   payer |-> policies[id].terms.smartAccount, times |-> 1,
   pays |-> [r \in {row.recipient} |-> row.amount]]

\* The policy as it is once the valid ones among the rows up to i have run now.
PolicyAfter(id, rows, status) ==
  LET after[i \in 0..Len(rows)] ==
        IF i = 0 THEN policies[id]
        ELSE IF status[i] = "valid" THEN AddSpend(after[i - 1], rows[i].amount) ELSE after[i - 1]
  IN after

\* Would row run when the counters of its policy are those of p?
RunsUnder(id, row, p) ==
  LET terms == policies[id].terms IN
  /\ SessionCallValid(id, terms.smartAccount, terms.sessionKey, TransferOf(id, row))
  /\ SpendAllowed(p, TransferOf(id, row), row.amount)

(***************************************************************************)
(* A row the preview calls valid runs if the valid rows before it are run  *)
(* first, all of them now, and a first row it blocks would be refused,     *)
(* except in the policy's last second: whatever windows have passed since  *)
(* the counters were stored, and after any vetoes, changes of the list and *)
(* spending.  The token must be an allowed target, which the preview       *)
(* takes for granted.                                                      *)
(***************************************************************************)
PreviewedRowsWouldRun ==
  \A id \in DOMAIN policies, rows \in RowLists :
    policies[id].terms.token \in allowedTargets =>
      LET status == RowStatuses(id, rows)
          after == PolicyAfter(id, rows, status)
      IN /\ \A i \in DOMAIN rows :
              status[i] = "valid" => RunsUnder(id, rows[i], after[i - 1])
         /\ rows # << >> /\ rows[1].type = "pay" /\ status[1] = "blocked"
              /\ now # policies[id].terms.validUntil => ~RunsUnder(id, rows[1], policies[id])
=============================================================================
