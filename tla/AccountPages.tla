------------------------------ MODULE AccountPages ------------------------------
(***************************************************************************)
(* One smart account, operated from the pages of the app: the hook that    *)
(* shows the gas status and arms QUSDC gas in the background               *)
(* (useGasStatus.ts, ensureQusdcGasReady), and the handlers that send a    *)
(* batch, a request, a subscription, its cancellation or a withdrawal.     *)
(* All of them read a nonce, ask the wallet to sign and wait for the       *)
(* bundler, and go on when their page is left.                             *)
(*                                                                         *)
(* A task is one run of such code: a run of the hook's effect, or of a     *)
(* page's handler.                                                         *)
(***************************************************************************)
EXTENDS Integers, Sequences, FiniteSets

CONSTANTS
  Page,          \* pages that may be open, in one tab or in several
  KindsOf,       \* page -> what its handlers send
  FreeOps,       \* PER_ACCOUNT_CAP
  NoPage,        \* not a page
  MaxTasks,      \* bound on runs at the same time
  MaxAccountOps  \* bound on operations

Kinds == {"batch", "bulk", "request", "subscribe", "cancel", "withdraw"}

ASSUME AccountAssumption ==
  /\ NoPage \notin Page
  /\ KindsOf \in [Page -> SUBSET Kinds]
  /\ {FreeOps, MaxTasks, MaxAccountOps} \subseteq Nat

VARIABLES
  acct,       \* the chain: [nonce, free, armed, batchable]
  userOps,    \* operations the bundler accepted
  hook,       \* page -> what useGasStatus holds while the page is open
  task,       \* the runs that are going on, in places 1..MaxTasks
  receipts,   \* operations of batches that receipts were issued for
  refreshed,  \* history: pages that restarted the hook while it was arming
  armRaced    \* history: an approval was begun while another was under way

accountVars == <<acct, userOps, hook, task, receipts, refreshed, armRaced>>

\* Of what the hook shows: whether QUSDC is needed, and whether it is arming.
Closed == [open |-> FALSE, needsQusdc |-> FALSE, arming |-> FALSE, armingRef |-> FALSE]

\* live: still the last run of the page's effect; mounted: the page is still
\* the one that was opened then; approving: a plan sends its approval first.
Over == [page |-> NoPage, kind |-> "none", stage |-> "over", live |-> FALSE, mounted |-> FALSE,
         approving |-> FALSE, mode |-> "none", nonce |-> 0, op |-> 0]

NewTask(p, kind) ==
  [Over EXCEPT !.page = p, !.kind = kind, !.stage = "read", !.live = TRUE, !.mounted = TRUE]

AccountInit ==
  /\ acct = [nonce |-> 0, free |-> 0, armed |-> FALSE, batchable |-> FALSE]
  /\ userOps = << >>
  /\ hook = [p \in Page |-> Closed]
  /\ task = [t \in 1..MaxTasks |-> Over]
  /\ receipts = {}
  /\ refreshed = {}
  /\ armRaced = FALSE

\* gaslessParams: free operations when their number can be read and the service
\* grants a token, else QUSDC if the approval stands, there is enough, and the
\* quote can be read.
Route(token, payable) ==
  IF token /\ acct.free < FreeOps THEN "SPONSORED_ONBOARDING"
  ELSE IF payable /\ acct.armed THEN "QUSDC_GAS" ELSE "NEEDS_QUSDC"

ModeOf(ui) == IF ui = "SPONSORED_ONBOARDING" THEN "sponsored" ELSE "qusdc"

Ends(t) == task' = [task EXCEPT ![t] = Over]

\* running, with one more.
Started(running, p, kind) ==
  LET free == {t \in DOMAIN running : running[t] = Over} IN
  [running EXCEPT ![CHOOSE t \in free : \A u \in free : t <= u] = NewTask(p, kind)]

Room == \E t \in DOMAIN task : task[t] = Over

\* What the other tasks of page p are told when its effect runs again, or when
\* it is left.
Retired(p, gone) ==
  [t \in DOMAIN task |->
     IF task[t].page # p THEN task[t]
     ELSE [task[t] EXCEPT !.mounted = @ /\ ~gone, !.live = @ /\ task[t].kind # "status" /\ ~gone]]
-----------------------------------------------------------------------------
(* useGasStatus *)

OpenPage(p) ==
  /\ ~hook[p].open
  /\ Room
  /\ hook' = [hook EXCEPT ![p] = [Closed EXCEPT !.open = TRUE]]
  /\ task' = Started(task, p, "status")
  /\ UNCHANGED <<acct, userOps, receipts, refreshed, armRaced>>

LeavePage(p) ==
  /\ hook[p].open
  /\ hook' = [hook EXCEPT ![p] = Closed]
  /\ task' = Retired(p, TRUE)
  /\ refreshed' = refreshed \ {p}
  /\ UNCHANGED <<acct, userOps, receipts, armRaced>>

\* refresh(), or another address: the effect runs again and the last run is no
\* longer "mounted".
Refresh(p) ==
  /\ hook[p].open
  /\ Room
  /\ task' = Started(Retired(p, FALSE), p, "status")
  /\ refreshed' = IF hook[p].armingRef THEN refreshed \cup {p} ELSE refreshed
  /\ UNCHANGED <<acct, userOps, hook, receipts, armRaced>>

\* Mutant: the flag of the component is not looked at.
ReadStatusUnflagged(t) ==
  /\ task[t].kind = "status" /\ task[t].stage = "read"
  /\ \E token \in BOOLEAN, payable \in BOOLEAN, ready \in BOOLEAN :
       LET p == task[t].page
           ui == Route(token, payable)
           armed == ready /\ acct.armed
           arms == ~armed /\ ui = "SPONSORED_ONBOARDING" IN
       IF task[t].live
       THEN /\ hook' = [hook EXCEPT ![p].needsQusdc = (ui = "NEEDS_QUSDC"),
                                    ![p].arming = @ \/ arms, ![p].armingRef = @ \/ arms]
            /\ IF arms THEN task' = [task EXCEPT ![t].stage = "check"] ELSE Ends(t)
       ELSE Ends(t) /\ UNCHANGED hook
  /\ UNCHANGED <<acct, userOps, receipts, refreshed, armRaced>>

\* The reads of the effect, and what follows them before the next await.  An
\* allowance that cannot be read is taken for none.
ReadStatus(t) ==
  /\ task[t].kind = "status" /\ task[t].stage = "read"
  /\ \E token \in BOOLEAN, payable \in BOOLEAN, ready \in BOOLEAN :
       LET p == task[t].page
           ui == Route(token, payable)
           armed == ready /\ acct.armed
           arms == ~armed /\ ui = "SPONSORED_ONBOARDING" /\ ~hook[p].armingRef IN
       IF task[t].live
       THEN /\ hook' = [hook EXCEPT ![p].needsQusdc = (ui = "NEEDS_QUSDC"),
                                    ![p].arming = @ \/ arms, ![p].armingRef = @ \/ arms]
            /\ IF arms THEN task' = [task EXCEPT ![t].stage = "check"] ELSE Ends(t)
       ELSE Ends(t) /\ UNCHANGED hook
  /\ UNCHANGED <<acct, userOps, receipts, refreshed, armRaced>>

\* Tasks that are about to send an approval of QUSDC gas, and approvals that
\* may still be mined.
Approving ==
  {t \in DOMAIN task : task[t].kind = "status" /\ task[t].stage \in {"check", "build", "sign", "wait"}}

PendingApprovals == {o \in DOMAIN userOps : userOps[o].kind = "arm" /\ userOps[o].status = "pool"}

\* The end of the arming: the flag of the component is dropped, and what it
\* shows is put out if this run of the effect is still the last.
ArmingEnds(t) ==
  LET p == task[t].page IN
  hook' = IF ~task[t].mounted THEN hook
          ELSE [hook EXCEPT ![p].armingRef = FALSE,
                            ![p].arming = @ /\ ~task[t].live]

\* ensureQusdcGasReady up to the approval: the allowance again, and a token.
ArmCheck(t) ==
  /\ task[t].kind = "status" /\ task[t].stage = "check"
  /\ \/ /\ acct.armed
        /\ Ends(t)
        /\ ArmingEnds(t)
        /\ UNCHANGED armRaced
     \/ /\ ~acct.armed
        /\ task' = [task EXCEPT ![t].stage = "build", ![t].approving = TRUE, ![t].mode = "sponsored"]
        /\ armRaced' = (armRaced \/ PendingApprovals # {} \/ Approving # {t})
        /\ UNCHANGED hook
     \/ Ends(t) /\ ArmingEnds(t) /\ UNCHANGED armRaced
  /\ UNCHANGED <<acct, userOps, receipts, refreshed>>
-----------------------------------------------------------------------------
(* The handlers of the pages *)

\* The buttons that pay are off while the status shows that QUSDC is needed or
\* that QUSDC gas is being armed; withdrawing and cancelling are not.
Pressable(p, kind) ==
  /\ hook[p].open
  /\ kind \in KindsOf[p]
  /\ kind \notin {"withdraw", "cancel"} => ~hook[p].needsQusdc /\ ~hook[p].arming
  /\ \A t \in DOMAIN task : task[t].page = p /\ task[t].kind = kind /\ task[t].mounted =>
       task[t].stage = "over"

Press(p, kind) ==
  /\ Pressable(p, kind)
  /\ Room
  /\ task' = Started(task, p, kind)
  /\ UNCHANGED <<acct, userOps, hook, receipts, refreshed, armRaced>>

\* The gas parameters are asked for once, also by a plan that sends several
\* operations.  requestPayment and cancelSubscription take QUSDC whatever the
\* page has found; only a withdrawal stops when QUSDC is needed.
TakeRoute(t) ==
  /\ task[t].kind # "status" /\ task[t].stage = "read"
  /\ \E token \in BOOLEAN, payable \in BOOLEAN :
       LET ui == Route(token, payable)
           kind == task[t].kind IN
       IF kind = "withdraw" /\ ui = "NEEDS_QUSDC" THEN Ends(t)
       ELSE task' = [task EXCEPT
         ![t].stage = "build",
         ![t].approving = kind = "bulk" /\ ~acct.batchable,
         ![t].mode = IF kind \in {"request", "cancel"} THEN "qusdc" ELSE ModeOf(ui)]
  /\ UNCHANGED <<acct, userOps, hook, receipts, refreshed, armRaced>>
-----------------------------------------------------------------------------
(* buildAndSign, sendUserOperation, waitForUserOp *)

Build(t) ==
  /\ task[t].stage = "build"
  /\ task' = [task EXCEPT ![t].stage = "sign", ![t].nonce = acct.nonce]
  /\ UNCHANGED <<acct, userOps, hook, receipts, refreshed, armRaced>>

\* What the operation of task t does.
OpKind(t) ==
  IF task[t].kind = "status" THEN "arm"
  ELSE IF task[t].kind = "bulk" THEN IF task[t].approving THEN "approve" ELSE "batch"
  ELSE task[t].kind

\* The validation of the paymaster and of the EntryPoint.
OpAcceptable(mode, nonce) ==
  /\ nonce = acct.nonce
  /\ IF mode = "sponsored" THEN acct.free < FreeOps ELSE acct.armed

Submit(t) ==
  /\ task[t].stage = "sign"
  /\ Len(userOps) < MaxAccountOps
  /\ OpAcceptable(task[t].mode, task[t].nonce)
  /\ userOps' = Append(userOps, [kind |-> OpKind(t), mode |-> task[t].mode,
                                 nonce |-> task[t].nonce, status |-> "pool"])
  /\ task' = [task EXCEPT ![t].stage = "wait", ![t].op = Len(userOps) + 1, ![t].nonce = 0]
  /\ UNCHANGED <<acct, hook, receipts, refreshed, armRaced>>

\* The user refuses to sign, or the bundler to take the operation.
NotSent(t) ==
  /\ task[t].stage = "sign"
  /\ Ends(t)
  /\ IF task[t].kind = "status" THEN ArmingEnds(t) ELSE UNCHANGED hook
  /\ UNCHANGED <<acct, userOps, receipts, refreshed, armRaced>>

\* handleOps: a nonce is used once, a sponsored operation is counted, and a
\* batch reverts unless the batch contract may take the QUSDC.
MineOp(o) ==
  /\ userOps[o].status = "pool"
  /\ OpAcceptable(userOps[o].mode, userOps[o].nonce)
  /\ \E ok \in BOOLEAN :
       /\ userOps[o].kind \in {"arm", "approve"} => ok
       /\ userOps[o].kind = "batch" /\ ~acct.batchable => ~ok
       /\ userOps' = [userOps EXCEPT ![o].status = IF ok THEN "mined" ELSE "reverted"]
       /\ acct' = [nonce |-> acct.nonce + 1,
                   free |-> acct.free + (IF userOps[o].mode = "sponsored" THEN 1 ELSE 0),
                   armed |-> acct.armed \/ userOps[o].kind = "arm",
                   batchable |-> acct.batchable \/ userOps[o].kind = "approve"]
  /\ UNCHANGED <<hook, task, receipts, refreshed, armRaced>>

DropOp(o) ==
  /\ userOps[o].status = "pool"
  /\ userOps' = [userOps EXCEPT ![o].status = "dropped"]
  /\ UNCHANGED <<acct, hook, task, receipts, refreshed, armRaced>>

\* waitForUserOp answers with the receipt of an operation that was executed, or
\* "failed" without a transaction when the polls are used up.
Answers(o) ==
  {"timeout"} \cup (IF userOps[o].status \in {"mined", "reverted"} THEN {userOps[o].status} ELSE {})

\* What the task does with the answer.  A plan goes on to its batch when the
\* batch contract is approved.  The batch page issues receipts when the answer
\* names a transaction.
AnswerWait(t) ==
  /\ task[t].stage = "wait"
  /\ \E answer \in Answers(task[t].op) :
       /\ IF task[t].kind = "bulk" /\ task[t].approving /\ answer = "mined"
          THEN task' = [task EXCEPT ![t].stage = "build", ![t].approving = FALSE]
          ELSE Ends(t)
       /\ IF task[t].kind = "status" THEN ArmingEnds(t) ELSE UNCHANGED hook
       /\ receipts' = receipts \cup {o \in {task[t].op} : task[t].kind = "batch" /\ answer # "timeout"}
  /\ UNCHANGED <<acct, userOps, refreshed, armRaced>>

AccountNext ==
  \/ \E p \in Page : OpenPage(p) \/ LeavePage(p) \/ Refresh(p)
  \/ \E p \in Page, kind \in Kinds : Press(p, kind)
  \/ \E t \in DOMAIN task : \/ ReadStatus(t) \/ ArmCheck(t) \/ TakeRoute(t)
                            \/ Build(t) \/ Submit(t) \/ NotSent(t) \/ AnswerWait(t)
  \/ \E o \in DOMAIN userOps : MineOp(o) \/ DropOp(o)

AccountSpec == AccountInit /\ [][AccountNext]_accountVars
-----------------------------------------------------------------------------
(***************************************************************************)
(* useGasStatus.ts:20: arming is "true while the one-time paymaster        *)
(* approval is in flight".  It is, unless the hook was restarted meanwhile *)
(* (then nothing puts it out, and the pay buttons of the page stay off),   *)
(* and a page has one approval in flight at a time, restarted or not.      *)
(***************************************************************************)
ArmingShownIsInFlight ==
  \A p \in Page :
    LET own == {t \in Approving : task[t].page = p /\ task[t].mounted} IN
    /\ hook[p].arming => own # {} \/ p \in refreshed
    /\ Cardinality(own) <= 1

(***************************************************************************)
(* "Arm QUSDC gas once": one free operation at most is spent on the        *)
(* approval, across pages that are left and opened again, as long as no    *)
(* approval is begun while another one is under way or may still be mined. *)
(***************************************************************************)
ArmedOnceUnlessRaced ==
  armRaced \/ Cardinality({o \in DOMAIN userOps : userOps[o].kind = "arm" /\ userOps[o].status = "mined"}) <= 1

\* The approval is shown while it is made and is made once.
ArmingIsSound == ArmingShownIsInFlight /\ ArmedOnceUnlessRaced

(***************************************************************************)
(* BulkImport.tsx:193: a reverted operation may be mined in a successful   *)
(* transaction, and "reporting that txHash would mark a failed payment     *)
(* confirmed".  Receipts of a batch are of a batch that was paid.          *)
(***************************************************************************)
BatchReceiptsBacked == \A o \in receipts : userOps[o].status = "mined"
=============================================================================
