--------------------------- MODULE SessionExecution ---------------------------
(***************************************************************************)
(* How session-key operations reach AgentPolicyManager: the session path   *)
(* of QevieSmartAccount.sol under EntryPoint.handleOps.                    *)
(*                                                                         *)
(* handleOps is one transaction with two loops: it validates every         *)
(* operation of the bundle (validateUserOp) and only then executes them    *)
(* one by one (executeSession, executeSessionBatch, execute).  An          *)
(* operation that was valid in the first loop is executed after whatever   *)
(* the operations before it did.  Transactions of external wallets and the *)
(* clock move only between bundles.                                        *)
(***************************************************************************)
EXTENDS AgentPolicyManager

CONSTANTS
  SessionOp,    \* session operations: sender, policy, key, batch, calls
  BundleSize    \* most operations in a bundle

ASSUME BundleAssumption == BundleSize \in Nat \ {0}

ASSUME SessionOpAssumption ==
  \A op \in SessionOp :
    /\ op.kind = "session" /\ op.sender \in Account /\ op.calls \in Seq(Call)
    /\ IF op.batch THEN op.calls \in Batch
                   ELSE Len(op.calls) = 1

\* An operation signed by the account's owner: execute() with a call to the
\* manager or to the account itself.
OwnerOp == [kind : {"owner"}, sender : Account]

VARIABLES
  phase,        \* of the EntryPoint: "idle", "validating" or "executing"
  bundle,       \* the operations of the current handleOps call still to run
  ledger,       \* history: policy id -> time -> QUSDC moved by session calls
  liveAtStart   \* history: the policies live when the bundle began

entryVars == <<phase, bundle, ledger, liveAtStart>>
sessionVars == <<vars, entryVars>>

SessionInit ==
  /\ Init
  /\ phase = "idle"
  /\ bundle = << >>
  /\ ledger = [id \in PolicyId |-> [t \in Time |-> 0]]
  /\ liveAtStart = {}

Revoked(id) == ~policies[id].active \/ policies[id].guardianRevoked

LivePolicies == {id \in DOMAIN policies :
                   /\ ~Revoked(id)
                   /\ now >= policies[id].terms.validAfter
                   /\ now <= policies[id].terms.validUntil}

\* _isValidSessionSignature: the manager's view of the operation.
SessionOpValid(op) ==
  IF op.batch THEN SessionBatchValid(op.policy, op.sender, op.key, op.calls)
              ELSE SessionCallValid(op.policy, op.sender, op.key, op.calls[1])

\* One turn of the validation loop.  A bundle with an invalid operation
\* reverts as a whole, so only valid operations are collected.
Validate(op) ==
  /\ phase # "executing"
  /\ Len(bundle) < BundleSize
  /\ op \in SessionOp => SessionOpValid(op)
  /\ phase' = "validating"
  /\ bundle' = Append(bundle, op)
  /\ liveAtStart' = LivePolicies
  /\ UNCHANGED <<vars, ledger>>

StartExecution ==
  /\ phase = "validating"
  /\ phase' = "executing"
  /\ UNCHANGED <<vars, bundle, ledger, liveAtStart>>

NextOp ==
  /\ phase = "executing"
  /\ bundle' = Tail(bundle)
  /\ phase' = IF Len(bundle) = 1 THEN "idle" ELSE "executing"
  /\ UNCHANGED liveAtStart

\* What a call moves at once: a subscription and a new request move nothing.
Moved(c) ==
  IF c.selector \in {"transfer", "batchPay", "payRequest"} THEN TotalPaid(c) ELSE 0

Enter(id, amount) ==
  ledger' = [ledger EXCEPT ![id][now] = @ + amount]

\* executeSession: the spend is recorded, then the call is made.
ExecuteSession(op) ==
  /\ ~op.batch
  /\ RecordSessionCall(op.sender, op.policy, op.calls[1])
  /\ Enter(op.policy, Moved(op.calls[1]))

ExecuteSessionBatch(op) ==
  /\ op.batch
  /\ RecordSessionBatchCall(op.sender, op.policy, op.calls)
  /\ Enter(op.policy,
           FoldFunction(LAMBDA c, sum : Moved(c) + sum, 0, op.calls))

RunSessionOp ==
  /\ bundle # << >> /\ Head(bundle) \in SessionOp
  /\ ExecuteSession(Head(bundle)) \/ ExecuteSessionBatch(Head(bundle))
  /\ NextOp

\* execute() called by the EntryPoint: the account calls the manager.
RunOwnerOp ==
  /\ bundle # << >> /\ Head(bundle) \in OwnerOp
  /\ Manage(Head(bundle).sender) \/ Record(Head(bundle).sender)
  /\ NextOp
  /\ UNCHANGED ledger

\* The inner call of an operation reverts (a refused spend, a failed token
\* transfer), or an owner's operation goes elsewhere: the manager is untouched.
RunWithoutEffect ==
  /\ bundle # << >>
  /\ NextOp
  /\ UNCHANGED <<vars, ledger>>

\* A transaction of an external wallet, or time passing between bundles.
Direct ==
  /\ phase = "idle"
  /\ \/ \E caller \in Address \ Account : Manage(caller)
     \/ Tick
  /\ UNCHANGED entryVars

SessionNext ==
  \/ \E op \in SessionOp \cup OwnerOp : Validate(op)
  \/ StartExecution
  \/ RunSessionOp
  \/ RunOwnerOp
  \/ RunWithoutEffect
  \/ Direct

SessionSpec == SessionInit /\ [][SessionNext]_sessionVars

-----------------------------------------------------------------------------
(* Properties *)

SumBetween(id, from, to) ==
  FoldFunctionOnSet(LAMBDA x, y : x + y, 0, ledger[id], from..to)

\* The counters tell the truth about the money: what left the account under a
\* policy since its day (week) window opened, and ever, never exceeds the
\* counter the caps are compared with (record before call in executeSession).
CountersCoverLedger ==
  \A id \in DOMAIN policies :
    LET p == policies[id] IN
    /\ SumBetween(id, p.dayWindowStart, now) <= p.spentToday
    /\ SumBetween(id, p.weekWindowStart, now) <= p.spentThisWeek
    /\ SumBetween(id, 0, now) <= p.spentTotal

\* The day window is restarted by the first spend after it ends, not by the
\* calendar: any 24 hours overlap at most two windows, so they see at most
\* twice the daily limit (and any 7 days at most twice the weekly limit).  Of
\* every stretch of time the states at its end judge it.
RollingWindowAtMostTwice ==
  \A id \in DOMAIN policies :
    LET since(length) == IF now >= length THEN now - length + 1 ELSE 0 IN
    /\ SumBetween(id, since(Day), now) <= 2 * policies[id].terms.dailyLimit
    /\ SumBetween(id, since(Week), now) <= 2 * policies[id].terms.weeklyLimit

Spends(id) == ledger'[id] # ledger[id]

\* Money moves under a policy only by an operation of the policy's own account
\* signed by its own session key, on targets and to recipients that are on the
\* lists at that moment: the lists are read again when the spend is recorded,
\* so a recipient removed between validation and execution is not paid.
SpendsObeyCurrentLists ==
  [][\A id \in PolicyId : Spends(id) =>
       LET op == Head(bundle) IN
       /\ op.policy = id
       /\ op.key = policies[id].terms.sessionKey
       /\ op.sender = policies[id].terms.smartAccount
       /\ \A i \in DOMAIN op.calls :
            /\ op.calls[i].target \in allowedTargets
            /\ op.calls[i].selector # "createRequest" =>
                 DOMAIN op.calls[i].pays \subseteq allowedRecipients[id]]_sessionVars

\* Revocation and expiry are checked in the validation loop only, so they bite
\* from the next bundle on: a spend is of a policy that was live when the
\* bundle that carries it began.
SpendsWereLiveAtStart ==
  [][\A id \in PolicyId : Spends(id) => id \in liveAtStart]_sessionVars

\* What a policy permits, in full: the terms at the moment of the spend and the
\* policy's life at the start of the bundle.
SpendsAreAuthorized == SpendsObeyCurrentLists /\ SpendsWereLiveAtStart

\* docs/bulk-intent-import.md: the manager "re-enforces every limit at
\* executeSession".  A policy that is already revoked moves no money.
NoSpendAfterRevocation ==
  [][\A id \in PolicyId : Spends(id) => ~Revoked(id)]_sessionVars
=============================================================================
