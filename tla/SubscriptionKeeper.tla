--------------------------- MODULE SubscriptionKeeper ---------------------------
(***************************************************************************)
(* keeper.ts of the paymaster service over the payment rails: each tick    *)
(* goes through the subscriptions it tracks, reads the chain, submits a    *)
(* charge as a user operation of the service's own account, waits for it   *)
(* and issues a receipt.  setInterval starts a tick whether or not the     *)
(* last one has ended, so ticks overlap.  lib/subscriptions.ts, through    *)
(* which the app shows and cancels subscriptions, is here too.             *)
(***************************************************************************)
EXTENDS PaymentRails

CONSTANTS
  Keeper,         \* the smart account of SIGNER_PRIVATE_KEY
  TickName,       \* names of the ticks that may run at one time
  NoOp,           \* the bundler holds no operation
  TracksNewSubs,  \* whether anything calls trackSubscription
  ListLimit,      \* ids the app reads at most (250)
  EmptyRun,       \* unreadable ids in a row after which it stops (6)
  MaxFaults       \* bound on failed reads, refused and dropped operations

ASSUME KeeperAssumption ==
  /\ Keeper \in Party
  /\ TracksNewSubs \in BOOLEAN
  /\ {ListLimit, EmptyRun, MaxFaults} \subseteq Nat

VARIABLES
  activeSubs,   \* the list kept in memory
  tick,         \* tick -> where its loop is
  pool,         \* the operation the bundler holds for the keeper's account
  receipts,     \* receipts issued: [sub, number, charge], charge the payment
                \* whose transaction the receipt names
  faults

keeperVars == <<activeSubs, tick, pool, receipts, faults>>
allKeeperVars == <<railsVars, keeperVars>>

Idle == [pc |-> "idle", seen |-> {}, sub |-> 0, number |-> 0, charge |-> 0]

KeeperInit ==
  /\ RailsInit
  /\ activeSubs = {}
  /\ tick = [t \in TickName |-> Idle]
  /\ pool = NoOp
  /\ receipts = {}
  /\ faults = 0

Fault == faults < MaxFaults /\ faults' = faults + 1
\* A step that fails of itself, or by a fault when it need not.
FailsUnless(possible) == IF possible THEN Fault ELSE UNCHANGED faults

\* trackSubscription, exported by keeper.ts.
TrackSubscription(id) ==
  /\ TracksNewSubs
  /\ id \in DOMAIN subs \ activeSubs
  /\ activeSubs' = activeSubs \cup {id}
  /\ UNCHANGED <<railsVars, tick, pool, receipts, faults>>

StartTick(t) ==
  /\ tick[t].pc = "idle"
  /\ activeSubs # {}
  /\ tick' = [tick EXCEPT ![t] = [Idle EXCEPT !.pc = "loop"]]
  /\ UNCHANGED <<railsVars, activeSubs, pool, receipts, faults>>

\* The loop reads the live list, so what is tracked meanwhile is visited too.
EndTick(t) ==
  /\ tick[t].pc = "loop"
  /\ activeSubs \subseteq tick[t].seen
  /\ tick' = [tick EXCEPT ![t] = Idle]
  /\ UNCHANGED <<railsVars, activeSubs, pool, receipts, faults>>

\* isDue, then getSubscription; a read that throws ends this subscription's turn.
ReadSub(t, id) ==
  /\ tick[t].pc = "loop"
  /\ id \in activeSubs \ tick[t].seen
  /\ \/ /\ IsDue(id)
        /\ tick' = [tick EXCEPT ![t].pc = "due", ![t].seen = @ \cup {id},
                                ![t].sub = id, ![t].number = subs[id].paymentsMade + 1]
        /\ UNCHANGED faults
     \/ /\ FailsUnless(IsDue(id))
        /\ tick' = [tick EXCEPT ![t].seen = @ \cup {id}]
  /\ UNCHANGED <<railsVars, activeSubs, pool, receipts>>

NextTurn(t) == tick' = [tick EXCEPT ![t] = [Idle EXCEPT !.pc = "loop", !.seen = tick[t].seen]]

\* buildAndSign reads the account's nonce and the bundler refuses an operation
\* with the nonce of one it still holds: it holds one at a time.
SubmitCharge(t) ==
  /\ tick[t].pc = "due"
  /\ \/ /\ pool = NoOp
        /\ pool' = [sub |-> tick[t].sub, from |-> t]
        /\ tick' = [tick EXCEPT ![t].pc = "wait"]
        /\ UNCHANGED faults
     \/ /\ FailsUnless(pool = NoOp)
        /\ NextTurn(t)
        /\ UNCHANGED pool
  /\ UNCHANGED <<railsVars, activeSubs, receipts>>

\* The bundler has the EntryPoint execute the operation: charge() is called by
\* the keeper's account and may revert inside it.  The tick that waits for it,
\* if it still does, can see the transaction.
Mine ==
  /\ pool # NoOp
  /\ \/ /\ Charge(Keeper, pool.sub)
        /\ tick' = IF tick[pool.from].pc # "wait" THEN tick
                   ELSE [tick EXCEPT ![pool.from].charge = subs[pool.sub].paymentsMade + 1]
     \/ ~Chargeable(Keeper, pool.sub) /\ UNCHANGED <<railsVars, tick>>
  /\ pool' = NoOp
  /\ UNCHANGED <<activeSubs, receipts, faults>>

Drop ==
  /\ pool # NoOp
  /\ Fault
  /\ pool' = NoOp
  /\ UNCHANGED <<railsVars, activeSubs, tick, receipts>>

\* waitForUserOp answers "mined", or "failed" when the operation reverted or
\* the time is up; then issueReceipt, which may throw.
MinedOrGone(t) == pool = NoOp
Mined(t) == tick[t].charge > 0

AwaitForever(t) ==
  /\ tick[t].pc = "wait"
  /\ Mined(t)
  /\ receipts' = receipts \cup
       {[sub |-> tick[t].sub, number |-> tick[t].number, charge |-> tick[t].charge]}
  /\ NextTurn(t)
  /\ UNCHANGED <<railsVars, activeSubs, pool, faults>>

AwaitCharge(t) ==
  /\ tick[t].pc = "wait"
  /\ \/ /\ Mined(t)
        /\ receipts' = receipts \cup
             {[sub |-> tick[t].sub, number |-> tick[t].number, charge |-> tick[t].charge]}
        /\ UNCHANGED faults
     \/ FailsUnless(Mined(t)) /\ UNCHANGED receipts
  /\ NextTurn(t)
  /\ UNCHANGED <<railsVars, activeSubs, pool>>

KeeperStep(t) ==
  \/ StartTick(t)
  \/ \E id \in activeSubs : ReadSub(t, id)
  \/ SubmitCharge(t)
  \/ AwaitCharge(t)
  \/ EndTick(t)

KeeperNext ==
  \/ RailsNext /\ UNCHANGED keeperVars
  \/ \E id \in DOMAIN subs : TrackSubscription(id)
  \/ \E t \in TickName : KeeperStep(t)
  \/ Mine
  \/ Drop

\* The interval timer runs on, the loop's awaits return, and the bundler
\* executes or drops what it holds.
KeeperSpec ==
  /\ KeeperInit /\ [][KeeperNext]_allKeeperVars
  /\ \A t \in TickName : WF_allKeeperVars(KeeperStep(t))
  /\ WF_allKeeperVars(Mine)
-----------------------------------------------------------------------------
\* loadSubscriptionsFor: ids in order from 1, until EmptyRun of them in a row
\* could not be read.
Unread(id, failing) == id \notin DOMAIN subs \/ id \in failing
Reached(id, failing) ==
  /\ id <= ListLimit
  /\ ~\E j \in 1..id : j + EmptyRun <= id /\ \A k \in j..(j + EmptyRun - 1) : Unread(k, failing)
LoadSubscriptionsFor(a, failing) ==
  {id \in DOMAIN subs \ failing : Reached(id, failing) /\ subs[id].payer = a}

IsCancellable(s) == s.active /\ s.paymentsMade < s.maxPayments
SubStatus(s) == CASE ~s.active -> "Cancelled"
                  [] s.active /\ s.paymentsMade >= s.maxPayments -> "Completed"
                  [] OTHER -> "Active"

(***************************************************************************)
(* Receipts speak of payments: the keeper has issued no more receipts for  *)
(* a subscription than charges were made, whatever ticks overlap, time     *)
(* out or see their operation revert, and no receipt is for a later        *)
(* payment than was made.                                                  *)
(***************************************************************************)
ReceiptsBacked ==
  \A id \in DOMAIN subs :
    LET mine == {r \in receipts : r.sub = id} IN
    /\ Cardinality(mine) <= subs[id].paymentsMade
    /\ \A r \in mine : r.number <= subs[id].paymentsMade

(***************************************************************************)
(* The app lists, and offers to cancel, every subscription its payer could *)
(* still be charged for, as long as fewer reads fail than end the walk and *)
(* the subscription is among the ids the walk covers.                      *)
(***************************************************************************)
OpenSubsCanBeCancelled ==
  \A a \in Party, failing \in SUBSET DOMAIN subs :
    Cardinality(failing) < EmptyRun =>
      \A id \in OpenSubs(a) \ failing :
        id <= ListLimit =>
          /\ id \in LoadSubscriptionsFor(a, failing)
          /\ IsCancellable(subs[id]) /\ SubStatus(subs[id]) = "Active"

\* What the app and the receipts say of subscriptions is true of the contract.
SubscriptionsAreReported == ReceiptsBacked /\ OpenSubsCanBeCancelled

(***************************************************************************)
(* A subscription to the keeper's account that it tracks does not stay     *)
(* chargeable for ever: the keeper keeps trying until it is charged, ends, *)
(* or the payer's money or approval is gone.                               *)
(***************************************************************************)
TrackedIsCharged ==
  \A id \in 1..MaxSubs : []<>(id \notin activeSubs \/ ~Chargeable(Keeper, id))

================================================================================
