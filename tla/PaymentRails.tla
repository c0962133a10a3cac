------------------------------ MODULE PaymentRails ------------------------------
(***************************************************************************)
(* SubscriptionManager.sol, PaymentRequest.sol and BatchPayments.sol over  *)
(* one QUSDC token: every external function an action with its msg.sender  *)
(* first, under any callers.  A call that reverts changes nothing, so an   *)
(* action's guard is the conjunction of what the function requires.  The   *)
(* calls the SDK client and the app build are these functions reached      *)
(* through execute() of the caller's smart account.                        *)
(***************************************************************************)
EXTENDS Integers, FiniteSets

CONSTANTS
  Party,          \* smart accounts
  Anyone,           \* address(0) as the payer of a request
  Plan,             \* what is subscribed to: [amount, period, maxPayments, startAt]
  Invoice,          \* what is requested: [amount, expiryDelta]
  Allowed,          \* allowances that are approved
  MinPeriod,        \* MIN_PERIOD
  MaxSubsPerPayer,  \* MAX_SUBS_PER_PAYER
  MaxExpiry,        \* MAX_EXPIRY
  MaxSubs,          \* bound on subscriptions
  MaxRequests,      \* bound on requests
  Horizon           \* bound on block.timestamp

ASSUME RailsAssumption ==
  /\ IsFiniteSet(Party)
  /\ Anyone \notin Party
  /\ MinPeriod \in Nat \ {0}
  /\ MaxSubsPerPayer \in Nat
  /\ MaxExpiry \in Nat
  /\ {MaxSubs, MaxRequests, Horizon} \subseteq Nat
  /\ Allowed \subseteq Nat
  /\ Plan \subseteq [amount : Nat, period : Nat, maxPayments : Nat, startAt : Nat]
  /\ Invoice \subseteq [amount : Nat, expiryDelta : Nat]

RailContract == {"subscriptions", "requests", "batch"}

\* firstChargeAt is the startAt of the Subscribed event, which the contract
\* does not keep.
Subscription ==
  [payer : Party, payee : Party, amount : Nat \ {0}, period : Nat \ {0},
   maxPayments : Nat \ {0}, paymentsMade : Nat, firstChargeAt : Nat,
   nextChargeAt : Nat, active : BOOLEAN]
Request ==
  [requestor : Party, payer : Party \cup {Anyone}, amount : Nat \ {0},
   expiry : Nat, status : {"Pending", "Paid", "Cancelled"}]

VARIABLES
  subs,           \* subscription id -> Subscription, for the ids given so far
  payerSubCount,  \* _payerSubCount
  requests,       \* request id -> Request, for the ids given so far
  bal,            \* QUSDC balance
  allowance,      \* owner -> rail contract -> what it may pull
  moved,          \* history: <<owner, payee>> -> what Pull moved between them
  time            \* block.timestamp

subVars == <<subs, payerSubCount>>
moneyVars == <<bal, allowance, moved>>
railsVars == <<subVars, requests, moneyVars, time>>

RailsInit ==
  /\ subs = << >>
  /\ payerSubCount = [a \in Party |-> 0]
  /\ requests = << >>
  /\ bal \in [Party -> Allowed]
  /\ allowance = [a \in Party |-> [r \in RailContract |-> 0]]
  /\ moved = [x \in Party \X Party |-> 0]
  /\ time = 1

\* transferFrom by a rail contract, and what it does to owner and payee.
CanPull(rail, owner, n) == allowance[owner][rail] >= n /\ bal[owner] >= n
Pull(rail, owner, payee, n) ==
  /\ bal' = [bal EXCEPT ![owner] = @ - n, ![payee] = @ + n]
  /\ allowance' = [allowance EXCEPT ![owner] =
                     [@ EXCEPT ![rail] = allowance[owner][rail] - n]]
  /\ moved' = [moved EXCEPT ![<<owner, payee>>] = @ + n]

NextId(f) == Cardinality(DOMAIN f) + 1
With(f, id, v) == [i \in DOMAIN f \cup {id} |-> IF i = id THEN v ELSE f[i]]

Approve(owner, rail, n) ==
  /\ allowance' = [allowance EXCEPT ![owner] = [@ EXCEPT ![rail] = n]]
  /\ UNCHANGED <<subVars, requests, bal, moved, time>>

\* pay(): a direct transfer from the caller's account.
Pay(payer, payee, n) ==
  /\ n > 0
  /\ bal[payer] >= n
  /\ bal' = [bal EXCEPT ![payer] = @ - n, ![payee] = @ + n]
  /\ UNCHANGED <<subVars, requests, allowance, moved, time>>

\* Every recipient is paid or none is.
BatchPay(payer, recipients, n) ==
  LET total == n * Cardinality(recipients) IN
  /\ n > 0
  /\ CanPull("batch", payer, total)
  /\ bal' = [a \in Party |-> IF a = payer THEN bal[a] - total
                               ELSE IF a \in recipients THEN bal[a] + n ELSE bal[a]]
  /\ allowance' = [allowance EXCEPT ![payer] = [@ EXCEPT !["batch"] = allowance[payer]["batch"] - total]]
  /\ UNCHANGED <<subVars, requests, moved, time>>
-----------------------------------------------------------------------------
Latest(a, b) == IF a > b THEN a ELSE b

Subscribe(payer, payee, p) ==
  LET first == Latest(p.startAt, time) IN
  /\ p.amount > 0
  /\ p.period >= MinPeriod
  /\ p.maxPayments > 0
  /\ payerSubCount[payer] < MaxSubsPerPayer
  /\ Cardinality(DOMAIN subs) < MaxSubs
  /\ subs' = With(subs, NextId(subs),
       [payer |-> payer, payee |-> payee, amount |-> p.amount, period |-> p.period,
        maxPayments |-> p.maxPayments, paymentsMade |-> 0, firstChargeAt |-> first,
        nextChargeAt |-> first, active |-> TRUE])
  /\ payerSubCount' = [payerSubCount EXCEPT ![payer] = @ + 1]
  /\ UNCHANGED <<requests, moneyVars, time>>

IsDueOnSchedule(id) == time >= subs[id].nextChargeAt /\ subs[id].paymentsMade < subs[id].maxPayments

\* isDue(), the view the keeper asks.
IsDue(id) ==
  /\ subs[id].active
  /\ time >= subs[id].nextChargeAt
  /\ subs[id].paymentsMade < subs[id].maxPayments

\* The record and the count after one more payment; the last one closes it.
Charged(s) ==
  [s EXCEPT !.paymentsMade = @ + 1, !.nextChargeAt = @ + s.period,
            !.active = s.paymentsMade + 1 < s.maxPayments]

CountKept(id) == UNCHANGED payerSubCount
CountCharge(id) ==
  payerSubCount' = IF Charged(subs[id]).active THEN payerSubCount
                   ELSE [payerSubCount EXCEPT ![subs[id].payer] = @ - 1]

Chargeable(caller, id) ==
  /\ id \in DOMAIN subs
  /\ caller = subs[id].payee
  /\ IsDue(id)
  /\ CanPull("subscriptions", subs[id].payer, subs[id].amount)

Charge(caller, id) ==
  /\ Chargeable(caller, id)
  /\ subs' = [subs EXCEPT ![id] = Charged(subs[id])]
  /\ CountCharge(id)
  /\ Pull("subscriptions", subs[id].payer, subs[id].payee, subs[id].amount)
  /\ UNCHANGED <<requests, time>>

CancelSubscription(caller, id) ==
  /\ id \in DOMAIN subs
  /\ subs[id].active
  /\ caller = subs[id].payer
  /\ subs' = [subs EXCEPT ![id].active = FALSE]
  /\ payerSubCount' = [payerSubCount EXCEPT ![caller] = @ - 1]
  /\ UNCHANGED <<requests, moneyVars, time>>
-----------------------------------------------------------------------------
CreateRequest(requestor, payer, v) ==
  /\ v.amount > 0
  /\ v.expiryDelta <= MaxExpiry
  /\ Cardinality(DOMAIN requests) < MaxRequests
  /\ requests' = With(requests, NextId(requests),
       [requestor |-> requestor, payer |-> payer, amount |-> v.amount,
        expiry |-> time + v.expiryDelta, status |-> "Pending"])
  /\ UNCHANGED <<subVars, moneyVars, time>>

Pending(id) == id \in DOMAIN requests /\ requests[id].status = "Pending"

PayRequest(caller, id) ==
  /\ Pending(id)
  /\ requests[id].expiry > 0 => time <= requests[id].expiry
  /\ requests[id].payer \in {Anyone, caller}
  /\ CanPull("requests", caller, requests[id].amount)
  /\ requests' = [requests EXCEPT ![id].status = "Paid"]
  /\ Pull("requests", caller, requests[id].requestor, requests[id].amount)
  /\ UNCHANGED <<subVars, time>>

CancelRequest(caller, id) ==
  /\ Pending(id)
  /\ caller \in {requests[id].requestor, requests[id].payer}
  /\ requests' = [requests EXCEPT ![id].status = "Cancelled"]
  /\ UNCHANGED <<subVars, moneyVars, time>>

RailsTick ==
  /\ time < Horizon
  /\ time' = time + 1
  /\ UNCHANGED <<subVars, requests, moneyVars>>

RailsCalls ==
  \/ \E a \in Party, r \in RailContract, n \in Allowed : Approve(a, r, n)
  \/ \E a, b \in Party, n \in Allowed : Pay(a, b, n)
  \/ \E a \in Party : \E to \in SUBSET (Party \ {a}), n \in Allowed : BatchPay(a, to, n)
  \/ \E a, b \in Party, p \in Plan : Subscribe(a, b, p)
  \/ \E a \in Party, id \in DOMAIN subs : Charge(a, id)
  \/ \E a \in Party, id \in DOMAIN subs : CancelSubscription(a, id)
  \/ \E a \in Party, p \in Party \cup {Anyone}, v \in Invoice : CreateRequest(a, p, v)
  \/ \E a \in Party, id \in DOMAIN requests : PayRequest(a, id)
  \/ \E a \in Party, id \in DOMAIN requests : CancelRequest(a, id)

RailsNext == RailsCalls \/ RailsTick

RailsSpec == RailsInit /\ [][RailsNext]_railsVars
-----------------------------------------------------------------------------
RailsTypeOK ==
  /\ DOMAIN subs \subseteq 1..MaxSubs
  /\ subs \in [DOMAIN subs -> Subscription]
  /\ payerSubCount \in [Party -> Nat]
  /\ DOMAIN requests \subseteq 1..MaxRequests
  /\ requests \in [DOMAIN requests -> Request]
  /\ bal \in [Party -> Nat]
  /\ allowance \in [Party -> [RailContract -> Nat]]
  /\ moved \in [Party \X Party -> Nat]
  /\ time \in Nat

OpenSubs(a) == {id \in DOMAIN subs : subs[id].payer = a /\ subs[id].active}

(***************************************************************************)
(* The per-payer count that limits open subscriptions, changed in three    *)
(* functions, is the number of open subscriptions: a count that is lost    *)
(* or kept too long would lift the limit or lock the payer out.            *)
(***************************************************************************)
SubCountsExact == \A a \in Party : payerSubCount[a] = Cardinality(OpenSubs(a))

(***************************************************************************)
(* Whatever gaps the charging has, a payee has never drawn more payments   *)
(* than the periods that began since the first charge, or than agreed, and *)
(* an open subscription still has a payment to make.                       *)
(***************************************************************************)
ChargesWithinElapsed ==
  \A id \in DOMAIN subs : LET s == subs[id] IN
    /\ s.paymentsMade <= s.maxPayments
    /\ s.active => s.paymentsMade < s.maxPayments
    /\ s.paymentsMade > 0 => s.firstChargeAt + (s.paymentsMade - 1) * s.period <= time

\* What a payer and a payee can rely on: the number of open subscriptions and
\* what has been drawn are what was agreed.
SubscriptionsExact == SubCountsExact /\ ChargesWithinElapsed

\* The consents of the abstract ledger: an open subscription may be settled as
\* often as payments are left, a pending request once.
Consents == ({"sub"} \X (1..MaxSubs)) \cup ({"request"} \X (1..MaxRequests))

TermsOf(c) ==
  IF c[1] = "sub"
  THEN [payer |-> subs[c[2]].payer, payee |-> subs[c[2]].payee, amount |-> subs[c[2]].amount]
  ELSE [payer |-> requests[c[2]].payer, payee |-> requests[c[2]].requestor,
        amount |-> requests[c[2]].amount]

QuotaOf(c) ==
  CASE c[1] = "sub" /\ c[2] \in DOMAIN subs ->
         IF subs[c[2]].active THEN subs[c[2]].maxPayments - subs[c[2]].paymentsMade ELSE 0
    [] c[1] = "request" /\ c[2] \in DOMAIN requests ->
         IF requests[c[2]].status = "Pending" THEN 1 ELSE 0
    [] OTHER -> 0

Given == ({"sub"} \X DOMAIN subs) \cup ({"request"} \X DOMAIN requests)

Ledger == INSTANCE ConsentLedger WITH
  Consent <- Consents,
  terms <- [c \in Given |-> TermsOf(c)],
  quota <- [c \in Consents |-> QuotaOf(c)]

(***************************************************************************)
(* The pull contracts implement the consent ledger: every transferFrom of  *)
(* theirs is one settlement of a consent that is still open, on the terms  *)
(* it was given with, whatever was charged, paid or cancelled before.      *)
(***************************************************************************)
RailsKeepConsents == Ledger!LedgerSpec
================================================================================
