----------------------------- MODULE ServicesProofs -----------------------------
(***************************************************************************)
(* Proofs about the services and the contracts they work on, for any       *)
(* parties, plans, invoices, blocks and bounds: a subscription yields what *)
(* was agreed, the rails implement the ledger of consents, the treasury's  *)
(* balances stand for money that is there, the keeper's receipts for       *)
(* charges that were made, and the index for what the chain holds.         *)
(***************************************************************************)
EXTENDS SubscriptionKeeper, Treasury, ProtocolIndexer, FiniteSetTheorems, SumTheorems, TLAPS

-----------------------------------------------------------------------------
(* The payment rails *)

\* The ids given are 1, 2, ..., so that the next one is new.
IdsInOrder(f) == \E k \in Nat : DOMAIN f = 1..k

\* Each charge moves the due date by one period, from the first charge on, and
\* none is made before it is due.
OnSchedule(s) ==
  /\ s.paymentsMade <= s.maxPayments
  /\ s.active => s.paymentsMade < s.maxPayments
  /\ s.nextChargeAt = s.firstChargeAt + s.paymentsMade * s.period
  /\ s.paymentsMade > 0 => s.nextChargeAt - s.period <= time

RailsInv ==
  /\ RailsTypeOK
  /\ IdsInOrder(subs)
  /\ IdsInOrder(requests)
  /\ SubCountsExact
  /\ \A id \in DOMAIN subs : OnSchedule(subs[id])

LEMMA NextIdIsNew ==
  ASSUME NEW f, NEW k \in Nat, DOMAIN f = 1..k
  PROVE  /\ NextId(f) = k + 1
         /\ Cardinality(DOMAIN f) = k
         /\ NextId(f) \notin DOMAIN f
         /\ DOMAIN f \cup {NextId(f)} = 1..(k + 1)
<1>1. Cardinality(1..k) = k
  BY FS_Interval, 1 \in Int, k \in Int
<1>. QED
  BY <1>1 DEF NextId

\* What With does to a function of records.
LEMMA WithAdds ==
  ASSUME NEW f, NEW S, f \in [DOMAIN f -> S], NEW id, id \notin DOMAIN f, NEW v \in S
  PROVE  /\ With(f, id, v) \in [DOMAIN With(f, id, v) -> S]
         /\ DOMAIN With(f, id, v) = DOMAIN f \cup {id}
         /\ With(f, id, v)[id] = v
         /\ \A i \in DOMAIN f : With(f, id, v)[i] = f[i]
BY DEF With

LEMMA OpenSubsFinite ==
  ASSUME NEW k \in Nat, NEW S \in SUBSET (1..k)
  PROVE  IsFiniteSet(S) /\ Cardinality(S) \in Nat
<1>1. IsFiniteSet(1..k)
  BY FS_Interval, 1 \in Int, k \in Int
<1>2. IsFiniteSet(S)
  BY <1>1, FS_Subset
<1>. QED
  BY <1>2, FS_CardinalityType

\* The date of the next charge, one payment later.
LEMMA OnePeriodMore ==
  ASSUME NEW n \in Nat, NEW p \in Nat
  PROVE  (n + 1) * p = n * p + p
OBVIOUS
LEMMA Product == ASSUME NEW n \in Nat, NEW p \in Nat PROVE n * p \in Nat
OBVIOUS
-----------------------------------------------------------------------------
(* The money: types only *)

LEMMA PullTypes ==
  ASSUME RailsTypeOK, NEW rail \in RailContract, NEW owner \in Party, NEW payee \in Party,
         NEW n \in Nat, CanPull(rail, owner, n), Pull(rail, owner, payee, n)
  PROVE  /\ bal' \in [Party -> Nat]
         /\ allowance' \in [Party -> [RailContract -> Nat]]
         /\ moved' \in [Party \X Party -> Nat]
<1>1. bal[owner] - n \in Nat /\ allowance[owner][rail] - n \in Nat
  BY DEF RailsTypeOK, CanPull
<1>2. bal' \in [Party -> Nat]
  <2>1. [bal EXCEPT ![owner] = @ - n] \in [Party -> Nat]
    BY <1>1 DEF RailsTypeOK
  <2>. QED
    BY <2>1 DEF Pull
<1>3. allowance' \in [Party -> [RailContract -> Nat]]
  <2>1. [allowance[owner] EXCEPT ![rail] = allowance[owner][rail] - n] \in [RailContract -> Nat]
    BY <1>1 DEF RailsTypeOK
  <2>. QED
    BY <2>1 DEF RailsTypeOK, Pull
<1>4. moved' \in [Party \X Party -> Nat]
  BY DEF RailsTypeOK, Pull
<1>. QED
  BY <1>2, <1>3, <1>4

LEMMA BatchPayTypes ==
  ASSUME RailsTypeOK, NEW payer \in Party, NEW recipients \in SUBSET (Party \ {payer}),
         NEW n \in Allowed, BatchPay(payer, recipients, n)
  PROVE  /\ bal' \in [Party -> Nat]
         /\ allowance' \in [Party -> [RailContract -> Nat]]
<1>. DEFINE total == n * Cardinality(recipients)
<1>1. n \in Nat
  BY RailsAssumption
<1>2. total \in Nat
  <2>1. IsFiniteSet(recipients)
    BY RailsAssumption, FS_Subset, recipients \in SUBSET Party
  <2>2. Cardinality(recipients) \in Nat
    BY <2>1, FS_CardinalityType
  <2>. QED
    BY <1>1, <2>2
<1>. HIDE DEF total
<1>3. /\ bal[payer] >= total /\ allowance[payer]["batch"] >= total
      /\ bal' = [a \in Party |-> IF a = payer THEN bal[a] - total
                                   ELSE IF a \in recipients THEN bal[a] + n ELSE bal[a]]
      /\ allowance' = [allowance EXCEPT ![payer] =
                         [@ EXCEPT !["batch"] = allowance[payer]["batch"] - total]]
  BY DEF BatchPay, CanPull, total
<1>4. bal' \in [Party -> Nat]
  BY <1>1, <1>2, <1>3 DEF RailsTypeOK
<1>5. allowance' \in [Party -> [RailContract -> Nat]]
  <2>1. [allowance[payer] EXCEPT !["batch"] = allowance[payer]["batch"] - total]
          \in [RailContract -> Nat]
    BY <1>2, <1>3 DEF RailsTypeOK, RailContract
  <2>. QED
    BY <1>3, <2>1 DEF RailsTypeOK
<1>. QED
  BY <1>4, <1>5
-----------------------------------------------------------------------------
(* The count of open subscriptions *)

LEMMA OpenSubsCount ==
  ASSUME RailsInv, NEW a \in Party
  PROVE  IsFiniteSet(OpenSubs(a)) /\ Cardinality(OpenSubs(a)) \in Nat
<1>1. PICK k \in Nat : DOMAIN subs = 1..k
  BY DEF RailsInv, IdsInOrder
<1>2. OpenSubs(a) \in SUBSET (1..k)
  BY <1>1 DEF OpenSubs
<1>. QED
  BY <1>2, OpenSubsFinite

LEMMA OpenedCounts ==
  ASSUME RailsInv, NEW id, id \notin DOMAIN subs, NEW s \in Subscription, s.active,
         subs' = With(subs, id, s),
         payerSubCount' = [payerSubCount EXCEPT ![s.payer] = @ + 1]
  PROVE  payerSubCount' \in [Party -> Nat] /\ SubCountsExact'
<1>1. s.payer \in Party
  BY DEF Subscription
<1>2. payerSubCount' \in [Party -> Nat]
  BY <1>1 DEF RailsInv, RailsTypeOK
<1>3. ASSUME NEW a \in Party
      PROVE  payerSubCount'[a] = Cardinality(OpenSubs(a)')
  <2>1. DOMAIN subs' = DOMAIN subs \cup {id}
        /\ subs'[id] = s /\ \A i \in DOMAIN subs : subs'[i] = subs[i]
    BY DEF With
  <2>2. IsFiniteSet(OpenSubs(a)) /\ Cardinality(OpenSubs(a)) \in Nat
    BY OpenSubsCount
  <2>3. payerSubCount[a] = Cardinality(OpenSubs(a))
    BY DEF RailsInv, SubCountsExact
  <2>4. CASE a = s.payer
    <3>1. OpenSubs(a)' = OpenSubs(a) \cup {id} /\ id \notin OpenSubs(a)
      BY <2>1, <2>4 DEF OpenSubs
    <3>2. Cardinality(OpenSubs(a) \cup {id}) = Cardinality(OpenSubs(a)) + 1
      BY <2>2, <3>1, FS_AddElement
    <3>. QED
      BY <1>1, <2>3, <2>4, <3>1, <3>2 DEF RailsInv, RailsTypeOK
  <2>5. CASE a # s.payer
    <3>1. OpenSubs(a)' = OpenSubs(a)
      BY <2>1, <2>5 DEF OpenSubs
    <3>. QED
      BY <1>1, <2>3, <2>5, <3>1 DEF RailsInv, RailsTypeOK
  <2>. QED
    BY <2>4, <2>5
<1>. QED
  BY <1>2, <1>3 DEF SubCountsExact

LEMMA ClosedCounts ==
  ASSUME RailsInv, NEW id \in DOMAIN subs, subs[id].active,
         NEW s, s.payer = subs[id].payer, ~s.active,
         subs' = [subs EXCEPT ![id] = s],
         payerSubCount' = [payerSubCount EXCEPT ![s.payer] = @ - 1]
  PROVE  payerSubCount' \in [Party -> Nat] /\ SubCountsExact'
<1>1. s.payer \in Party
  BY DEF RailsInv, RailsTypeOK, Subscription
<1>2. /\ DOMAIN subs' = DOMAIN subs /\ subs'[id] = s
      /\ \A i \in DOMAIN subs \ {id} : subs'[i] = subs[i]
  BY DEF RailsInv, RailsTypeOK
<1>3. ASSUME NEW a \in Party
      PROVE  payerSubCount'[a] = Cardinality(OpenSubs(a)') /\ payerSubCount'[a] \in Nat
  <2>1. IsFiniteSet(OpenSubs(a)) /\ Cardinality(OpenSubs(a)) \in Nat
    BY OpenSubsCount
  <2>2. payerSubCount[a] = Cardinality(OpenSubs(a))
    BY DEF RailsInv, SubCountsExact
  <2>3. CASE a = s.payer
    <3>1. OpenSubs(a)' = OpenSubs(a) \ {id} /\ id \in OpenSubs(a)
      BY <1>2, <2>3 DEF OpenSubs
    <3>2. Cardinality(OpenSubs(a) \ {id}) = Cardinality(OpenSubs(a)) - 1
          /\ IsFiniteSet(OpenSubs(a) \ {id})
      BY <2>1, <3>1, FS_RemoveElement
    <3>3. Cardinality(OpenSubs(a) \ {id}) \in Nat
      BY <3>2, FS_CardinalityType
    <3>. QED
      BY <1>1, <2>2, <2>3, <3>1, <3>2, <3>3 DEF RailsInv, RailsTypeOK
  <2>4. CASE a # s.payer
    <3>1. OpenSubs(a)' = OpenSubs(a)
      BY <1>2, <2>4 DEF OpenSubs
    <3>. QED
      BY <1>1, <2>1, <2>2, <2>4, <3>1 DEF RailsInv, RailsTypeOK
  <2>. QED
    BY <2>3, <2>4
<1>. QED
  BY <1>3 DEF SubCountsExact, RailsInv, RailsTypeOK

\* A charge that leaves the subscription open leaves the counts alone.
LEMMA KeptOpenCounts ==
  ASSUME RailsInv, NEW id \in DOMAIN subs, subs[id].active,
         NEW s, s.payer = subs[id].payer, s.active,
         subs' = [subs EXCEPT ![id] = s], payerSubCount' = payerSubCount
  PROVE  payerSubCount' \in [Party -> Nat] /\ SubCountsExact'
<1>1. /\ DOMAIN subs' = DOMAIN subs /\ subs'[id] = s
      /\ \A i \in DOMAIN subs \ {id} : subs'[i] = subs[i]
  BY DEF RailsInv, RailsTypeOK
<1>2. \A a \in Party : OpenSubs(a)' = OpenSubs(a)
  BY <1>1 DEF OpenSubs
<1>. QED
  BY <1>2 DEF SubCountsExact, RailsInv, RailsTypeOK
-----------------------------------------------------------------------------
(* The calls that change subscriptions and requests *)

LEMMA SubscribeKeeps ==
  ASSUME RailsInv, NEW a \in Party, NEW b \in Party, NEW p \in Plan, Subscribe(a, b, p)
  PROVE  RailsInv'
<1>. PICK id, first, s :
       /\ id = NextId(subs)
       /\ first = Latest(p.startAt, time)
       /\ s = [payer |-> a, payee |-> b, amount |-> p.amount, period |-> p.period,
               maxPayments |-> p.maxPayments, paymentsMade |-> 0, firstChargeAt |-> first,
               nextChargeAt |-> first, active |-> TRUE]
  OBVIOUS
<1>1. PICK k \in Nat : DOMAIN subs = 1..k
  BY DEF RailsInv, IdsInOrder
<1>2. id = k + 1 /\ Cardinality(DOMAIN subs) = k /\ id \notin DOMAIN subs
      /\ DOMAIN subs \cup {id} = 1..(k + 1)
  BY <1>1, NextIdIsNew
<1>3. s \in Subscription
  <2>1. p \in [amount : Nat, period : Nat, maxPayments : Nat, startAt : Nat]
        /\ p.amount > 0 /\ p.period >= MinPeriod /\ p.maxPayments > 0
    BY RailsAssumption DEF Subscribe
  <2>2. first \in Nat
    BY <2>1 DEF Latest, RailsInv, RailsTypeOK
  <2>3. p.amount \in Nat \ {0} /\ p.period \in Nat \ {0} /\ p.maxPayments \in Nat \ {0}
    BY <2>1, RailsAssumption
  <2>. QED
    BY <2>2, <2>3 DEF Subscription
<1>4. subs' = With(subs, id, s) /\ payerSubCount' = [payerSubCount EXCEPT ![a] = @ + 1]
      /\ UNCHANGED <<requests, bal, allowance, moved, time>>
      /\ k < MaxSubs
  BY <1>2 DEF Subscribe, moneyVars
<1>5. s.payer = a /\ s.active /\ s.paymentsMade = 0 /\ s.nextChargeAt = s.firstChargeAt
      /\ s.maxPayments \in Nat \ {0} /\ s.period \in Nat /\ s.firstChargeAt \in Nat
  BY <1>3 DEF Subscription
<1>6. DOMAIN subs' = 1..(k + 1) /\ subs'[id] = s /\ \A i \in DOMAIN subs : subs'[i] = subs[i]
  BY <1>2, <1>4 DEF With
<1>7. payerSubCount' \in [Party -> Nat] /\ SubCountsExact'
  BY <1>2, <1>3, <1>4, <1>5, OpenedCounts
<1>8. RailsTypeOK'
  <2>1. DOMAIN subs' \subseteq 1..MaxSubs
    BY <1>4, <1>6, RailsAssumption
  <2>2. subs' \in [DOMAIN subs' -> Subscription]
    BY <1>2, <1>3, <1>4 DEF With, RailsInv, RailsTypeOK
  <2>. QED
    BY <1>4, <1>7, <2>1, <2>2 DEF RailsInv, RailsTypeOK
<1>9. \A i \in DOMAIN subs' : OnSchedule(subs[i])'
  <2>1. \A i \in DOMAIN subs : OnSchedule(subs[i])'
    BY <1>4, <1>6 DEF OnSchedule, RailsInv
  <2>2. OnSchedule(subs[id])'
    <3>1. 0 * s.period = 0
      BY <1>5
    <3>. QED
      BY <1>5, <1>6, <3>1 DEF OnSchedule
  <2>. QED
    BY <1>2, <1>6, <1>1, <2>1, <2>2
<1>10. IdsInOrder(subs)' /\ IdsInOrder(requests)'
  BY <1>4, <1>6, k + 1 \in Nat DEF IdsInOrder, RailsInv
<1>. QED
  BY <1>7, <1>8, <1>9, <1>10 DEF RailsInv

LEMMA ChargeKeeps ==
  ASSUME RailsInv, NEW a \in Party, NEW id \in DOMAIN subs, Charge(a, id)
  PROVE  RailsInv'
<1>. PICK s : s = Charged(subs[id])
  OBVIOUS
<1>1. /\ subs[id] \in Subscription /\ OnSchedule(subs[id])
      /\ subs[id].active /\ time >= subs[id].nextChargeAt
      /\ subs[id].paymentsMade < subs[id].maxPayments
  BY DEF RailsInv, RailsTypeOK, Charge, Chargeable, IsDue
<1>2. /\ s \in Subscription
      /\ s.payer = subs[id].payer
      /\ s.paymentsMade = subs[id].paymentsMade + 1
      /\ s.maxPayments = subs[id].maxPayments /\ s.period = subs[id].period
      /\ s.firstChargeAt = subs[id].firstChargeAt
      /\ s.nextChargeAt = subs[id].nextChargeAt + subs[id].period
      /\ s.active = (s.paymentsMade < s.maxPayments)
  <2>1. /\ subs[id].paymentsMade + 1 \in Nat
        /\ subs[id].nextChargeAt + subs[id].period \in Nat
        /\ (subs[id].paymentsMade + 1 < subs[id].maxPayments) \in BOOLEAN
    BY <1>1 DEF Subscription
  <2>. PICK made, next, on :
         /\ made = subs[id].paymentsMade + 1
         /\ next = subs[id].nextChargeAt + subs[id].period
         /\ on = (subs[id].paymentsMade + 1 < subs[id].maxPayments)
    OBVIOUS
  <2>2. s = [subs[id] EXCEPT !.paymentsMade = made, !.nextChargeAt = next, !.active = on]
    BY <1>1 DEF Charged, Subscription
  <2>. QED
    BY <1>1, <2>1, <2>2 DEF Subscription
<1>3. /\ subs' = [subs EXCEPT ![id] = s]
      /\ UNCHANGED <<requests, time>>
      /\ CanPull("subscriptions", subs[id].payer, subs[id].amount)
      /\ Pull("subscriptions", subs[id].payer, subs[id].payee, subs[id].amount)
      /\ payerSubCount' = IF s.active THEN payerSubCount
                          ELSE [payerSubCount EXCEPT ![s.payer] = @ - 1]
  BY <1>2 DEF Charge, Chargeable, CountCharge
<1>4. payerSubCount' \in [Party -> Nat] /\ SubCountsExact'
  BY <1>1, <1>2, <1>3, KeptOpenCounts, ClosedCounts
<1>5. /\ bal' \in [Party -> Nat]
      /\ allowance' \in [Party -> [RailContract -> Nat]]
      /\ moved' \in [Party \X Party -> Nat]
  <2>1. subs[id].payer \in Party /\ subs[id].payee \in Party /\ subs[id].amount \in Nat
    BY <1>1 DEF Subscription
  <2>. QED
    BY <1>3, <2>1, PullTypes, "subscriptions" \in RailContract DEF RailsInv, RailContract
<1>6. DOMAIN subs' = DOMAIN subs /\ subs'[id] = s
      /\ \A i \in DOMAIN subs \ {id} : subs'[i] = subs[i]
  BY <1>2, <1>3 DEF RailsInv, RailsTypeOK
<1>6a. subs' \in [DOMAIN subs' -> Subscription]
  BY <1>2, <1>3 DEF RailsInv, RailsTypeOK
<1>7. RailsTypeOK'
  <2>1. DOMAIN subs' \subseteq 1..MaxSubs
    BY <1>3, <1>4, <1>5, <1>6 DEF RailsInv, RailsTypeOK
  <2>2. DOMAIN requests' \subseteq 1..MaxRequests /\ requests' \in [DOMAIN requests' -> Request]
        /\ time' \in Nat
    BY <1>3, <1>4, <1>5, <1>6 DEF RailsInv, RailsTypeOK
  <2>3. /\ bal' \in [Party -> Nat]
        /\ allowance' \in [Party -> [RailContract -> Nat]]
        /\ moved' \in [Party \X Party -> Nat]
    BY <1>3, <1>4, <1>5, <1>6 DEF RailsInv, RailsTypeOK
  <2>. QED
    BY <1>4, <1>6a, <2>1, <2>2, <2>3 DEF RailsTypeOK
<1>8. OnSchedule(s)'
  <2>1. /\ subs[id].paymentsMade \in Nat /\ subs[id].period \in Nat
        /\ subs[id].nextChargeAt \in Nat /\ subs[id].firstChargeAt \in Nat
        /\ subs[id].maxPayments \in Nat /\ time \in Nat
    BY <1>1 DEF Subscription, RailsInv, RailsTypeOK
  <2>2. s.paymentsMade * s.period = subs[id].paymentsMade * subs[id].period + subs[id].period
    BY <1>2, <2>1, OnePeriodMore
  <2>3. subs[id].paymentsMade * subs[id].period \in Nat
    BY <2>1, Product
  <2>4. s.nextChargeAt = s.firstChargeAt + s.paymentsMade * s.period
    BY <1>1, <1>2, <2>1, <2>2, <2>3 DEF OnSchedule
  <2>5. s.nextChargeAt - s.period <= time /\ s.paymentsMade <= s.maxPayments
    BY <1>1, <1>2, <2>1
  <2>. QED
    BY <1>2, <1>3, <2>4, <2>5 DEF OnSchedule
<1>9. \A i \in DOMAIN subs' : OnSchedule(subs[i])'
  BY <1>3, <1>6, <1>8 DEF OnSchedule, RailsInv
<1>10. IdsInOrder(subs)' /\ IdsInOrder(requests)'
  BY <1>3, <1>6 DEF IdsInOrder, RailsInv
<1>. QED
  BY <1>4, <1>7, <1>9, <1>10 DEF RailsInv

LEMMA CancelSubscriptionKeeps ==
  ASSUME RailsInv, NEW a \in Party, NEW id \in DOMAIN subs, CancelSubscription(a, id)
  PROVE  RailsInv'
<1>. PICK s : s = [subs[id] EXCEPT !.active = FALSE]
  OBVIOUS
<1>1. /\ subs[id] \in Subscription /\ OnSchedule(subs[id]) /\ subs[id].active
      /\ a = subs[id].payer
      /\ UNCHANGED <<requests, bal, allowance, moved, time>>
  BY DEF RailsInv, RailsTypeOK, CancelSubscription, moneyVars
<1>2. /\ s \in Subscription /\ s.payer = a /\ ~s.active
      /\ s.paymentsMade = subs[id].paymentsMade /\ s.maxPayments = subs[id].maxPayments
      /\ s.nextChargeAt = subs[id].nextChargeAt /\ s.firstChargeAt = subs[id].firstChargeAt
      /\ s.period = subs[id].period
  BY <1>1 DEF Subscription
<1>3. subs' = [subs EXCEPT ![id] = s]
      /\ payerSubCount' = [payerSubCount EXCEPT ![s.payer] = @ - 1]
  BY <1>2 DEF CancelSubscription
<1>4. payerSubCount' \in [Party -> Nat] /\ SubCountsExact'
  BY <1>1, <1>2, <1>3, ClosedCounts
<1>5. DOMAIN subs' = DOMAIN subs /\ subs'[id] = s
      /\ \A i \in DOMAIN subs \ {id} : subs'[i] = subs[i]
  BY <1>2, <1>3 DEF RailsInv, RailsTypeOK
<1>5a. subs' \in [DOMAIN subs' -> Subscription]
  BY <1>2, <1>3 DEF RailsInv, RailsTypeOK
<1>6. RailsTypeOK'
  <2>1. DOMAIN subs' \subseteq 1..MaxSubs
    BY <1>1, <1>4, <1>5 DEF RailsInv, RailsTypeOK
  <2>2. DOMAIN requests' \subseteq 1..MaxRequests /\ requests' \in [DOMAIN requests' -> Request]
        /\ time' \in Nat
    BY <1>1, <1>4, <1>5 DEF RailsInv, RailsTypeOK
  <2>3. /\ bal' \in [Party -> Nat]
        /\ allowance' \in [Party -> [RailContract -> Nat]]
        /\ moved' \in [Party \X Party -> Nat]
    BY <1>1, <1>4, <1>5 DEF RailsInv, RailsTypeOK
  <2>. QED
    BY <1>4, <1>5a, <2>1, <2>2, <2>3 DEF RailsTypeOK
<1>7. \A i \in DOMAIN subs' : OnSchedule(subs[i])'
  <2>1. OnSchedule(s)'
    BY <1>1, <1>2 DEF OnSchedule
  <2>2. \A i \in DOMAIN subs \ {id} : OnSchedule(subs[i])'
    BY <1>1, <1>5 DEF OnSchedule, RailsInv
  <2>. QED
    BY <1>5, <2>1, <2>2 DEF OnSchedule
<1>8. IdsInOrder(subs)' /\ IdsInOrder(requests)'
  BY <1>1, <1>5 DEF IdsInOrder, RailsInv
<1>. QED
  BY <1>4, <1>6, <1>7, <1>8 DEF RailsInv

\* What leaves the subscriptions alone keeps all that is said of them.
LEMMA SubsUntouched ==
  ASSUME RailsInv, UNCHANGED subVars, time' \in Nat, time' >= time, RailsTypeOK',
         IdsInOrder(requests)'
  PROVE  RailsInv'
<1>1. subs' = subs /\ payerSubCount' = payerSubCount
  BY DEF subVars
<1>2. SubCountsExact'
  BY <1>1 DEF RailsInv, SubCountsExact, OpenSubs
<1>3. \A i \in DOMAIN subs' : OnSchedule(subs[i])'
  <2>. SUFFICES ASSUME NEW i \in DOMAIN subs PROVE OnSchedule(subs[i])'
    BY <1>1
  <2>1. subs[i].nextChargeAt \in Nat /\ subs[i].period \in Nat /\ time \in Nat
    BY DEF RailsInv, RailsTypeOK, Subscription
  <2>. QED
    BY <1>1, <2>1 DEF RailsInv, OnSchedule
<1>. QED
  BY <1>1, <1>2, <1>3 DEF RailsInv, IdsInOrder

LEMMA CreateRequestKeeps ==
  ASSUME RailsInv, NEW a \in Party, NEW p \in Party \cup {Anyone}, NEW v \in Invoice,
         CreateRequest(a, p, v)
  PROVE  RailsInv'
<1>. PICK id, r :
       /\ id = NextId(requests)
       /\ r = [requestor |-> a, payer |-> p, amount |-> v.amount,
               expiry |-> time + v.expiryDelta, status |-> "Pending"]
  OBVIOUS
<1>1. PICK k \in Nat : DOMAIN requests = 1..k
  BY DEF RailsInv, IdsInOrder
<1>2. id = k + 1 /\ Cardinality(DOMAIN requests) = k /\ id \notin DOMAIN requests
      /\ DOMAIN requests \cup {id} = 1..(k + 1)
  BY <1>1, NextIdIsNew
<1>3. r \in Request
  <2>1. v \in [amount : Nat, expiryDelta : Nat] /\ v.amount > 0
    BY RailsAssumption DEF CreateRequest
  <2>2. v.amount \in Nat \ {0} /\ time + v.expiryDelta \in Nat
    BY <2>1 DEF RailsInv, RailsTypeOK
  <2>. QED
    BY <2>2 DEF Request
<1>4. requests' = With(requests, id, r) /\ k < MaxRequests
      /\ UNCHANGED <<subs, payerSubCount, bal, allowance, moved, time>>
  BY <1>2 DEF CreateRequest, subVars, moneyVars
<1>5. DOMAIN requests' = 1..(k + 1)
  BY <1>2, <1>4 DEF With
<1>6. requests' \in [DOMAIN requests' -> Request]
  BY <1>2, <1>3, <1>4 DEF With, RailsInv, RailsTypeOK
<1>7. DOMAIN requests' \subseteq 1..MaxRequests
  BY <1>4, <1>5, RailsAssumption
<1>8. RailsTypeOK'
  BY <1>4, <1>6, <1>7 DEF RailsInv, RailsTypeOK
<1>9. IdsInOrder(requests)' /\ time' \in Nat /\ time' >= time
  BY <1>4, <1>5, k + 1 \in Nat DEF IdsInOrder, RailsInv, RailsTypeOK
<1>. QED
  BY <1>4, <1>8, <1>9, SubsUntouched DEF subVars

\* A request gets another status, whatever happens to the money.
LEMMA StatusKeeps ==
  ASSUME RailsInv, NEW id \in DOMAIN requests, NEW s \in {"Paid", "Cancelled"},
         requests' = [requests EXCEPT ![id].status = s],
         UNCHANGED <<subVars, time>>,
         bal' \in [Party -> Nat],
         allowance' \in [Party -> [RailContract -> Nat]],
         moved' \in [Party \X Party -> Nat]
  PROVE  RailsInv'
<1>1. requests' \in [DOMAIN requests -> Request] /\ DOMAIN requests' = DOMAIN requests
  <2>1. requests[id] \in Request
    BY DEF RailsInv, RailsTypeOK
  <2>2. [requests[id] EXCEPT !.status = s] \in Request
    BY <2>1 DEF Request
  <2>. QED
    BY <2>2 DEF RailsInv, RailsTypeOK
<1>2. IdsInOrder(requests)'
  BY <1>1 DEF IdsInOrder, RailsInv
<1>3. /\ subs' = subs /\ payerSubCount' = payerSubCount /\ time' = time
      /\ time \in Nat
  BY DEF subVars, RailsInv, RailsTypeOK
<1>4. RailsTypeOK'
  BY <1>1, <1>3 DEF RailsInv, RailsTypeOK
<1>. QED
  BY <1>2, <1>3, <1>4, SubsUntouched DEF subVars

LEMMA PayRequestKeeps ==
  ASSUME RailsInv, NEW a \in Party, NEW id \in DOMAIN requests, PayRequest(a, id)
  PROVE  RailsInv'
<1>1. requests[id].requestor \in Party /\ requests[id].amount \in Nat
  BY DEF RailsInv, RailsTypeOK, Request
<1>2. /\ bal' \in [Party -> Nat]
      /\ allowance' \in [Party -> [RailContract -> Nat]]
      /\ moved' \in [Party \X Party -> Nat]
  BY <1>1, PullTypes, "requests" \in RailContract DEF PayRequest, RailsInv, RailContract
<1>. QED
  BY <1>2, StatusKeeps DEF PayRequest

LEMMA CancelRequestKeeps ==
  ASSUME RailsInv, NEW a \in Party, NEW id \in DOMAIN requests, CancelRequest(a, id)
  PROVE  RailsInv'
<1>1. /\ bal' \in [Party -> Nat]
      /\ allowance' \in [Party -> [RailContract -> Nat]]
      /\ moved' \in [Party \X Party -> Nat]
  BY DEF CancelRequest, moneyVars, RailsInv, RailsTypeOK
<1>. QED
  BY <1>1, StatusKeeps DEF CancelRequest

\* Steps that touch neither subscriptions nor requests.
LEMMA MoneyKeeps ==
  ASSUME RailsInv, UNCHANGED <<subVars, requests>>, time' \in Nat, time' >= time,
         bal' \in [Party -> Nat],
         allowance' \in [Party -> [RailContract -> Nat]],
         moved' \in [Party \X Party -> Nat]
  PROVE  RailsInv'
<1>1. RailsTypeOK' /\ IdsInOrder(requests)'
  BY DEF RailsInv, RailsTypeOK, IdsInOrder, subVars
<1>. QED
  BY <1>1, SubsUntouched

LEMMA ApproveKeeps ==
  ASSUME RailsInv, NEW a \in Party, NEW r \in RailContract, NEW n \in Allowed, Approve(a, r, n)
  PROVE  RailsInv'
<1>1. n \in Nat
  BY RailsAssumption
<1>2. allowance' \in [Party -> [RailContract -> Nat]]
  <2>1. [allowance[a] EXCEPT ![r] = n] \in [RailContract -> Nat]
    BY <1>1 DEF RailsInv, RailsTypeOK
  <2>. QED
    BY <2>1 DEF Approve, RailsInv, RailsTypeOK
<1>. QED
  BY <1>2, MoneyKeeps DEF Approve, RailsInv, RailsTypeOK

LEMMA PayKeeps ==
  ASSUME RailsInv, NEW a \in Party, NEW b \in Party, NEW n \in Allowed, Pay(a, b, n)
  PROVE  RailsInv'
<1>1. n \in Nat /\ bal[a] - n \in Nat
  BY RailsAssumption DEF Pay, RailsInv, RailsTypeOK
<1>2. bal' \in [Party -> Nat]
  <2>1. [bal EXCEPT ![a] = @ - n] \in [Party -> Nat]
    BY <1>1 DEF RailsInv, RailsTypeOK
  <2>. QED
    BY <1>1, <2>1 DEF Pay
<1>3. UNCHANGED <<subVars, requests, allowance, moved, time>>
  BY DEF Pay
<1>. QED
  BY <1>2, <1>3, MoneyKeeps DEF RailsInv, RailsTypeOK

LEMMA BatchPayKeeps ==
  ASSUME RailsInv, NEW a \in Party, NEW to \in SUBSET (Party \ {a}), NEW n \in Allowed,
         BatchPay(a, to, n)
  PROVE  RailsInv'
<1>1. /\ bal' \in [Party -> Nat]
      /\ allowance' \in [Party -> [RailContract -> Nat]]
  BY BatchPayTypes DEF RailsInv
<1>2. UNCHANGED <<subVars, requests, moved, time>>
  BY DEF BatchPay
<1>. QED
  BY <1>1, <1>2, MoneyKeeps DEF RailsInv, RailsTypeOK

LEMMA RailsInvInitially == RailsInit => RailsInv
<1>. SUFFICES ASSUME RailsInit PROVE RailsInv
  OBVIOUS
<1>1. DOMAIN subs = {} /\ DOMAIN requests = {}
  BY DEF RailsInit
<1>2. RailsTypeOK
  <2>1. subs \in [DOMAIN subs -> Subscription] /\ requests \in [DOMAIN requests -> Request]
    <3>1. << >> \in [{} -> Subscription] /\ << >> \in [{} -> Request]
      OBVIOUS
    <3>. QED
      BY <1>1, <3>1 DEF RailsInit
  <2>2. /\ payerSubCount \in [Party -> Nat] /\ bal \in [Party -> Nat]
        /\ allowance \in [Party -> [RailContract -> Nat]]
        /\ moved \in [Party \X Party -> Nat] /\ time \in Nat
    BY RailsAssumption DEF RailsInit
  <2>. QED
    BY <1>1, <2>1, <2>2 DEF RailsTypeOK
<1>3. IdsInOrder(subs) /\ IdsInOrder(requests)
  BY <1>1, 1..0 = {}, 0 \in Nat DEF IdsInOrder
<1>4. SubCountsExact
  <2>1. \A a \in Party : OpenSubs(a) = {}
    BY <1>1 DEF OpenSubs
  <2>2. Cardinality({}) = 0
    BY FS_EmptySet
  <2>. QED
    BY <2>1, <2>2 DEF SubCountsExact, RailsInit
<1>. QED
  BY <1>2, <1>1, <1>3, <1>4 DEF RailsInv

LEMMA RailsInvKept == RailsInv /\ [RailsNext]_railsVars => RailsInv'
<1>. SUFFICES ASSUME RailsInv, [RailsNext]_railsVars PROVE RailsInv'
  OBVIOUS
<1>1. ASSUME NEW a \in Party, NEW r \in RailContract, NEW n \in Allowed, Approve(a, r, n)
      PROVE  RailsInv'
  BY <1>1, ApproveKeeps
<1>2. ASSUME NEW a \in Party, NEW b \in Party, NEW n \in Allowed, Pay(a, b, n)
      PROVE  RailsInv'
  BY <1>2, PayKeeps
<1>3. ASSUME NEW a \in Party, NEW to \in SUBSET (Party \ {a}), NEW n \in Allowed,
             BatchPay(a, to, n)
      PROVE  RailsInv'
  BY <1>3, BatchPayKeeps
<1>4. ASSUME NEW a \in Party, NEW b \in Party, NEW p \in Plan, Subscribe(a, b, p)
      PROVE  RailsInv'
  BY <1>4, SubscribeKeeps
<1>5. ASSUME NEW a \in Party, NEW id \in DOMAIN subs, Charge(a, id)
      PROVE  RailsInv'
  BY <1>5, ChargeKeeps
<1>6. ASSUME NEW a \in Party, NEW id \in DOMAIN subs, CancelSubscription(a, id)
      PROVE  RailsInv'
  BY <1>6, CancelSubscriptionKeeps
<1>7. ASSUME NEW a \in Party, NEW p \in Party \cup {Anyone}, NEW v \in Invoice,
             CreateRequest(a, p, v)
      PROVE  RailsInv'
  BY <1>7, CreateRequestKeeps
<1>8. ASSUME NEW a \in Party, NEW id \in DOMAIN requests, PayRequest(a, id)
      PROVE  RailsInv'
  BY <1>8, PayRequestKeeps
<1>9. ASSUME NEW a \in Party, NEW id \in DOMAIN requests, CancelRequest(a, id)
      PROVE  RailsInv'
  BY <1>9, CancelRequestKeeps
<1>10. CASE RailsTick
  <2>1. time' = time + 1 /\ time \in Nat /\ UNCHANGED <<subVars, requests, bal, allowance, moved>>
    BY <1>10 DEF RailsTick, RailsInv, RailsTypeOK, moneyVars
  <2>2. time' \in Nat /\ time' >= time
    BY <2>1
  <2>. QED
    BY <2>1, <2>2, MoneyKeeps DEF RailsInv, RailsTypeOK
<1>11. CASE UNCHANGED railsVars
  <2>1. UNCHANGED <<subVars, requests, bal, allowance, moved, time>> /\ time \in Nat
    BY <1>11 DEF railsVars, moneyVars, RailsInv, RailsTypeOK
  <2>. QED
    BY <2>1, MoneyKeeps DEF RailsInv, RailsTypeOK
<1>. QED
  BY <1>1, <1>2, <1>3, <1>4, <1>5, <1>6, <1>7, <1>8, <1>9, <1>10, <1>11
     DEF RailsNext, RailsCalls

THEOREM RailsInvHolds == RailsSpec => []RailsInv
BY RailsInvInitially, RailsInvKept, PTL DEF RailsSpec

\* What a payer and a payee can rely on, whatever gaps the charging has: the
\* per-payer count is the number of open subscriptions, and no more has been
\* drawn than was agreed or has fallen due (charge and cancelSubscription of
\* SubscriptionManager).
THEOREM SubscriptionsAreExact == RailsSpec => []SubscriptionsExact
<1>1. RailsInv => SubscriptionsExact
  <2>. SUFFICES ASSUME RailsInv, NEW id \in DOMAIN subs,
                       subs[id].paymentsMade > 0
                PROVE  subs[id].firstChargeAt + (subs[id].paymentsMade - 1) * subs[id].period
                         <= time
    BY DEF RailsInv, SubscriptionsExact, ChargesWithinElapsed, OnSchedule
  <2>1. /\ subs[id].paymentsMade \in Nat \ {0} /\ subs[id].period \in Nat
        /\ subs[id].nextChargeAt \in Nat /\ subs[id].firstChargeAt \in Nat /\ time \in Nat
    BY DEF RailsInv, RailsTypeOK, Subscription
  <2>2. PICK n \in Nat : subs[id].paymentsMade = n + 1
    BY <2>1
  <2>3. /\ subs[id].paymentsMade * subs[id].period = n * subs[id].period + subs[id].period
        /\ n * subs[id].period \in Nat
    BY <2>1, <2>2, OnePeriodMore, Product
  <2>4. subs[id].firstChargeAt + n * subs[id].period = subs[id].nextChargeAt - subs[id].period
    BY <2>1, <2>2, <2>3 DEF RailsInv, OnSchedule
  <2>5. subs[id].nextChargeAt - subs[id].period <= time
    BY <2>1 DEF RailsInv, OnSchedule
  <2>6. subs[id].paymentsMade - 1 = n
    BY <2>2
  <2>. QED
    BY <2>4, <2>5, <2>6
<1>. QED
  BY <1>1, RailsInvHolds, PTL
-----------------------------------------------------------------------------
(* The ledger of consents *)

LedgerTerms == [c \in Given |-> TermsOf(c)]
LedgerQuota == [c \in Consents |-> QuotaOf(c)]

SubConsent(id) == <<"sub", id>>
RequestConsent(id) == <<"request", id>>

LEMMA SubConsentValues ==
  ASSUME NEW id \in DOMAIN subs, DOMAIN subs \subseteq 1..MaxSubs
  PROVE  /\ SubConsent(id) \in Consents /\ SubConsent(id) \in Given
         /\ QuotaOf(SubConsent(id)) = IF subs[id].active
              THEN subs[id].maxPayments - subs[id].paymentsMade ELSE 0
         /\ TermsOf(SubConsent(id)) =
              [payer |-> subs[id].payer, payee |-> subs[id].payee, amount |-> subs[id].amount]
<1>1. SubConsent(id)[1] = "sub" /\ SubConsent(id)[2] = id
  BY DEF SubConsent
<1>. QED
  BY <1>1 DEF Consents, Given, QuotaOf, TermsOf, SubConsent

LEMMA RequestConsentValues ==
  ASSUME NEW id \in DOMAIN requests, DOMAIN requests \subseteq 1..MaxRequests
  PROVE  /\ RequestConsent(id) \in Consents /\ RequestConsent(id) \in Given
         /\ QuotaOf(RequestConsent(id)) = IF requests[id].status = "Pending" THEN 1 ELSE 0
         /\ TermsOf(RequestConsent(id)) =
              [payer |-> requests[id].payer, payee |-> requests[id].requestor,
               amount |-> requests[id].amount]
<1>1. RequestConsent(id)[1] = "request" /\ RequestConsent(id)[2] = id
  BY DEF RequestConsent
<1>. QED
  BY <1>1 DEF Consents, Given, QuotaOf, TermsOf, RequestConsent

\* What every other consent has depends on its own record only.
LEMMA OthersKept ==
  ASSUME DOMAIN subs \subseteq DOMAIN subs', DOMAIN requests \subseteq DOMAIN requests',
         NEW c \in Consents,
         c[1] = "sub" => /\ c[2] \in DOMAIN subs' => c[2] \in DOMAIN subs
                         /\ c[2] \in DOMAIN subs => subs'[c[2]] = subs[c[2]],
         c[1] = "request" => /\ c[2] \in DOMAIN requests' => c[2] \in DOMAIN requests
                             /\ c[2] \in DOMAIN requests => requests'[c[2]] = requests[c[2]]
  PROVE  /\ QuotaOf(c)' = QuotaOf(c)
         /\ c \in Given => TermsOf(c)' = TermsOf(c)
<1>1. c[1] \in {"sub", "request"}
  BY DEF Consents
<1>2. CASE c[1] = "sub"
  <2>1. QuotaOf(c)' = QuotaOf(c)
    BY <1>2 DEF QuotaOf
  <2>2. c \in Given => c[2] \in DOMAIN subs
    BY <1>2 DEF Given
  <2>. QED
    BY <1>2, <2>1, <2>2 DEF TermsOf
<1>3. CASE c[1] = "request"
  <2>1. QuotaOf(c)' = QuotaOf(c)
    BY <1>3 DEF QuotaOf
  <2>2. c \in Given => c[2] \in DOMAIN requests
    BY <1>3 DEF Given
  <2>. QED
    BY <1>3, <2>1, <2>2 DEF TermsOf
<1>. QED
  BY <1>1, <1>2, <1>3

\* The same values after a step.
LEMMA SubConsentAfter ==
  ASSUME NEW id \in DOMAIN subs'
  PROVE  /\ QuotaOf(SubConsent(id))' = IF subs'[id].active
              THEN subs'[id].maxPayments - subs'[id].paymentsMade ELSE 0
         /\ TermsOf(SubConsent(id))' =
              [payer |-> subs'[id].payer, payee |-> subs'[id].payee, amount |-> subs'[id].amount]
<1>1. SubConsent(id)[1] = "sub" /\ SubConsent(id)[2] = id
  BY DEF SubConsent
<1>. QED
  BY <1>1 DEF QuotaOf, TermsOf, SubConsent

LEMMA RequestConsentAfter ==
  ASSUME NEW id \in DOMAIN requests'
  PROVE  /\ QuotaOf(RequestConsent(id))' = IF requests'[id].status = "Pending" THEN 1 ELSE 0
         /\ TermsOf(RequestConsent(id))' =
              [payer |-> requests'[id].payer, payee |-> requests'[id].requestor,
               amount |-> requests'[id].amount]
<1>1. RequestConsent(id)[1] = "request" /\ RequestConsent(id)[2] = id
  BY DEF RequestConsent
<1>. QED
  BY <1>1 DEF QuotaOf, TermsOf, RequestConsent

\* A consent whose record keeps its terms and gets another quota.
LEMMA OneQuota ==
  ASSUME RailsTypeOK, NEW c \in Consents, NEW q,
         DOMAIN subs' = DOMAIN subs, DOMAIN requests' = DOMAIN requests,
         QuotaOf(c)' = q,
         c \in Given => TermsOf(c)' = TermsOf(c),
         \A d \in Consents \ {c} : /\ QuotaOf(d)' = QuotaOf(d)
                                   /\ d \in Given => TermsOf(d)' = TermsOf(d)
  PROVE  /\ LedgerTerms' = LedgerTerms
         /\ LedgerQuota' = [LedgerQuota EXCEPT ![c] = q]
<1>1. Given' = Given
  BY DEF Given
<1>2. Given \subseteq Consents
  BY DEF Given, Consents, RailsTypeOK
<1>3. LedgerQuota' = [LedgerQuota EXCEPT ![c] = q]
  BY Zenon DEF LedgerQuota
<1>4. \A d \in Given : TermsOf(d)' = TermsOf(d)
  BY <1>2
<1>5. LedgerTerms' = LedgerTerms
  BY <1>1, <1>4, Zenon DEF LedgerTerms
<1>. QED
  BY <1>3, <1>5

\* Only the record of subscription id changes, and not its terms.
LEMMA SubChanges ==
  ASSUME RailsInv, NEW id \in DOMAIN subs, DOMAIN subs' = DOMAIN subs,
         \A i \in DOMAIN subs \ {id} : subs'[i] = subs[i], UNCHANGED requests,
         subs'[id].payer = subs[id].payer, subs'[id].payee = subs[id].payee,
         subs'[id].amount = subs[id].amount
  PROVE  /\ LedgerTerms' = LedgerTerms
         /\ LedgerQuota' = [LedgerQuota EXCEPT ![SubConsent(id)] =
              IF subs'[id].active THEN subs'[id].maxPayments - subs'[id].paymentsMade ELSE 0]
<1>1. DOMAIN subs \subseteq 1..MaxSubs /\ RailsTypeOK
  BY DEF RailsInv, RailsTypeOK
<1>2. SubConsent(id) \in Consents /\ TermsOf(SubConsent(id))' = TermsOf(SubConsent(id))
  BY <1>1, SubConsentValues, SubConsentAfter
<1>3. \A d \in Consents \ {SubConsent(id)} :
        QuotaOf(d)' = QuotaOf(d) /\ (d \in Given => TermsOf(d)' = TermsOf(d))
  <2>. SUFFICES ASSUME NEW d \in Consents \ {SubConsent(id)}
                PROVE  QuotaOf(d)' = QuotaOf(d) /\ (d \in Given => TermsOf(d)' = TermsOf(d))
    OBVIOUS
  <2>1. d[1] = "sub" => d[2] # id
    BY DEF Consents, SubConsent
  <2>. QED
    BY <2>1, OthersKept
<1>. QED
  BY <1>1, <1>2, <1>3, OneQuota, SubConsentAfter

LEMMA RequestChanges ==
  ASSUME RailsInv, NEW id \in DOMAIN requests, NEW s, s # "Pending",
         requests' = [requests EXCEPT ![id].status = s], UNCHANGED subs
  PROVE  /\ LedgerTerms' = LedgerTerms
         /\ LedgerQuota' = [LedgerQuota EXCEPT ![RequestConsent(id)] = 0]
<1>1. DOMAIN requests \subseteq 1..MaxRequests /\ RailsTypeOK /\ requests[id] \in Request
  BY DEF RailsInv, RailsTypeOK
<1>2. /\ DOMAIN requests' = DOMAIN requests
      /\ \A i \in DOMAIN requests \ {id} : requests'[i] = requests[i]
      /\ requests'[id].status = s
      /\ requests'[id].payer = requests[id].payer
      /\ requests'[id].requestor = requests[id].requestor
      /\ requests'[id].amount = requests[id].amount
  BY <1>1 DEF Request
<1>3. RequestConsent(id) \in Consents
      /\ TermsOf(RequestConsent(id))' = TermsOf(RequestConsent(id))
      /\ QuotaOf(RequestConsent(id))' = 0
  BY <1>1, <1>2, RequestConsentValues, RequestConsentAfter
<1>4. \A d \in Consents \ {RequestConsent(id)} :
        QuotaOf(d)' = QuotaOf(d) /\ (d \in Given => TermsOf(d)' = TermsOf(d))
  <2>. SUFFICES ASSUME NEW d \in Consents \ {RequestConsent(id)}
                PROVE  QuotaOf(d)' = QuotaOf(d) /\ (d \in Given => TermsOf(d)' = TermsOf(d))
    OBVIOUS
  <2>1. d[1] = "request" => d[2] # id
    BY DEF Consents, RequestConsent
  <2>. QED
    BY <1>2, <2>1, OthersKept
<1>. QED
  BY <1>1, <1>2, <1>3, <1>4, OneQuota

\* What a consent of the ledger has, read off its record.
LEMMA LedgerOfSub ==
  ASSUME RailsInv, NEW id \in DOMAIN subs
  PROVE  /\ SubConsent(id) \in Consents
         /\ LedgerQuota[SubConsent(id)] = IF subs[id].active
              THEN subs[id].maxPayments - subs[id].paymentsMade ELSE 0
         /\ LedgerTerms[SubConsent(id)] =
              [payer |-> subs[id].payer, payee |-> subs[id].payee, amount |-> subs[id].amount]
<1>1. DOMAIN subs \subseteq 1..MaxSubs
  BY DEF RailsInv, RailsTypeOK
<1>. QED
  BY <1>1, SubConsentValues DEF LedgerQuota, LedgerTerms

LEMMA LedgerOfRequest ==
  ASSUME RailsInv, NEW id \in DOMAIN requests
  PROVE  /\ RequestConsent(id) \in Consents
         /\ LedgerQuota[RequestConsent(id)] = IF requests[id].status = "Pending" THEN 1 ELSE 0
         /\ LedgerTerms[RequestConsent(id)] =
              [payer |-> requests[id].payer, payee |-> requests[id].requestor,
               amount |-> requests[id].amount]
<1>1. DOMAIN requests \subseteq 1..MaxRequests
  BY DEF RailsInv, RailsTypeOK
<1>. QED
  BY <1>1, RequestConsentValues DEF LedgerQuota, LedgerTerms
-----------------------------------------------------------------------------
(* Every step is one of the ledger or leaves it alone *)

LEMMA ChargeSettles ==
  ASSUME RailsInv, NEW a \in Party, NEW id \in DOMAIN subs, Charge(a, id)
  PROVE  Ledger!LedgerNext
<1>. PICK p, n, c : p = subs[id].payer /\ n = subs[id].amount /\ c = SubConsent(id)
  OBVIOUS
<1>1. /\ subs[id] \in Subscription
      /\ subs[id].active /\ subs[id].paymentsMade < subs[id].maxPayments
      /\ subs' = [subs EXCEPT ![id] = Charged(subs[id])] /\ UNCHANGED requests
      /\ moved' = [moved EXCEPT ![<<p, subs[id].payee>>] = @ + n]
  BY DEF RailsInv, RailsTypeOK, Charge, Chargeable, IsDue, Pull
<1>2. /\ DOMAIN subs' = DOMAIN subs
      /\ \A i \in DOMAIN subs \ {id} : subs'[i] = subs[i]
      /\ subs'[id] = Charged(subs[id])
  BY <1>1 DEF RailsInv, RailsTypeOK
<1>3. /\ subs'[id].payer = p /\ subs'[id].payee = subs[id].payee /\ subs'[id].amount = n
      /\ subs'[id].maxPayments = subs[id].maxPayments
      /\ subs'[id].paymentsMade = subs[id].paymentsMade + 1
      /\ subs'[id].active = (subs[id].paymentsMade + 1 < subs[id].maxPayments)
  BY <1>1, <1>2 DEF Charged, Subscription
<1>4. /\ LedgerTerms' = LedgerTerms
      /\ LedgerQuota' = [LedgerQuota EXCEPT ![c] =
           IF subs'[id].active THEN subs'[id].maxPayments - subs'[id].paymentsMade ELSE 0]
  BY <1>1, <1>2, <1>3, SubChanges
<1>5. /\ c \in Consents /\ LedgerQuota[c] = subs[id].maxPayments - subs[id].paymentsMade
      /\ LedgerTerms[c] = [payer |-> p, payee |-> subs[id].payee, amount |-> n]
      /\ p \in Party
  BY <1>1, LedgerOfSub DEF Subscription
<1>6. /\ LedgerQuota[c] > 0
      /\ LedgerQuota[c] - 1 =
           IF subs'[id].active THEN subs'[id].maxPayments - subs'[id].paymentsMade ELSE 0
  <2>. PICK made, max : made = subs[id].paymentsMade /\ max = subs[id].maxPayments
    OBVIOUS
  <2>1. made \in Nat /\ max \in Nat /\ made < max
    BY <1>1 DEF Subscription
  <2>2. /\ LedgerQuota[c] = max - made
        /\ subs'[id].active = (made + 1 < max)
        /\ subs'[id].maxPayments = max /\ subs'[id].paymentsMade = made + 1
    BY <1>3, <1>5
  <2>3. max - made > 0 /\ max - made - 1 = IF made + 1 < max THEN max - (made + 1) ELSE 0
    BY <2>1
  <2>. QED
    BY <2>2, <2>3
<1>7. /\ LedgerQuota[c] > 0
      /\ LedgerTerms[c].payer \in {p, Anyone}
      /\ LedgerQuota' = [LedgerQuota EXCEPT ![c] = @ - 1]
      /\ moved' = [moved EXCEPT ![<<p, LedgerTerms[c].payee>>] = @ + LedgerTerms[c].amount]
      /\ LedgerTerms' = LedgerTerms
  <2>1. LedgerTerms[c].payer = p /\ LedgerTerms[c].payee = subs[id].payee
        /\ LedgerTerms[c].amount = n
    BY <1>5
  <2>. QED
    BY <1>1, <1>4, <1>6, <2>1, Zenon
<1>8. Ledger!Settle(c, p)
  BY <1>7 DEF Ledger!Settle, LedgerQuota, LedgerTerms
<1>. QED
  BY <1>5, <1>8 DEF Ledger!LedgerNext

LEMMA CancelSubscriptionWithdraws ==
  ASSUME RailsInv, NEW a \in Party, NEW id \in DOMAIN subs, CancelSubscription(a, id)
  PROVE  Ledger!LedgerNext
<1>. PICK c : c = SubConsent(id)
  OBVIOUS
<1>1. /\ subs[id] \in Subscription /\ OnSchedule(subs[id])
      /\ subs[id].active
      /\ subs' = [subs EXCEPT ![id].active = FALSE] /\ UNCHANGED <<requests, moved>>
  BY DEF RailsInv, RailsTypeOK, CancelSubscription, moneyVars
<1>2. /\ DOMAIN subs' = DOMAIN subs
      /\ \A i \in DOMAIN subs \ {id} : subs'[i] = subs[i]
      /\ subs'[id] = [subs[id] EXCEPT !.active = FALSE]
  BY <1>1 DEF RailsInv, RailsTypeOK
<1>3. /\ subs'[id].payer = subs[id].payer /\ subs'[id].payee = subs[id].payee
      /\ subs'[id].amount = subs[id].amount /\ ~subs'[id].active
  BY <1>1, <1>2 DEF Subscription
<1>4. LedgerTerms' = LedgerTerms /\ LedgerQuota' = [LedgerQuota EXCEPT ![c] = 0]
  BY <1>1, <1>2, <1>3, SubChanges
<1>5. c \in Consents /\ LedgerQuota[c] > 0
  <2>1. subs[id].paymentsMade \in Nat /\ subs[id].maxPayments \in Nat
        /\ subs[id].paymentsMade < subs[id].maxPayments
    BY <1>1 DEF Subscription, OnSchedule
  <2>2. c \in Consents /\ LedgerQuota[c] = subs[id].maxPayments - subs[id].paymentsMade
    BY <1>1, LedgerOfSub
  <2>3. subs[id].maxPayments - subs[id].paymentsMade > 0
    BY <2>1
  <2>. QED
    BY <2>2, <2>3
<1>6. Ledger!Withdraw(c)
  BY <1>1, <1>4, <1>5 DEF Ledger!Withdraw, LedgerQuota, LedgerTerms
<1>. QED
  BY <1>5, <1>6 DEF Ledger!LedgerNext

LEMMA PayRequestSettles ==
  ASSUME RailsInv, NEW a \in Party, NEW id \in DOMAIN requests, PayRequest(a, id)
  PROVE  Ledger!LedgerNext
<1>. PICK c, n : c = RequestConsent(id) /\ n = requests[id].amount
  OBVIOUS
<1>1. /\ requests[id].status = "Pending"
      /\ requests[id].payer \in {Anyone, a}
      /\ requests' = [requests EXCEPT ![id].status = "Paid"] /\ UNCHANGED subs
      /\ moved' = [moved EXCEPT ![<<a, requests[id].requestor>>] = @ + n]
  BY DEF PayRequest, Pending, Pull, subVars
<1>2. LedgerTerms' = LedgerTerms /\ LedgerQuota' = [LedgerQuota EXCEPT ![c] = 0]
  BY <1>1, RequestChanges, "Paid" # "Pending"
<1>3. /\ c \in Consents /\ LedgerQuota[c] = 1
      /\ LedgerTerms[c].payer = requests[id].payer
      /\ LedgerTerms[c].payee = requests[id].requestor /\ LedgerTerms[c].amount = n
  <2>1. c \in Consents /\ LedgerQuota[c] = 1
    BY <1>1, LedgerOfRequest
  <2>2. LedgerTerms[c] = [payer |-> requests[id].payer, payee |-> requests[id].requestor,
                          amount |-> n]
    BY LedgerOfRequest
  <2>. QED
    BY <2>1, <2>2
<1>4. Ledger!Settle(c, a)
  <2>1. LedgerQuota' = [LedgerQuota EXCEPT ![c] = @ - 1]
    BY <1>2, <1>3, 1 - 1 = 0
  <2>2. moved' = [moved EXCEPT ![<<a, LedgerTerms[c].payee>>] = @ + LedgerTerms[c].amount]
    BY <1>1, <1>3
  <2>3. LedgerQuota[c] > 0 /\ LedgerTerms[c].payer \in {a, Anyone}
    BY <1>1, <1>3
  <2>. QED
    BY <1>2, <2>1, <2>2, <2>3 DEF Ledger!Settle, LedgerQuota, LedgerTerms
<1>. QED
  BY <1>3, <1>4 DEF Ledger!LedgerNext

LEMMA CancelRequestWithdraws ==
  ASSUME RailsInv, NEW a \in Party, NEW id \in DOMAIN requests, CancelRequest(a, id)
  PROVE  Ledger!LedgerNext
<1>. PICK c : c = RequestConsent(id)
  OBVIOUS
<1>1. /\ requests[id].status = "Pending"
      /\ requests' = [requests EXCEPT ![id].status = "Cancelled"]
      /\ UNCHANGED <<subs, moved>>
  BY DEF CancelRequest, Pending, subVars, moneyVars
<1>2. LedgerTerms' = LedgerTerms /\ LedgerQuota' = [LedgerQuota EXCEPT ![c] = 0]
  BY <1>1, RequestChanges, "Cancelled" # "Pending"
<1>3. c \in Consents /\ LedgerQuota[c] = 1
  BY <1>1, LedgerOfRequest
<1>4. Ledger!Withdraw(c)
  BY <1>1, <1>2, <1>3 DEF Ledger!Withdraw, LedgerQuota, LedgerTerms
<1>. QED
  BY <1>3, <1>4 DEF Ledger!LedgerNext

\* A consent that has come to be, the others being as they were.
LEMMA ConsentGiven ==
  ASSUME RailsTypeOK, NEW c \in Consents, c \notin Given, Given' = Given \cup {c},
         \A d \in Consents \ {c} : /\ QuotaOf(d)' = QuotaOf(d)
                                   /\ d \in Given => TermsOf(d)' = TermsOf(d),
         NEW q \in Nat \ {0}, QuotaOf(c)' = q,
         NEW t \in Ledger!TermsType, TermsOf(c)' = t,
         UNCHANGED moved
  PROVE  Ledger!LedgerNext
<1>1. Given \subseteq Consents \ {c}
  BY DEF Given, Consents, RailsTypeOK
<1>2. /\ c \notin DOMAIN LedgerTerms
      /\ DOMAIN LedgerTerms' = DOMAIN LedgerTerms \cup {c}
      /\ \A d \in DOMAIN LedgerTerms : LedgerTerms'[d] = LedgerTerms[d]
      /\ LedgerTerms'[c] = t
  BY <1>1 DEF LedgerTerms
<1>3. LedgerQuota'[c] = q
  BY DEF LedgerQuota
<1>4. LedgerQuota' = [LedgerQuota EXCEPT ![c] = q]
  BY Zenon DEF LedgerQuota
<1>5. LedgerQuota' = [LedgerQuota EXCEPT ![c] = LedgerQuota'[c]]
  BY <1>3, <1>4
<1>6. Ledger!Give(c)
  BY <1>2, <1>3, <1>5 DEF Ledger!Give, LedgerTerms, LedgerQuota
<1>. QED
  BY <1>6 DEF Ledger!LedgerNext

LEMMA SubscribeGives ==
  ASSUME RailsInv, NEW a \in Party, NEW b \in Party, NEW p \in Plan, Subscribe(a, b, p)
  PROVE  Ledger!LedgerNext
<1>. PICK id, c : id = NextId(subs) /\ c = SubConsent(id)
  OBVIOUS
<1>1. PICK k \in Nat : DOMAIN subs = 1..k
  BY DEF RailsInv, IdsInOrder
<1>2. id = k + 1 /\ Cardinality(DOMAIN subs) = k /\ id \notin DOMAIN subs
  BY <1>1, NextIdIsNew
<1>3. /\ DOMAIN subs' = DOMAIN subs \cup {id}
      /\ \A i \in DOMAIN subs : subs'[i] = subs[i]
      /\ subs'[id].payer = a /\ subs'[id].payee = b /\ subs'[id].amount = p.amount
      /\ subs'[id].maxPayments = p.maxPayments /\ subs'[id].paymentsMade = 0 /\ subs'[id].active
  BY <1>2 DEF Subscribe, With
<1>4. UNCHANGED <<requests, moved>> /\ k < MaxSubs /\ p.amount > 0 /\ p.maxPayments > 0
  BY <1>2 DEF Subscribe, moneyVars
<1>5. p.amount \in Nat \ {0} /\ p.maxPayments \in Nat \ {0}
  BY <1>4, RailsAssumption
<1>6. c \in Consents /\ c \notin Given /\ Given' = Given \cup {c}
  <2>1. id \in 1..MaxSubs
    BY <1>2, <1>4, RailsAssumption
  <2>. QED
    BY <1>2, <1>3, <1>4, <2>1 DEF Consents, Given, SubConsent
<1>7. QuotaOf(c)' = p.maxPayments
  <2>1. p.maxPayments - 0 = p.maxPayments
    BY <1>5
  <2>. QED
    BY <1>3, <2>1, SubConsentAfter
<1>8. TermsOf(c)' = [payer |-> a, payee |-> b, amount |-> p.amount]
  BY <1>3, SubConsentAfter
<1>9. [payer |-> a, payee |-> b, amount |-> p.amount] \in Ledger!TermsType
  BY <1>5 DEF Ledger!TermsType
<1>10. \A d \in Consents \ {c} :
         QuotaOf(d)' = QuotaOf(d) /\ (d \in Given => TermsOf(d)' = TermsOf(d))
  <2>. SUFFICES ASSUME NEW d \in Consents \ {c}
                PROVE  QuotaOf(d)' = QuotaOf(d) /\ (d \in Given => TermsOf(d)' = TermsOf(d))
    OBVIOUS
  <2>1. d[1] = "sub" => d[2] # id
    BY DEF Consents, SubConsent
  <2>. QED
    BY <1>3, <1>4, <2>1, OthersKept
<1>. QED
  BY <1>4, <1>5, <1>6, <1>7, <1>8, <1>9, <1>10, ConsentGiven DEF RailsInv

LEMMA CreateRequestGives ==
  ASSUME RailsInv, NEW a \in Party, NEW p \in Party \cup {Anyone}, NEW v \in Invoice,
         CreateRequest(a, p, v)
  PROVE  Ledger!LedgerNext
<1>. PICK id, c : id = NextId(requests) /\ c = RequestConsent(id)
  OBVIOUS
<1>1. PICK k \in Nat : DOMAIN requests = 1..k
  BY DEF RailsInv, IdsInOrder
<1>2. id = k + 1 /\ Cardinality(DOMAIN requests) = k /\ id \notin DOMAIN requests
  BY <1>1, NextIdIsNew
<1>3. /\ DOMAIN requests' = DOMAIN requests \cup {id}
      /\ \A i \in DOMAIN requests : requests'[i] = requests[i]
      /\ requests'[id].payer = p /\ requests'[id].requestor = a
      /\ requests'[id].amount = v.amount /\ requests'[id].status = "Pending"
  BY <1>2 DEF CreateRequest, With
<1>4. UNCHANGED <<subs, moved>> /\ k < MaxRequests /\ v.amount > 0
  BY <1>2 DEF CreateRequest, subVars, moneyVars
<1>5. v.amount \in Nat \ {0}
  BY <1>4, RailsAssumption
<1>6. c \in Consents /\ c \notin Given /\ Given' = Given \cup {c}
  <2>1. id \in 1..MaxRequests
    BY <1>2, <1>4, RailsAssumption
  <2>. QED
    BY <1>2, <1>3, <1>4, <2>1 DEF Consents, Given, RequestConsent
<1>7. QuotaOf(c)' = 1
  BY <1>3, RequestConsentAfter
<1>8. TermsOf(c)' = [payer |-> p, payee |-> a, amount |-> v.amount]
  BY <1>3, RequestConsentAfter
<1>9. [payer |-> p, payee |-> a, amount |-> v.amount] \in Ledger!TermsType
  BY <1>5 DEF Ledger!TermsType
<1>10. \A d \in Consents \ {c} :
         QuotaOf(d)' = QuotaOf(d) /\ (d \in Given => TermsOf(d)' = TermsOf(d))
  <2>. SUFFICES ASSUME NEW d \in Consents \ {c}
                PROVE  QuotaOf(d)' = QuotaOf(d) /\ (d \in Given => TermsOf(d)' = TermsOf(d))
    OBVIOUS
  <2>1. d[1] = "request" => d[2] # id
    BY DEF Consents, RequestConsent
  <2>. QED
    BY <1>3, <1>4, <2>1, OthersKept
<1>. QED
  BY <1>4, <1>6, <1>7, <1>8, <1>9, <1>10, ConsentGiven, 1 \in Nat \ {0} DEF RailsInv

\* Steps of money and time that no contract settles.
LEMMA LedgerUntouched ==
  ASSUME UNCHANGED <<subs, requests, moved>>
  PROVE  UNCHANGED Ledger!ledgerVars
<1>1. \A c : QuotaOf(c)' = QuotaOf(c) /\ TermsOf(c)' = TermsOf(c)
  BY DEF QuotaOf, TermsOf
<1>2. Given' = Given
  BY DEF Given
<1>3. LedgerTerms' = LedgerTerms /\ LedgerQuota' = LedgerQuota
  BY <1>1, <1>2, Zenon DEF LedgerTerms, LedgerQuota
<1>. QED
  BY <1>3 DEF Ledger!ledgerVars, LedgerTerms, LedgerQuota

\* The contracts implement the ledger of consents: initial states map to its
\* initial states and every call to a step of it, or to none.
THEOREM RailsImplementLedger == RailsSpec => RailsKeepConsents
<1>1. RailsInit => Ledger!LedgerInit
  <2>. SUFFICES ASSUME RailsInit PROVE Ledger!LedgerInit
    OBVIOUS
  <2>1. DOMAIN subs = {} /\ DOMAIN requests = {} /\ moved = [x \in Party \X Party |-> 0]
    BY DEF RailsInit
  <2>2. Given = {}
    BY <2>1 DEF Given
  <2>3. LedgerTerms = << >>
    <3>1. [c \in {} |-> TermsOf(c)] = << >>
      OBVIOUS
    <3>. QED
      BY <2>2, <3>1 DEF LedgerTerms
  <2>4. \A c \in Consents : QuotaOf(c) = 0
    BY <2>1 DEF QuotaOf
  <2>5. LedgerQuota = [c \in Consents |-> 0]
    BY <2>4, Zenon DEF LedgerQuota
  <2>. QED
    BY <2>1, <2>3, <2>5 DEF Ledger!LedgerInit, LedgerTerms, LedgerQuota
<1>2. RailsInv /\ [RailsNext]_railsVars => [Ledger!LedgerNext]_(Ledger!ledgerVars)
  <2>. SUFFICES ASSUME RailsInv, [RailsNext]_railsVars
                PROVE  Ledger!LedgerNext \/ UNCHANGED Ledger!ledgerVars
    OBVIOUS
  <2>1. ASSUME NEW a \in Party, NEW r \in RailContract, NEW n \in Allowed, Approve(a, r, n)
        PROVE  UNCHANGED Ledger!ledgerVars
    BY <2>1, LedgerUntouched DEF Approve, subVars
  <2>2. ASSUME NEW a \in Party, NEW b \in Party, NEW n \in Allowed, Pay(a, b, n)
        PROVE  UNCHANGED Ledger!ledgerVars
    BY <2>2, LedgerUntouched DEF Pay, subVars
  <2>3. ASSUME NEW a \in Party, NEW to \in SUBSET (Party \ {a}), NEW n \in Allowed,
               BatchPay(a, to, n)
        PROVE  UNCHANGED Ledger!ledgerVars
    BY <2>3, LedgerUntouched DEF BatchPay, subVars
  <2>4. ASSUME NEW a \in Party, NEW b \in Party, NEW p \in Plan, Subscribe(a, b, p)
        PROVE  Ledger!LedgerNext
    BY <2>4, SubscribeGives
  <2>5. ASSUME NEW a \in Party, NEW id \in DOMAIN subs, Charge(a, id)
        PROVE  Ledger!LedgerNext
    BY <2>5, ChargeSettles
  <2>6. ASSUME NEW a \in Party, NEW id \in DOMAIN subs, CancelSubscription(a, id)
        PROVE  Ledger!LedgerNext
    BY <2>6, CancelSubscriptionWithdraws
  <2>7. ASSUME NEW a \in Party, NEW p \in Party \cup {Anyone}, NEW v \in Invoice,
               CreateRequest(a, p, v)
        PROVE  Ledger!LedgerNext
    BY <2>7, CreateRequestGives
  <2>8. ASSUME NEW a \in Party, NEW id \in DOMAIN requests, PayRequest(a, id)
        PROVE  Ledger!LedgerNext
    BY <2>8, PayRequestSettles
  <2>9. ASSUME NEW a \in Party, NEW id \in DOMAIN requests, CancelRequest(a, id)
        PROVE  Ledger!LedgerNext
    BY <2>9, CancelRequestWithdraws
  <2>10. CASE RailsTick
    BY <2>10, LedgerUntouched DEF RailsTick, subVars, moneyVars
  <2>11. CASE UNCHANGED railsVars
    BY <2>11, LedgerUntouched DEF railsVars, subVars, moneyVars
  <2>. QED
    BY <2>1, <2>2, <2>3, <2>4, <2>5, <2>6, <2>7, <2>8, <2>9, <2>10, <2>11
       DEF RailsNext, RailsCalls
<1>. QED
  BY <1>1, <1>2, RailsInvHolds, PTL DEF RailsSpec, RailsKeepConsents, Ledger!LedgerSpec

-----------------------------------------------------------------------------
(* The treasury *)

\* What a run has where: QUSDC withdrawn, QUSDC sent to the pair, WQIE swapped
\* for, and QIE not yet passed on.
HeldBy(r) == IF r.pc = "transfer" THEN r.batch ELSE 0
SentBy(r) == IF r.pc = "swap" THEN r.batch ELSE 0
WrappedBy(r) == IF r.pc = "unwrap" THEN r.ask ELSE 0
LooseBy(r) ==
  IF r.pc = "signer" THEN r.ask ELSE IF r.pc = "deposit" THEN r.ask - r.toSigner ELSE 0

Held == [t \in Runner |-> HeldBy(run[t])]
Sent == [t \in Runner |-> SentBy(run[t])]
Wrapped == [t \in Runner |-> WrappedBy(run[t])]
Loose == [t \in Runner |-> LooseBy(run[t])]

\* QUSDC of ours outside the paymaster, and the part of it in the pair.
Abroad == wallet.qusdc + inPair + strandedIn
AtPair == inPair + strandedIn

RunOK(r) ==
  /\ r \in [pc : {"idle", "quote"} \cup Steps, batch : Nat, deficit : Nat, ask : Nat,
            toSigner : Nat]
  /\ r.batch <= MaxQusdc
  /\ r.toSigner <= r.ask
  /\ r.pc \in Steps => r.ask > 0

RunsOK == DOMAIN run = Runner /\ \A t \in Runner : RunOK(run[t])

BalancesOK ==
  /\ collected \in Nat /\ inPair \in Nat /\ strandedIn \in Nat
  /\ sinks \in [Sink -> Nat]
  /\ wallet \in [qusdc : Nat, wqie : Nat, qie : Nat]
  /\ reserve \in [qusdc : Int, wqie : Int]

\* Without an abort all there is of ours is what the runs are moving.
OnlyTheRuns ==
  /\ wallet.qusdc = Total(Held, Runner)
  /\ AtPair = Total(Sent, Runner)
  /\ wallet.wqie = Total(Wrapped, Runner)
  /\ wallet.qie = Total(Loose, Runner)

TreasuryInv ==
  /\ BalancesOK
  /\ aborts \in Nat
  /\ RunsOK
  /\ AtPair >= Total(Sent, Runner)
  /\ Abroad <= MaxQusdc * aborts + Total(InHand, Runner)
  /\ aborts = 0 => OnlyTheRuns

LEMMA RunnerIsFinite == IsFiniteSet(Runner)
BY TreasuryAssumption

LEMMA MaxIsNat == MaxQusdc \in Nat /\ MinQusdc \in Nat
BY TreasuryAssumption

LEMMA Times == ASSUME NEW m \in Nat, NEW n \in Nat
               PROVE  m * n \in Nat /\ m * (n + 1) = m * n + m
OBVIOUS

\* What is given for an input is a whole number.
LEMMA AmountIsInt ==
  ASSUME NEW in \in Nat, NEW i \in Int, NEW o \in Int
  PROVE  GetAmountOut(in, i, o) \in Int
<1>1. CASE in <= 0 \/ i <= 0 \/ o <= 0
  BY <1>1 DEF GetAmountOut
<1>2. CASE ~(in <= 0 \/ i <= 0 \/ o <= 0)
  <2>1. i * 1000 + in * 997 \in Nat \ {0} /\ in * 997 * o \in Int
    BY <1>2
  <2>2. \A x \in Int, y \in Nat \ {0} : x \div y \in Int
    OBVIOUS
  <2>. QED
    BY <1>2, <2>1, <2>2 DEF GetAmountOut
<1>. QED
  BY <1>1, <1>2

LEMMA AskIsInt ==
  ASSUME NEW batch \in Nat, BalancesOK
  PROVE  AskFor(batch) \in Int
<1>. PICK i, o : i = reserve.qusdc /\ o = reserve.wqie
  OBVIOUS
<1>1. i \in Int /\ o \in Int
  BY DEF BalancesOK
<1>2. GetAmountOut(batch, i, o) \in Int
  BY <1>1, AmountIsInt
<1>3. 10000 - SlippageBps \in Int
  <2>1. SlippageBps \in 0..10000
    BY TreasuryAssumption
  <2>. QED
    BY <2>1
<1>4. \A x \in Int, y \in Int : x * y \in Int /\ x \div 10000 \in Int
  OBVIOUS
<1>. HIDE DEF GetAmountOut
<1>. QED
  BY <1>2, <1>3, <1>4 DEF AskFor

\* A sum over the runs when one of them has another value.
LEMMA SumMoves ==
  ASSUME NEW f, NEW g, NEW t \in Runner,
         \A u \in Runner : f[u] \in Nat /\ g[u] \in Nat,
         \A u \in Runner : u # t => g[u] = f[u]
  PROVE  /\ Total(f, Runner) \in Nat /\ Total(g, Runner) \in Nat
         /\ f[t] <= Total(f, Runner)
         /\ Total(g, Runner) = Total(f, Runner) + (g[t] - f[t])
<1>1. IsFiniteSet(Runner) /\ \A u \in Runner : f[u] \in Int
  BY RunnerIsFinite
<1>2. Total(f, Runner) \in Nat /\ Total(g, Runner) \in Nat
  BY <1>1, TotalNat
<1>3. g[t] - f[t] \in Int /\ g[t] = f[t] + (g[t] - f[t])
  OBVIOUS
<1>4. Total(g, Runner) = Total(f, Runner) + (g[t] - f[t])
  BY <1>1, <1>3, TotalRaised
<1>5. IsFiniteSet(Runner \ {t}) /\ \A u \in Runner \ {t} : f[u] \in Nat
  BY <1>1, FS_RemoveElement
<1>6. Total(f, Runner) = f[t] + Total(f, Runner \ {t}) /\ Total(f, Runner \ {t}) \in Nat
  BY <1>1, <1>5, TotalRemove, TotalNat
<1>. QED
  BY <1>2, <1>4, <1>6

\* What a run has are natural numbers.
LEMMA PartsAreNat ==
  ASSUME NEW r, RunOK(r)
  PROVE  /\ HeldBy(r) \in Nat /\ SentBy(r) \in Nat /\ WrappedBy(r) \in Nat /\ LooseBy(r) \in Nat
         /\ HeldBy(r) + SentBy(r) <= MaxQusdc
BY MaxIsNat DEF RunOK, HeldBy, SentBy, WrappedBy, LooseBy

\* The sums over the runs when run t comes to be r.
LEMMA OneRunMoves ==
  ASSUME RunsOK, NEW t \in Runner, NEW r, RunOK(r), run' = [run EXCEPT ![t] = r]
  PROVE  /\ RunsOK' /\ RunOK(run[t])
         /\ {Total(Held, Runner), Total(Sent, Runner), Total(Wrapped, Runner),
             Total(Loose, Runner), Total(InHand, Runner)} \subseteq Nat
         /\ SentBy(run[t]) <= Total(Sent, Runner)
         /\ Total(Held, Runner)' = Total(Held, Runner) + (HeldBy(r) - HeldBy(run[t]))
         /\ Total(Sent, Runner)' = Total(Sent, Runner) + (SentBy(r) - SentBy(run[t]))
         /\ Total(Wrapped, Runner)' = Total(Wrapped, Runner) + (WrappedBy(r) - WrappedBy(run[t]))
         /\ Total(Loose, Runner)' = Total(Loose, Runner) + (LooseBy(r) - LooseBy(run[t]))
         /\ Total(InHand, Runner)' = Total(InHand, Runner)
              + ((HeldBy(r) + SentBy(r)) - (HeldBy(run[t]) + SentBy(run[t])))
<1>1. /\ DOMAIN run' = Runner /\ run'[t] = r /\ \A u \in Runner : u # t => run'[u] = run[u]
      /\ \A u \in Runner : RunOK(run[u]) /\ RunOK(run'[u])
  BY DEF RunsOK
<1>2. RunsOK'
  BY <1>1 DEF RunsOK, RunOK
<1>3. \A u \in Runner : /\ Held[u] = HeldBy(run[u]) /\ Held'[u] = HeldBy(run'[u])
                        /\ Sent[u] = SentBy(run[u]) /\ Sent'[u] = SentBy(run'[u])
                        /\ Wrapped[u] = WrappedBy(run[u]) /\ Wrapped'[u] = WrappedBy(run'[u])
                        /\ Loose[u] = LooseBy(run[u]) /\ Loose'[u] = LooseBy(run'[u])
  BY DEF Held, Sent, Wrapped, Loose, HeldBy, SentBy, WrappedBy, LooseBy
<1>4. \A u \in Runner : /\ InHand[u] = HeldBy(run[u]) + SentBy(run[u])
                        /\ InHand'[u] = HeldBy(run'[u]) + SentBy(run'[u])
  <2>1. ASSUME NEW u \in Runner
        PROVE  /\ InHand[u] = HeldBy(run[u]) + SentBy(run[u])
               /\ InHand'[u] = HeldBy(run'[u]) + SentBy(run'[u])
    BY <1>1 DEF InHand, HeldBy, SentBy, RunOK
  <2>. QED
    BY <2>1
<1>5. \A u \in Runner : /\ HeldBy(run[u]) \in Nat /\ HeldBy(run'[u]) \in Nat
                        /\ SentBy(run[u]) \in Nat /\ SentBy(run'[u]) \in Nat
                        /\ WrappedBy(run[u]) \in Nat /\ WrappedBy(run'[u]) \in Nat
                        /\ LooseBy(run[u]) \in Nat /\ LooseBy(run'[u]) \in Nat
  BY <1>1, PartsAreNat
<1>. HIDE DEF Held, Sent, Wrapped, Loose, InHand, HeldBy, SentBy, WrappedBy, LooseBy, Total
<1>6. /\ Total(Held, Runner) \in Nat
      /\ Total(Held, Runner)' = Total(Held, Runner)
           + (HeldBy(r) - HeldBy(run[t]))
  <2>1. \A u \in Runner : Held[u] \in Nat /\ Held'[u] \in Nat
    BY <1>3, <1>5
  <2>2. \A u \in Runner : u # t => Held'[u] = Held[u]
    BY <1>1, <1>3
  <2>3. Held[t] = HeldBy(run[t]) /\ Held'[t] = HeldBy(r)
    BY <1>1, <1>3
  <2>4. /\ Total(Held, Runner) \in Nat /\ Held[t] <= Total(Held, Runner)
        /\ Total(Held', Runner) = Total(Held, Runner) + (Held'[t] - Held[t])
    BY <2>1, <2>2, SumMoves
  <2>. QED
    BY <2>3, <2>4
<1>7. /\ Total(Sent, Runner) \in Nat /\ SentBy(run[t]) <= Total(Sent, Runner)
      /\ Total(Sent, Runner)' = Total(Sent, Runner)
           + (SentBy(r) - SentBy(run[t]))
  <2>1. \A u \in Runner : Sent[u] \in Nat /\ Sent'[u] \in Nat
    BY <1>3, <1>5
  <2>2. \A u \in Runner : u # t => Sent'[u] = Sent[u]
    BY <1>1, <1>3
  <2>3. Sent[t] = SentBy(run[t]) /\ Sent'[t] = SentBy(r)
    BY <1>1, <1>3
  <2>4. /\ Total(Sent, Runner) \in Nat /\ Sent[t] <= Total(Sent, Runner)
        /\ Total(Sent', Runner) = Total(Sent, Runner) + (Sent'[t] - Sent[t])
    BY <2>1, <2>2, SumMoves
  <2>. QED
    BY <2>3, <2>4
<1>8. /\ Total(Wrapped, Runner) \in Nat
      /\ Total(Wrapped, Runner)' = Total(Wrapped, Runner)
           + (WrappedBy(r) - WrappedBy(run[t]))
  <2>1. \A u \in Runner : Wrapped[u] \in Nat /\ Wrapped'[u] \in Nat
    BY <1>3, <1>5
  <2>2. \A u \in Runner : u # t => Wrapped'[u] = Wrapped[u]
    BY <1>1, <1>3
  <2>3. Wrapped[t] = WrappedBy(run[t]) /\ Wrapped'[t] = WrappedBy(r)
    BY <1>1, <1>3
  <2>4. /\ Total(Wrapped, Runner) \in Nat /\ Wrapped[t] <= Total(Wrapped, Runner)
        /\ Total(Wrapped', Runner) = Total(Wrapped, Runner) + (Wrapped'[t] - Wrapped[t])
    BY <2>1, <2>2, SumMoves
  <2>. QED
    BY <2>3, <2>4
<1>9. /\ Total(Loose, Runner) \in Nat
      /\ Total(Loose, Runner)' = Total(Loose, Runner)
           + (LooseBy(r) - LooseBy(run[t]))
  <2>1. \A u \in Runner : Loose[u] \in Nat /\ Loose'[u] \in Nat
    BY <1>3, <1>5
  <2>2. \A u \in Runner : u # t => Loose'[u] = Loose[u]
    BY <1>1, <1>3
  <2>3. Loose[t] = LooseBy(run[t]) /\ Loose'[t] = LooseBy(r)
    BY <1>1, <1>3
  <2>4. /\ Total(Loose, Runner) \in Nat /\ Loose[t] <= Total(Loose, Runner)
        /\ Total(Loose', Runner) = Total(Loose, Runner) + (Loose'[t] - Loose[t])
    BY <2>1, <2>2, SumMoves
  <2>. QED
    BY <2>3, <2>4
<1>10. /\ Total(InHand, Runner) \in Nat
      /\ Total(InHand, Runner)' = Total(InHand, Runner)
           + ((HeldBy(r) + SentBy(r)) - (HeldBy(run[t]) + SentBy(run[t])))
  <2>1. \A u \in Runner : InHand[u] \in Nat /\ InHand'[u] \in Nat
    BY <1>4, <1>5
  <2>2. \A u \in Runner : u # t => InHand'[u] = InHand[u]
    BY <1>1, <1>4
  <2>3. InHand[t] = HeldBy(run[t]) + SentBy(run[t]) /\ InHand'[t] = HeldBy(r) + SentBy(r)
    BY <1>1, <1>4
  <2>4. /\ Total(InHand, Runner) \in Nat /\ InHand[t] <= Total(InHand, Runner)
        /\ Total(InHand', Runner) = Total(InHand, Runner) + (InHand'[t] - InHand[t])
    BY <2>1, <2>2, SumMoves
  <2>. QED
    BY <2>3, <2>4
<1>. QED
  BY <1>1, <1>2, <1>6, <1>7, <1>8, <1>9, <1>10

-----------------------------------------------------------------------------
\* What a transaction of a run does to the owner's QUSDC, to what lies at the
\* pair, to the WQIE and to the QIE.
QusdcMoved(r) == IF r.pc = "withdraw" THEN r.batch ELSE IF r.pc = "transfer" THEN 0 - r.batch ELSE 0
PairMoved(r) == IF r.pc = "transfer" THEN r.batch ELSE IF r.pc = "swap" THEN 0 - r.batch ELSE 0
WqieMoved(r) == IF r.pc = "swap" THEN r.ask ELSE IF r.pc = "unwrap" THEN 0 - r.ask ELSE 0
QieMoved(r) ==
  IF r.pc = "unwrap" THEN r.ask
  ELSE IF r.pc = "signer" THEN 0 - r.toSigner
  ELSE IF r.pc = "deposit" THEN r.toSigner - r.ask ELSE 0

LEMMA EffectMoves ==
  ASSUME BalancesOK, NEW r, RunOK(r), r.pc \in Steps, Effect(r), SentBy(r) <= AtPair
  PROVE  /\ BalancesOK'
         /\ wallet'.qusdc = wallet.qusdc + QusdcMoved(r)
         /\ AtPair' = AtPair + PairMoved(r)
         /\ wallet'.wqie = wallet.wqie + WqieMoved(r)
         /\ wallet'.qie = wallet.qie + QieMoved(r)
<1>. PICK b, a, s : b = r.batch /\ a = r.ask /\ s = r.toSigner
  OBVIOUS
<1>1. b \in Nat /\ a \in Nat /\ s \in Nat /\ s <= a
  BY DEF RunOK
<1>2. wallet \in [qusdc : Nat, wqie : Nat, qie : Nat]
  BY DEF BalancesOK
<1>3. CASE r.pc = "withdraw"
  <2>1. WithdrawQusdc(b)
    BY <1>3 DEF Effect
  <2>. QED
    BY <1>1, <1>3, <2>1
       DEF WithdrawQusdc, BalancesOK, AtPair, QusdcMoved, PairMoved, WqieMoved, QieMoved
<1>4. CASE r.pc = "transfer"
  <2>1. TransferToPair(b)
    BY <1>4 DEF Effect
  <2>. QED
    BY <1>1, <1>4, <2>1
       DEF TransferToPair, BalancesOK, AtPair, QusdcMoved, PairMoved, WqieMoved, QieMoved
<1>5. CASE r.pc = "swap"
  <2>1. Swap(b, a)
    BY <1>5 DEF Effect
  <2>2. b <= inPair + strandedIn
    BY <1>5 DEF SentBy, AtPair
  <2>. QED
    BY <1>1, <1>5, <2>1, <2>2
       DEF Swap, BalancesOK, AtPair, QusdcMoved, PairMoved, WqieMoved, QieMoved
<1>6. CASE r.pc = "unwrap"
  <2>1. Unwrap(a)
    BY <1>6 DEF Effect
  <2>2. wallet' = [wallet EXCEPT !.wqie = @ - a, !.qie = @ + a] /\ wallet.wqie >= a
    BY <2>1 DEF Unwrap
  <2>. PICK x, y : x = wallet.wqie - a /\ y = wallet.qie + a
    OBVIOUS
  <2>3. x \in Nat /\ y \in Nat
    BY <1>1, <1>2, <2>2
  <2>4. wallet' = [wallet EXCEPT !.wqie = x, !.qie = y]
    BY <2>2
  <2>5. wallet' = [qusdc |-> wallet.qusdc, wqie |-> x, qie |-> y]
    BY <1>2, <2>4, Zenon
  <2>6. BalancesOK'
    BY <1>2, <2>1, <2>3, <2>5 DEF Unwrap, BalancesOK
  <2>7. AtPair' = AtPair
    BY <2>1 DEF Unwrap, AtPair
  <2>8. QusdcMoved(r) = 0 /\ PairMoved(r) = 0 /\ WqieMoved(r) = 0 - a /\ QieMoved(r) = a
    BY <1>6 DEF QusdcMoved, PairMoved, WqieMoved, QieMoved
  <2>9. AtPair \in Nat
    BY DEF AtPair, BalancesOK
  <2>. QED
    BY <1>1, <1>2, <2>5, <2>6, <2>7, <2>8, <2>9
<1>7. ASSUME NEW k \in Sink, NEW x \in Nat, Fund(k, x), r.pc \in {"signer", "deposit"},
             QieMoved(r) = 0 - x
      PROVE  /\ BalancesOK'
             /\ wallet'.qusdc = wallet.qusdc + QusdcMoved(r)
             /\ AtPair' = AtPair + PairMoved(r)
             /\ wallet'.wqie = wallet.wqie + WqieMoved(r)
             /\ wallet'.qie = wallet.qie + QieMoved(r)
  <2>1. sinks' \in [Sink -> Nat]
    BY <1>7 DEF Fund, BalancesOK
  <2>. QED
    BY <1>7, <2>1 DEF Fund, BalancesOK, AtPair, QusdcMoved, PairMoved, WqieMoved
<1>8. CASE r.pc = "signer"
  BY <1>1, <1>7, <1>8 DEF Effect, Sink, QieMoved
<1>9. CASE r.pc = "deposit"
  <2>1. Fund("ep", a - s) /\ a - s \in Nat /\ QieMoved(r) = 0 - (a - s)
    BY <1>1, <1>9 DEF Effect, ToEntryPoint, QieMoved
  <2>. QED
    BY <1>7, <1>9, <2>1 DEF Sink
<1>. QED
  BY <1>3, <1>4, <1>5, <1>6, <1>8, <1>9 DEF Steps

\* What a run is after a transaction that went through.
Onward(r) == IF Following(r) = "idle" THEN NoRun ELSE [r EXCEPT !.pc = Following(r)]

LEMMA NoRunOK ==
  RunOK(NoRun) /\ HeldBy(NoRun) = 0 /\ SentBy(NoRun) = 0 /\ WrappedBy(NoRun) = 0
    /\ LooseBy(NoRun) = 0
BY MaxIsNat DEF NoRun, RunOK, HeldBy, SentBy, WrappedBy, LooseBy, Steps

\* The run has what the transaction moved.
LEMMA RunMovesOn ==
  ASSUME NEW r, RunOK(r), r.pc \in Steps
  PROVE  /\ RunOK(Onward(r))
         /\ HeldBy(Onward(r)) - HeldBy(r) = QusdcMoved(r)
         /\ SentBy(Onward(r)) - SentBy(r) = PairMoved(r)
         /\ WrappedBy(Onward(r)) - WrappedBy(r) = WqieMoved(r)
         /\ LooseBy(Onward(r)) - LooseBy(r) = QieMoved(r)
<1>. PICK f, b, a, s, o : /\ f = Following(r) /\ b = r.batch /\ a = r.ask /\ s = r.toSigner
                          /\ o = Onward(r)
  OBVIOUS
<1>1. b \in Nat /\ a \in Nat /\ s \in Nat /\ s <= a /\ a > 0
  BY DEF RunOK
<1>2. /\ r.pc = "withdraw" => f = "transfer"
      /\ r.pc = "transfer" => f = "swap"
      /\ r.pc = "swap" => f = "unwrap"
      /\ r.pc = "unwrap" => f = "signer" \/ (f = "deposit" /\ s = 0)
      /\ r.pc = "signer" => f = "deposit" \/ (f = "idle" /\ a = s)
      /\ r.pc = "deposit" => f = "idle"
  BY <1>1 DEF Following, ToEntryPoint
<1>3. CASE f = "idle"
  <2>1. o = NoRun
    BY <1>3 DEF Onward
  <2>2. CASE r.pc = "signer"
    <3>1. HeldBy(r) = 0 /\ SentBy(r) = 0 /\ WrappedBy(r) = 0 /\ LooseBy(r) = a
      BY <2>2 DEF HeldBy, SentBy, WrappedBy, LooseBy
    <3>2. QusdcMoved(r) = 0 /\ PairMoved(r) = 0 /\ WqieMoved(r) = 0 /\ QieMoved(r) = 0 - s
      BY <2>2 DEF QusdcMoved, PairMoved, WqieMoved, QieMoved
    <3>3. a = s
      BY <1>2, <1>3, <2>2
    <3>. QED
      BY <1>1, <2>1, <3>1, <3>2, <3>3, NoRunOK
  <2>3. CASE r.pc = "deposit"
    <3>1. HeldBy(r) = 0 /\ SentBy(r) = 0 /\ WrappedBy(r) = 0 /\ LooseBy(r) = a - s
      BY <2>3 DEF HeldBy, SentBy, WrappedBy, LooseBy
    <3>2. QusdcMoved(r) = 0 /\ PairMoved(r) = 0 /\ WqieMoved(r) = 0 /\ QieMoved(r) = s - a
      BY <2>3 DEF QusdcMoved, PairMoved, WqieMoved, QieMoved
    <3>. QED
      BY <1>1, <2>1, <3>1, <3>2, NoRunOK
  <2>. QED
    BY <1>2, <1>3, <2>2, <2>3 DEF Steps
<1>4. CASE f # "idle"
  <2>1. o = [r EXCEPT !.pc = f] /\ f \in Steps
    BY <1>2, <1>4 DEF Onward, Steps
  <2>2. /\ o \in [pc : {"idle", "quote"} \cup Steps, batch : Nat, deficit : Nat, ask : Nat,
                  toSigner : Nat]
        /\ o.pc = f /\ o.batch = b /\ o.ask = a /\ o.toSigner = s
    BY <2>1 DEF RunOK
  <2>3. RunOK(o)
    BY <1>1, <2>2 DEF RunOK
  <2>4. HeldBy(o) - HeldBy(r) = QusdcMoved(r) /\ SentBy(o) - SentBy(r) = PairMoved(r)
    BY <1>1, <1>2, <1>4, <2>2 DEF HeldBy, SentBy, QusdcMoved, PairMoved, Steps
  <2>5. WrappedBy(o) - WrappedBy(r) = WqieMoved(r) /\ LooseBy(o) - LooseBy(r) = QieMoved(r)
    BY <1>1, <1>2, <1>4, <2>2 DEF WrappedBy, LooseBy, WqieMoved, QieMoved, Steps
  <2>. QED
    BY <2>3, <2>4, <2>5
<1>. QED
  BY <1>3, <1>4

LEMMA MovesAreInt ==
  ASSUME NEW r, RunOK(r)
  PROVE  /\ QusdcMoved(r) \in Int /\ PairMoved(r) \in Int /\ WqieMoved(r) \in Int
         /\ QieMoved(r) \in Int
         /\ HeldBy(r) + SentBy(r) + QusdcMoved(r) + PairMoved(r) <= MaxQusdc
         /\ 0 - SentBy(r) <= PairMoved(r)
BY MaxIsNat DEF RunOK, QusdcMoved, PairMoved, WqieMoved, QieMoved, HeldBy, SentBy

-----------------------------------------------------------------------------
LEMMA SendStepKeeps ==
  ASSUME TreasuryInv, NEW t \in Runner, SendStep(t)
  PROVE  TreasuryInv'
<1>. PICK r, o : r = run[t] /\ o = Onward(run[t])
  OBVIOUS
<1>1. r.pc \in Steps /\ Effect(r) /\ aborts' = aborts /\ run' = [run EXCEPT ![t] = o]
  BY DEF SendStep, Onward
<1>2. RunOK(r) /\ RunsOK /\ BalancesOK
  BY DEF TreasuryInv, RunsOK
<1>3. /\ RunOK(o)
      /\ HeldBy(o) - HeldBy(r) = QusdcMoved(r) /\ SentBy(o) - SentBy(r) = PairMoved(r)
      /\ WrappedBy(o) - WrappedBy(r) = WqieMoved(r) /\ LooseBy(o) - LooseBy(r) = QieMoved(r)
  BY <1>1, <1>2, RunMovesOn
<1>. PICK h, p, w, l, i :
       /\ h = Total(Held, Runner) /\ p = Total(Sent, Runner) /\ w = Total(Wrapped, Runner)
       /\ l = Total(Loose, Runner) /\ i = Total(InHand, Runner)
  OBVIOUS
<1>. PICK dq, dp, dw, dl : dq = QusdcMoved(r) /\ dp = PairMoved(r) /\ dw = WqieMoved(r)
                             /\ dl = QieMoved(r)
  OBVIOUS
<1>4. dq \in Int /\ dp \in Int /\ dw \in Int /\ dl \in Int
  BY <1>2, MovesAreInt
<1>5. HeldBy(r) \in Nat /\ SentBy(r) \in Nat /\ HeldBy(o) \in Nat /\ SentBy(o) \in Nat
  BY <1>2, <1>3, PartsAreNat
<1>6. /\ RunsOK' /\ {h, p, w, l, i} \subseteq Nat /\ SentBy(r) <= p
      /\ Total(Held, Runner)' = h + dq /\ Total(Sent, Runner)' = p + dp
      /\ Total(Wrapped, Runner)' = w + dw /\ Total(Loose, Runner)' = l + dl
      /\ Total(InHand, Runner)' = i + ((HeldBy(o) + SentBy(o)) - (HeldBy(r) + SentBy(r)))
  BY <1>1, <1>2, <1>3, OneRunMoves
<1>7. Total(InHand, Runner)' = i + (dq + dp)
  BY <1>3, <1>5, <1>6
<1>8. AtPair \in Nat /\ wallet.qusdc \in Nat /\ wallet.wqie \in Nat /\ wallet.qie \in Nat
      /\ AtPair >= p /\ Abroad = wallet.qusdc + AtPair
  BY <1>2 DEF BalancesOK, AtPair, Abroad, TreasuryInv
<1>9. /\ BalancesOK'
      /\ wallet'.qusdc = wallet.qusdc + dq /\ AtPair' = AtPair + dp
      /\ wallet'.wqie = wallet.wqie + dw /\ wallet'.qie = wallet.qie + dl
  <2>1. SentBy(r) <= AtPair
    <3>. HIDE DEF SentBy, AtPair
    <3>. QED
      BY <1>5, <1>6, <1>8
  <2>. QED
    BY <1>1, <1>2, <2>1, EffectMoves
<1>. HIDE DEF AtPair, BalancesOK, RunsOK, Held, Sent, Wrapped, Loose, InHand
<1>10. AtPair' >= Total(Sent, Runner)'
  BY <1>4, <1>6, <1>8, <1>9
<1>11. Abroad' <= MaxQusdc * aborts' + Total(InHand, Runner)'
  <2>1. Abroad' = wallet'.qusdc + AtPair'
    BY <1>9 DEF BalancesOK, Abroad, AtPair
  <2>. PICK n : n = MaxQusdc * aborts
    OBVIOUS
  <2>2. n \in Nat /\ Abroad <= n + i
    BY MaxIsNat, Times DEF TreasuryInv
  <2>3. wallet.qusdc + dq + (AtPair + dp) <= n + (i + (dq + dp))
    BY <1>4, <1>6, <1>8, <2>2
  <2>. QED
    BY <1>1, <1>7, <1>9, <2>1, <2>3
<1>12. aborts' = 0 => OnlyTheRuns'
  <2>. SUFFICES ASSUME aborts' = 0
                PROVE  OnlyTheRuns'
    OBVIOUS
  <2>1. OnlyTheRuns
    BY <1>1 DEF TreasuryInv
  <2>. QED
    BY <1>6, <1>9, <2>1 DEF OnlyTheRuns
<1>. QED
  BY <1>1, <1>6, <1>9, <1>10, <1>11, <1>12 DEF TreasuryInv

\* Cutting a run short, with or without the effect of its transaction, leaves
\* at most its batch behind.
LEMMA AbortKeeps ==
  ASSUME TreasuryInv, NEW t \in Runner, run[t].pc \in Steps, GivenUp(t),
         UNCHANGED balances \/ Effect(run[t])
  PROVE  TreasuryInv'
<1>. PICK r : r = run[t]
  OBVIOUS
<1>1. aborts' = aborts + 1 /\ run' = [run EXCEPT ![t] = NoRun]
  BY DEF GivenUp
<1>2. RunOK(r) /\ RunsOK /\ BalancesOK
  BY DEF TreasuryInv, RunsOK
<1>. PICK p, i, hr, sr, dq, dp :
       /\ p = Total(Sent, Runner) /\ i = Total(InHand, Runner)
       /\ hr = HeldBy(r) /\ sr = SentBy(r) /\ dq = QusdcMoved(r) /\ dp = PairMoved(r)
  OBVIOUS
<1>3. hr \in Nat /\ sr \in Nat /\ hr + sr <= MaxQusdc
  BY <1>2, PartsAreNat
<1>4. /\ dq \in Int /\ dp \in Int /\ hr + sr + dq + dp <= MaxQusdc /\ 0 - sr <= dp
  BY <1>2, MovesAreInt
<1>5. /\ RunsOK' /\ p \in Nat /\ i \in Nat /\ sr <= p
      /\ Total(Sent, Runner)' = p + (0 - sr)
      /\ Total(InHand, Runner)' = i + ((0 + 0) - (hr + sr))
  BY <1>1, <1>2, NoRunOK, OneRunMoves
<1>6. AtPair \in Nat /\ wallet.qusdc \in Nat /\ AtPair >= p /\ Abroad = wallet.qusdc + AtPair
  BY <1>2 DEF BalancesOK, AtPair, Abroad, TreasuryInv
<1>7. /\ BalancesOK'
      /\ \/ wallet'.qusdc = wallet.qusdc /\ AtPair' = AtPair
         \/ wallet'.qusdc = wallet.qusdc + dq /\ AtPair' = AtPair + dp
  <2>1. CASE UNCHANGED balances
    BY <1>2, <2>1 DEF balances, BalancesOK, AtPair
  <2>2. CASE Effect(r)
    <3>1. SentBy(r) <= AtPair
      <4>. HIDE DEF SentBy, AtPair
      <4>. QED
        BY <1>3, <1>5, <1>6
    <3>. QED
      BY <1>2, <2>2, <3>1, EffectMoves
  <2>. QED
    BY <2>1, <2>2
<1>. HIDE DEF AtPair, BalancesOK, RunsOK, Sent, InHand
<1>8. AtPair' >= Total(Sent, Runner)'
  BY <1>3, <1>4, <1>5, <1>6, <1>7
<1>9. Abroad' <= MaxQusdc * aborts' + Total(InHand, Runner)'
  <2>1. Abroad' = wallet'.qusdc + AtPair'
    BY <1>7 DEF BalancesOK, Abroad, AtPair
  <2>. PICK n : n = MaxQusdc * aborts
    OBVIOUS
  <2>2. n \in Nat /\ Abroad <= n + i /\ MaxQusdc * aborts' = n + MaxQusdc
    BY <1>1, MaxIsNat, Times DEF TreasuryInv
  <2>3. /\ wallet.qusdc + AtPair <= n + MaxQusdc + (i + ((0 + 0) - (hr + sr)))
        /\ wallet.qusdc + dq + (AtPair + dp) <= n + MaxQusdc + (i + ((0 + 0) - (hr + sr)))
    BY <1>3, <1>4, <1>5, <1>6, <2>2, MaxIsNat
  <2>. QED
    BY <1>5, <1>7, <2>1, <2>2, <2>3
<1>10. aborts' \in Nat /\ aborts' # 0
  BY <1>1 DEF TreasuryInv
<1>. QED
  BY <1>5, <1>7, <1>8, <1>9, <1>10 DEF TreasuryInv

\* A run that has nothing yet.
Light(r) == r.pc \in {"idle", "quote", "withdraw"}

LEMMA LightHasNothing ==
  ASSUME NEW r, Light(r)
  PROVE  HeldBy(r) = 0 /\ SentBy(r) = 0 /\ WrappedBy(r) = 0 /\ LooseBy(r) = 0
BY DEF Light, HeldBy, SentBy, WrappedBy, LooseBy

\* A run begins or is given up before its first transaction.
LEMMA LightKeeps ==
  ASSUME TreasuryInv, NEW t \in Runner, Light(run[t]), NEW r, RunOK(r), Light(r),
         run' = [run EXCEPT ![t] = r], UNCHANGED <<balances, aborts>>
  PROVE  TreasuryInv'
<1>1. RunsOK /\ BalancesOK
  BY DEF TreasuryInv
<1>2. /\ RunsOK'
      /\ {Total(Held, Runner), Total(Sent, Runner), Total(Wrapped, Runner),
          Total(Loose, Runner), Total(InHand, Runner)} \subseteq Nat
      /\ Total(Held, Runner)' = Total(Held, Runner) + (0 - 0)
      /\ Total(Sent, Runner)' = Total(Sent, Runner) + (0 - 0)
      /\ Total(Wrapped, Runner)' = Total(Wrapped, Runner) + (0 - 0)
      /\ Total(Loose, Runner)' = Total(Loose, Runner) + (0 - 0)
      /\ Total(InHand, Runner)' = Total(InHand, Runner) + ((0 + 0) - (0 + 0))
  <2>1. /\ HeldBy(r) = 0 /\ SentBy(r) = 0 /\ WrappedBy(r) = 0 /\ LooseBy(r) = 0
        /\ HeldBy(run[t]) = 0 /\ SentBy(run[t]) = 0 /\ WrappedBy(run[t]) = 0 /\ LooseBy(run[t]) = 0
    BY LightHasNothing
  <2>. QED
    BY <1>1, <2>1, OneRunMoves
<1>. HIDE DEF Held, Sent, Wrapped, Loose, InHand
<1>3. /\ Total(Held, Runner)' = Total(Held, Runner) /\ Total(Sent, Runner)' = Total(Sent, Runner)
      /\ Total(Wrapped, Runner)' = Total(Wrapped, Runner)
      /\ Total(Loose, Runner)' = Total(Loose, Runner)
      /\ Total(InHand, Runner)' = Total(InHand, Runner)
  BY <1>2
<1>4. BalancesOK' /\ AtPair' = AtPair /\ Abroad' = Abroad /\ wallet' = wallet /\ aborts' = aborts
  BY <1>1 DEF balances, BalancesOK, AtPair, Abroad
<1>. QED
  BY <1>2, <1>3, <1>4 DEF TreasuryInv, OnlyTheRuns

LEMMA BeginKeeps ==
  ASSUME TreasuryInv, NEW t \in Runner, BeginRebalance(t)
  PROVE  TreasuryInv'
<1>1. \A k \in Sink : Deficit(k) \in Nat
  <2>. SUFFICES ASSUME NEW k \in Sink
                PROVE  Deficit(k) \in Nat
    OBVIOUS
  <2>1. sinks[k] \in Nat /\ SinkFloor[k] \in Nat /\ SinkTarget[k] \in Nat
    BY TreasuryAssumption DEF TreasuryInv, BalancesOK
  <2>2. SinkFloor[k] <= SinkTarget[k]
    BY TreasuryAssumption
  <2>. QED
    BY <2>1, <2>2 DEF Deficit
<1>2. PICK b, d, r : /\ b = Least(collected, MaxQusdc) /\ d = Deficit("signer")
                     /\ r = [NoRun EXCEPT !.pc = "quote", !.batch = b, !.deficit = d]
  OBVIOUS
<1>3. b \in Nat /\ b <= MaxQusdc /\ d \in Nat
  BY <1>1, <1>2, MaxIsNat DEF Least, TreasuryInv, BalancesOK, Sink
<1>4. r = [pc |-> "quote", batch |-> b, deficit |-> d, ask |-> 0, toSigner |-> 0]
  BY <1>2 DEF NoRun
<1>5. RunOK(r) /\ Light(r)
  BY <1>3, <1>4 DEF RunOK, Light, Steps
<1>6. Light(run[t]) /\ run' = [run EXCEPT ![t] = r] /\ UNCHANGED <<balances, aborts>>
  BY <1>2 DEF BeginRebalance, Starts, Light
<1>. QED
  BY <1>5, <1>6, LightKeeps

LEMMA QuoteKeeps ==
  ASSUME TreasuryInv, NEW t \in Runner, Quote(t)
  PROVE  TreasuryInv'
<1>. PICK q : q = run[t]
  OBVIOUS
<1>1. RunOK(q) /\ q.pc = "quote" /\ BalancesOK /\ UNCHANGED <<balances, aborts>>
  BY DEF Quote, TreasuryInv, RunsOK
<1>2. PICK ask, s, r :
        /\ ask = AskFor(q.batch) /\ s = Least(ask, q.deficit)
        /\ r = IF ask <= 0 \/ ~settings.live THEN NoRun
               ELSE [q EXCEPT !.pc = "withdraw", !.ask = ask, !.toSigner = s]
  OBVIOUS
<1>3. run' = [run EXCEPT ![t] = r]
  BY <1>2 DEF Quote
<1>4. ask \in Int
  BY <1>1, <1>2, AskIsInt DEF RunOK
<1>5. RunOK(r) /\ Light(r)
  <2>1. CASE r = NoRun
    BY <2>1, NoRunOK DEF Light, NoRun
  <2>2. CASE r # NoRun
    <3>1. ask > 0 /\ r = [q EXCEPT !.pc = "withdraw", !.ask = ask, !.toSigner = s]
      BY <1>2, <1>4, <2>2
    <3>2. ask \in Nat /\ s \in Nat /\ s <= ask
      BY <1>1, <1>2, <1>4, <3>1 DEF Least, RunOK
    <3>3. r = [pc |-> "withdraw", batch |-> q.batch, deficit |-> q.deficit, ask |-> ask,
               toSigner |-> s]
      BY <1>1, <3>1, Zenon DEF RunOK
    <3>. QED
      BY <1>1, <3>1, <3>2, <3>3 DEF RunOK, Light, Steps
  <2>. QED
    BY <2>1, <2>2
<1>6. Light(run[t])
  BY <1>1 DEF Light
<1>. QED
  BY <1>1, <1>3, <1>5, <1>6, LightKeeps

\* What leaves the runs alone leaves their sums alone.
LEMMA RunsApart ==
  ASSUME TreasuryInv, UNCHANGED <<run, wallet, aborts>>, AtPair' = AtPair, Abroad' = Abroad,
         BalancesOK'
  PROVE  TreasuryInv'
<1>1. Held' = Held /\ Sent' = Sent /\ Wrapped' = Wrapped /\ Loose' = Loose /\ InHand' = InHand
  BY DEF Held, Sent, Wrapped, Loose, InHand, HeldBy, SentBy, WrappedBy, LooseBy
<1>2. RunsOK'
  BY DEF RunsOK, RunOK, TreasuryInv
<1>. HIDE DEF Held, Sent, Wrapped, Loose, InHand, AtPair, Abroad, BalancesOK
<1>. QED
  BY <1>1, <1>2 DEF TreasuryInv, OnlyTheRuns

\* Others' business on the pair moves what lies there to its reserves.
LEMMA TakenInKeeps ==
  ASSUME TreasuryInv, NEW r \in [qusdc : Int, wqie : Int], TakenIn(r)
  PROVE  TreasuryInv'
<1>1. BalancesOK
  BY DEF TreasuryInv
<1>2. /\ inPair' = 0 /\ strandedIn' = strandedIn + inPair
      /\ UNCHANGED <<collected, sinks, wallet, run, aborts>>
  BY DEF TakenIn
<1>3. reserve' \in [qusdc : Int, wqie : Int]
  BY <1>1 DEF TakenIn, BalancesOK
<1>4. BalancesOK' /\ AtPair' = AtPair /\ Abroad' = Abroad
  BY <1>1, <1>2, <1>3 DEF BalancesOK, AtPair, Abroad
<1>. QED
  BY <1>2, <1>4, RunsApart

LEMMA TradeKeeps ==
  ASSUME TreasuryInv, NEW size \in TradeSize, Trade(size)
  PROVE  TreasuryInv'
<1>1. size \in Nat
  BY TreasuryAssumption
<1>2. reserve.qusdc \in Int /\ reserve.wqie \in Int
  BY DEF TreasuryInv, BalancesOK
<1>. PICK x, y : /\ x = GetAmountOut(size, reserve.qusdc, reserve.wqie)
                 /\ y = GetAmountOut(size, reserve.wqie, reserve.qusdc)
  OBVIOUS
<1>3. x \in Int /\ y \in Int
  BY <1>1, <1>2, AmountIsInt
<1>4. /\ [qusdc |-> reserve.qusdc + size, wqie |-> reserve.wqie - x] \in [qusdc : Int, wqie : Int]
      /\ [qusdc |-> reserve.qusdc - y, wqie |-> reserve.wqie + size] \in [qusdc : Int, wqie : Int]
  BY <1>1, <1>2, <1>3
<1>5. \/ TakenIn([qusdc |-> reserve.qusdc + size, wqie |-> reserve.wqie - x])
      \/ TakenIn([qusdc |-> reserve.qusdc - y, wqie |-> reserve.wqie + size])
  BY DEF Trade
<1>. QED
  BY <1>4, <1>5, TakenInKeeps

LEMMA SpendKeeps ==
  ASSUME TreasuryInv, NEW k \in Sink, SpendGas(k)
  PROVE  TreasuryInv'
<1>1. /\ UNCHANGED <<wallet, reserve, inPair, strandedIn, run, aborts>>
      /\ collected' \in {collected, collected + 1}
      /\ sinks' = [sinks EXCEPT ![k] = @ - 1] /\ sinks[k] > 0
  BY DEF SpendGas
<1>2. BalancesOK
  BY DEF TreasuryInv
<1>3. sinks' \in [Sink -> Nat] /\ collected' \in Nat
  BY <1>1, <1>2 DEF BalancesOK
<1>4. BalancesOK' /\ AtPair' = AtPair /\ Abroad' = Abroad
  BY <1>1, <1>2, <1>3 DEF BalancesOK, AtPair, Abroad
<1>. QED
  BY <1>1, <1>4, RunsApart

\* While all runs are idle they have nothing.
LEMMA IdleHaveNothing ==
  ASSUME \A t \in Runner : run[t].pc = "idle"
  PROVE  /\ Total(Held, Runner) = 0 /\ Total(Sent, Runner) = 0 /\ Total(Wrapped, Runner) = 0
         /\ Total(Loose, Runner) = 0 /\ Total(InHand, Runner) = 0
<1>1. \A t \in Runner :
        Held[t] = 0 /\ Sent[t] = 0 /\ Wrapped[t] = 0 /\ Loose[t] = 0 /\ InHand[t] = 0
  BY DEF Held, Sent, Wrapped, Loose, InHand, HeldBy, SentBy, WrappedBy, LooseBy
<1>. HIDE DEF Held, Sent, Wrapped, Loose, InHand
<1>. QED
  BY <1>1, RunnerIsFinite, TotalZero

LEMMA TreasuryInvInitially == TreasuryInit => TreasuryInv
<1>. SUFFICES ASSUME TreasuryInit
              PROVE  TreasuryInv
  OBVIOUS
<1>1. PICK t \in Treasuries : collected = t.collected /\ sinks = t.sinks /\ reserve = t.reserve
  BY DEF TreasuryInit
<1>2. t \in [collected : Nat, sinks : [Sink -> Nat], reserve : [qusdc : Nat, wqie : Nat],
             settings : [owner : BOOLEAN, live : BOOLEAN]]
  BY TreasuryAssumption
<1>3. /\ wallet = [qusdc |-> 0, wqie |-> 0, qie |-> 0] /\ inPair = 0 /\ strandedIn = 0
      /\ run = [u \in Runner |-> NoRun] /\ aborts = 0
  BY DEF TreasuryInit
<1>4. collected \in Nat /\ sinks \in [Sink -> Nat] /\ reserve \in [qusdc : Int, wqie : Int]
  BY <1>1, <1>2
<1>5. RunsOK /\ \A u \in Runner : run[u].pc = "idle"
  <2>1. DOMAIN run = Runner /\ \A u \in Runner : run[u] = NoRun
    BY <1>3
  <2>2. NoRun.pc = "idle"
    BY DEF NoRun
  <2>. QED
    BY <2>1, <2>2, NoRunOK DEF RunsOK
<1>6. BalancesOK
  BY <1>3, <1>4 DEF BalancesOK
<1>7. MaxQusdc * 0 = 0 /\ Abroad = 0 /\ AtPair = 0
  BY <1>3, MaxIsNat DEF Abroad, AtPair
<1>8. /\ Total(Held, Runner) = 0 /\ Total(Sent, Runner) = 0 /\ Total(Wrapped, Runner) = 0
      /\ Total(Loose, Runner) = 0 /\ Total(InHand, Runner) = 0
  BY <1>5, IdleHaveNothing
<1>. HIDE DEF Held, Sent, Wrapped, Loose, InHand
<1>. QED
  BY <1>3, <1>5, <1>6, <1>7, <1>8 DEF TreasuryInv, OnlyTheRuns

LEMMA TreasuryInvKept == TreasuryInv /\ [TreasuryNext]_treasuryVars => TreasuryInv'
<1>. SUFFICES ASSUME TreasuryInv, [TreasuryNext]_treasuryVars
              PROVE  TreasuryInv'
  OBVIOUS
<1>1. ASSUME NEW t \in Runner, BeginRebalance(t)
      PROVE  TreasuryInv'
  BY <1>1, BeginKeeps
<1>2. ASSUME NEW t \in Runner, Quote(t)
      PROVE  TreasuryInv'
  BY <1>2, QuoteKeeps
<1>3. ASSUME NEW t \in Runner, SendStep(t)
      PROVE  TreasuryInv'
  BY <1>3, SendStepKeeps
<1>4. ASSUME NEW t \in Runner, StepReverts(t)
      PROVE  TreasuryInv'
  BY <1>4, AbortKeeps DEF StepReverts, Steps
<1>5. ASSUME NEW t \in Runner, AbortRun(t)
      PROVE  TreasuryInv'
  BY <1>5, AbortKeeps DEF AbortRun
<1>6. CASE BeatMainnet
  BY <1>6, TakenInKeeps DEF BeatMainnet, TreasuryInv, BalancesOK
<1>7. ASSUME NEW size \in TradeSize, Trade(size)
      PROVE  TreasuryInv'
  BY <1>7, TradeKeeps
<1>8. ASSUME NEW k \in Sink, SpendGas(k)
      PROVE  TreasuryInv'
  BY <1>8, SpendKeeps
<1>9. CASE UNCHANGED treasuryVars
  <2>1. BalancesOK' /\ AtPair' = AtPair /\ Abroad' = Abroad /\ UNCHANGED <<run, wallet, aborts>>
    BY <1>9 DEF treasuryVars, balances, TreasuryInv, BalancesOK, AtPair, Abroad
  <2>. QED
    BY <2>1, RunsApart
<1>. QED
  BY <1>1, <1>2, <1>3, <1>4, <1>5, <1>6, <1>7, <1>8, <1>9 DEF TreasuryNext, RunStep

LEMMA TreasuryInvBounds == TreasuryInv => LossPerAbortBounded
<1>. SUFFICES ASSUME TreasuryInv
              PROVE  LossPerAbortBounded
  OBVIOUS
<1>1. FoldFunction(LAMBDA x, y : x + y, 0, InHand) = Total(InHand, Runner)
  <2>1. DOMAIN InHand = Runner
    BY DEF InHand
  <2>. QED
    BY <2>1 DEF FoldFunction, Total
<1>2. wallet.qusdc + inPair + strandedIn
        <= MaxQusdc * aborts + FoldFunction(LAMBDA x, y : x + y, 0, InHand)
  BY <1>1 DEF TreasuryInv, Abroad
<1>3. ASSUME aborts = 0, \A t \in Runner : run[t].pc = "idle"
      PROVE  wallet = [qusdc |-> 0, wqie |-> 0, qie |-> 0] /\ inPair = 0 /\ strandedIn = 0
  <2>1. wallet.qusdc = 0 /\ AtPair = 0 /\ wallet.wqie = 0 /\ wallet.qie = 0
    BY <1>3, IdleHaveNothing DEF TreasuryInv, OnlyTheRuns
  <2>. QED
    BY <2>1 DEF AtPair, TreasuryInv, BalancesOK
<1>. QED
  BY <1>2, <1>3 DEF LossPerAbortBounded

(***************************************************************************)
(* Whatever transactions of runRebalanceOnce fail, time out or take effect *)
(* after all, however many runs the timer has under way at a time, and     *)
(* whatever others do to the pair meanwhile, each abort costs at most one  *)
(* batch, and without one the runs leave nothing behind.                   *)
(***************************************************************************)
THEOREM LossBounded == TreasurySpec => []LossPerAbortBounded
BY TreasuryInvInitially, TreasuryInvKept, TreasuryInvBounds, PTL DEF TreasurySpec
-----------------------------------------------------------------------------
(***************************************************************************)
(* The keeper.  A tick that waits and has seen its operation mined holds   *)
(* the number of a payment that no other tick holds and no receipt names,  *)
(* so receipts of one subscription name different payments.                *)
(***************************************************************************)
KeeperTick ==
  [pc : {"idle", "loop", "due", "wait"}, seen : SUBSET Nat, sub : Nat, number : Nat, charge : Nat]

Receipt == [sub : Nat, number : Nat, charge : Nat]

\* What a tick has in hand: a subscription, and the payment it has made if any.
InTurn(k, s) ==
  /\ k.pc \in {"due", "wait"} => k.sub \in DOMAIN s /\ k.number <= s[k.sub].paymentsMade + 1
  /\ k.charge > 0 =>
       k.pc = "wait" /\ k.charge <= s[k.sub].paymentsMade /\ k.number <= k.charge

Names(x, y) == x.sub = y.sub /\ x.charge = y.charge

ReceiptHolds(r, s) ==
  r.sub \in DOMAIN s /\ r.charge > 0 /\ r.charge <= s[r.sub].paymentsMade /\ r.number <= r.charge

KeeperInv ==
  /\ activeSubs \subseteq DOMAIN subs
  /\ tick \in [TickName -> KeeperTick]
  /\ receipts \subseteq Receipt
  /\ pool # NoOp => pool.sub \in DOMAIN subs /\ pool.from \in TickName
  /\ pool # NoOp /\ tick[pool.from].pc = "wait" =>
       tick[pool.from].sub = pool.sub /\ tick[pool.from].charge = 0
  /\ \A t \in TickName : InTurn(tick[t], subs)
  /\ \A t, u \in TickName : tick[t].charge > 0 /\ Names(tick[t], tick[u]) => t = u
  /\ \A r \in receipts : ReceiptHolds(r, subs)
  /\ \A r, q \in receipts : Names(r, q) => r = q
  /\ \A r \in receipts, t \in TickName : ~ Names(r, tick[t])

\* Subscriptions are added and charged more often; none goes away.
SubsGrow ==
  \A id \in DOMAIN subs :
    id \in DOMAIN subs' /\ subs'[id].paymentsMade \in Nat /\ subs[id].paymentsMade \in Nat
      /\ subs[id].paymentsMade <= subs'[id].paymentsMade

LEMMA SubIsTyped ==
  ASSUME RailsInv, NEW id \in DOMAIN subs
  PROVE  subs[id] \in Subscription /\ subs[id].paymentsMade \in Nat /\ id \in Nat
<1>1. subs[id] \in Subscription /\ id \in Nat
  BY DEF RailsInv, RailsTypeOK
<1>. QED
  BY <1>1 DEF Subscription

LEMMA SubsKept ==
  ASSUME RailsInv, UNCHANGED subs
  PROVE  SubsGrow
BY SubIsTyped DEF SubsGrow

LEMMA ChargeGrows ==
  ASSUME RailsInv, NEW a \in Party, NEW id \in DOMAIN subs, Charge(a, id)
  PROVE  SubsGrow /\ subs'[id].paymentsMade = subs[id].paymentsMade + 1
<1>1. subs[id] \in Subscription /\ subs[id].paymentsMade \in Nat
  BY SubIsTyped
<1>2. subs' = [subs EXCEPT ![id] = Charged(subs[id])]
  BY DEF Charge
<1>3. Charged(subs[id]).paymentsMade = subs[id].paymentsMade + 1
  BY <1>1 DEF Charged, Subscription
<1>4. subs'[id].paymentsMade = subs[id].paymentsMade + 1
  BY <1>2, <1>3
<1>5. \A x \in DOMAIN subs : x # id => subs'[x] = subs[x]
  BY <1>2
<1>. QED
  BY <1>1, <1>2, <1>4, <1>5, SubIsTyped DEF SubsGrow

LEMMA RailsGrow ==
  ASSUME RailsInv, RailsNext
  PROVE  SubsGrow
<1>1. ASSUME NEW a \in Party, NEW b \in Party, NEW p \in Plan, Subscribe(a, b, p) PROVE SubsGrow
  <2>1. PICK v : subs' = With(subs, NextId(subs), v)
    BY <1>1 DEF Subscribe
  <2>2. PICK k \in Nat : DOMAIN subs = 1..k
    BY DEF RailsInv, IdsInOrder
  <2>3. NextId(subs) \notin DOMAIN subs
    BY <2>2, NextIdIsNew
  <2>4. \A x \in DOMAIN subs : x \in DOMAIN subs' /\ subs'[x] = subs[x]
    BY <2>1, <2>3 DEF With
  <2>. QED
    BY <2>4, SubIsTyped DEF SubsGrow
<1>2. ASSUME NEW a \in Party, NEW id \in DOMAIN subs, Charge(a, id) PROVE SubsGrow
  BY <1>2, ChargeGrows
<1>3. ASSUME NEW a \in Party, NEW id \in DOMAIN subs, CancelSubscription(a, id) PROVE SubsGrow
  <2>1. subs' = [subs EXCEPT ![id].active = FALSE]
    BY <1>3 DEF CancelSubscription
  <2>2. \A x \in DOMAIN subs : x \in DOMAIN subs' /\ subs'[x].paymentsMade = subs[x].paymentsMade
    BY <2>1, SubIsTyped DEF Subscription
  <2>. QED
    BY <2>2, SubIsTyped DEF SubsGrow
<1>4. CASE UNCHANGED subs
  BY <1>4, SubsKept
<1>5. ASSUME NEW a \in Party, NEW r \in RailContract, NEW n \in Allowed, Approve(a, r, n) PROVE UNCHANGED subs
  BY <1>5 DEF Approve, subVars
<1>6. ASSUME NEW a \in Party, NEW b \in Party, NEW n \in Allowed, Pay(a, b, n) PROVE UNCHANGED subs
  BY <1>6 DEF Pay, subVars
<1>7. ASSUME NEW a \in Party, NEW to \in SUBSET (Party \ {a}), NEW n \in Allowed, BatchPay(a, to, n)
      PROVE UNCHANGED subs
  BY <1>7 DEF BatchPay, subVars
<1>8. ASSUME NEW a \in Party, NEW p \in Party \cup {Anyone}, NEW v \in Invoice, CreateRequest(a, p, v)
      PROVE UNCHANGED subs
  BY <1>8 DEF CreateRequest, subVars
<1>9. ASSUME NEW a \in Party, NEW id \in DOMAIN requests, PayRequest(a, id) \/ CancelRequest(a, id)
      PROVE UNCHANGED subs
  BY <1>9 DEF PayRequest, CancelRequest, subVars
<1>10. ASSUME RailsTick PROVE UNCHANGED subs
  BY <1>10 DEF RailsTick, subVars
<1>. QED
  BY <1>1, <1>2, <1>3, <1>4, <1>5, <1>6, <1>7, <1>8, <1>9, <1>10 DEF RailsNext, RailsCalls

LEMMA TurnStays ==
  ASSUME SubsGrow, NEW k \in KeeperTick, InTurn(k, subs)
  PROVE  InTurn(k, subs')
<1>1. k.number \in Nat /\ k.charge \in Nat
  BY DEF KeeperTick
<1>. QED
  BY <1>1 DEF InTurn, SubsGrow

LEMMA ReceiptStays ==
  ASSUME SubsGrow, NEW r \in Receipt, ReceiptHolds(r, subs)
  PROVE  ReceiptHolds(r, subs')
<1>1. r.number \in Nat /\ r.charge \in Nat
  BY DEF Receipt
<1>. QED
  BY <1>1 DEF ReceiptHolds, SubsGrow

LEMMA KeeperRests ==
  ASSUME KeeperInv, SubsGrow, UNCHANGED <<activeSubs, tick, pool, receipts>>
  PROVE  KeeperInv'
<1>1. \A t \in TickName : InTurn(tick'[t], subs')
  BY TurnStays DEF KeeperInv
<1>2. \A r \in receipts : ReceiptHolds(r, subs')
  BY ReceiptStays DEF KeeperInv
<1>3. DOMAIN subs \subseteq DOMAIN subs'
  BY DEF SubsGrow
<1>. QED
  BY <1>1, <1>2, <1>3 DEF KeeperInv

\* A tick goes on, and has made no payment.
LEMMA TickGoesOn ==
  ASSUME KeeperInv, UNCHANGED <<subs, activeSubs, receipts>>, NEW t \in TickName,
         NEW k \in KeeperTick, tick' = [tick EXCEPT ![t] = k], k.charge = 0, InTurn(k, subs),
         \/ pool' = pool
         \/ pool' = [sub |-> k.sub, from |-> t] /\ k.sub \in DOMAIN subs,
         k.pc = "wait" => pool' = [sub |-> k.sub, from |-> t]
  PROVE  KeeperInv'
<1>1. tick' \in [TickName -> KeeperTick] /\ tick'[t] = k /\ \A u \in TickName : u # t => tick'[u] = tick[u]
  BY DEF KeeperInv
<1>2. \A u \in TickName : InTurn(tick'[u], subs)
  BY <1>1 DEF KeeperInv
<1>3. \A u \in TickName : InTurn(tick'[u], subs')
  BY <1>2 DEF InTurn
<1>4. \A r \in receipts' : ReceiptHolds(r, subs')
  BY DEF KeeperInv, ReceiptHolds
<1>5. pool' # NoOp => pool'.sub \in DOMAIN subs' /\ pool'.from \in TickName
  BY DEF KeeperInv
<1>6. pool' # NoOp /\ tick'[pool'.from].pc = "wait" =>
        tick'[pool'.from].sub = pool'.sub /\ tick'[pool'.from].charge = 0
  <2>1. SUFFICES ASSUME pool' # NoOp, tick'[pool'.from].pc = "wait"
                 PROVE  tick'[pool'.from].sub = pool'.sub /\ tick'[pool'.from].charge = 0
    OBVIOUS
  <2>2. pool'.from \in TickName
    BY <1>5, <2>1
  <2>3. CASE pool'.from = t
    <3>1. k.pc = "wait"
      BY <1>1, <2>1, <2>3
    <3>. QED
      BY <1>1, <2>3, <3>1
  <2>4. CASE pool'.from # t
    <3>1. pool' = pool /\ tick'[pool.from] = tick[pool.from]
      BY <1>1, <2>2, <2>4
    <3>. QED
      BY <2>1, <3>1 DEF KeeperInv
  <2>. QED
    BY <2>3, <2>4
<1>7. \A u, v \in TickName : tick'[u].charge > 0 /\ Names(tick'[u], tick'[v]) => u = v
  BY <1>1 DEF KeeperInv, Names
<1>8. \A r \in receipts, u \in TickName : ~ Names(r, tick'[u])
  <2>1. ASSUME NEW r \in receipts, NEW u \in TickName, Names(r, tick'[u]) PROVE FALSE
    <3>1. r.charge > 0 /\ r \in Receipt
      BY DEF KeeperInv, ReceiptHolds
    <3>2. u # t
      BY <1>1, <2>1, <3>1 DEF Names
    <3>. QED
      BY <1>1, <2>1, <3>2 DEF KeeperInv
  <2>. QED
    BY <2>1
<1>. QED
  BY <1>1, <1>3, <1>4, <1>5, <1>6, <1>7, <1>8 DEF KeeperInv, Names

\* The bundler no longer holds the operation, and nothing was charged.
LEMMA PoolEmptied ==
  ASSUME KeeperInv, UNCHANGED <<subs, activeSubs, tick, receipts>>, pool' = NoOp
  PROVE  KeeperInv'
<1>1. \A t \in TickName : InTurn(tick'[t], subs')
  BY DEF KeeperInv, InTurn
<1>2. \A r \in receipts' : ReceiptHolds(r, subs')
  BY DEF KeeperInv, ReceiptHolds
<1>. QED
  BY <1>1, <1>2 DEF KeeperInv, Names

LEMMA IdleTick == Idle \in KeeperTick /\ Idle.charge = 0 /\ InTurn(Idle, subs) /\ Idle.pc = "idle"
BY DEF Idle, KeeperTick, InTurn

LEMMA TickIsTyped ==
  ASSUME KeeperInv, NEW t \in TickName
  PROVE  /\ tick[t] \in KeeperTick /\ InTurn(tick[t], subs) /\ tick[t].charge \in Nat
         /\ tick[t].pc # "wait" => tick[t].charge = 0
<1>1. tick[t] \in KeeperTick /\ InTurn(tick[t], subs)
  BY DEF KeeperInv
<1>2. tick[t].charge \in Nat
  BY <1>1 DEF KeeperTick
<1>. QED
  BY <1>1, <1>2 DEF InTurn

\* The rest of a turn that is over.
LEMMA NextTurnKeeps ==
  ASSUME KeeperInv, UNCHANGED <<subs, activeSubs, receipts, pool>>, NEW t \in TickName, NextTurn(t)
  PROVE  KeeperInv'
<1>1. tick[t].seen \in SUBSET Nat
  BY TickIsTyped DEF KeeperTick
<1>2. PICK k : k = [Idle EXCEPT !.pc = "loop", !.seen = tick[t].seen]
  OBVIOUS
<1>3. k \in KeeperTick /\ k.charge = 0 /\ k.pc = "loop"
  BY <1>1, <1>2 DEF Idle, KeeperTick
<1>4. InTurn(k, subs)
  BY <1>3 DEF InTurn
<1>5. tick' = [tick EXCEPT ![t] = k]
  BY <1>2 DEF NextTurn
<1>. QED
  BY <1>3, <1>4, <1>5, TickGoesOn

LEMMA ReadSubKeeps ==
  ASSUME RailsInv, KeeperInv, NEW t \in TickName, NEW id \in activeSubs, ReadSub(t, id)
  PROVE  KeeperInv'
<1>1. id \in DOMAIN subs /\ UNCHANGED <<subs, activeSubs, pool, receipts>> /\ tick[t].pc = "loop"
  BY DEF KeeperInv, ReadSub, railsVars, subVars
<1>2. tick[t] \in KeeperTick /\ tick[t].charge = 0
  BY <1>1, TickIsTyped
<1>3. id \in Nat /\ subs[id].paymentsMade \in Nat
  BY <1>1, SubIsTyped
<1>4. PICK seen \in SUBSET Nat : seen = tick[t].seen \cup {id}
  BY <1>2, <1>3 DEF KeeperTick
<1>5. CASE tick' = [tick EXCEPT ![t].pc = "due", ![t].seen = @ \cup {id},
                                ![t].sub = id, ![t].number = subs[id].paymentsMade + 1]
  <2>1. PICK number \in Nat : number = subs[id].paymentsMade + 1
    BY <1>3
  <2>2. PICK k : k = [tick[t] EXCEPT !.pc = "due", !.seen = seen, !.sub = id, !.number = number]
    OBVIOUS
  <2>3. k \in KeeperTick /\ k.charge = 0 /\ k.pc = "due" /\ k.sub = id /\ k.number = number
    BY <1>2, <1>3, <1>4, <2>2 DEF KeeperTick
  <2>4. InTurn(k, subs)
    BY <1>1, <1>3, <2>1, <2>3 DEF InTurn
  <2>5. tick' = [tick EXCEPT ![t].pc = "due", ![t].seen = seen, ![t].sub = id, ![t].number = number]
    BY <1>4, <1>5, <2>1
  <2>6. tick' = [tick EXCEPT ![t] = k]
    BY <1>2, <2>2, <2>5 DEF KeeperInv
  <2>. QED
    BY <1>1, <2>3, <2>4, <2>6, TickGoesOn
<1>6. CASE tick' = [tick EXCEPT ![t].seen = @ \cup {id}]
  <2>1. PICK k : k = [tick[t] EXCEPT !.seen = seen]
    OBVIOUS
  <2>2. k \in KeeperTick /\ k.charge = 0 /\ k.pc = "loop"
    BY <1>1, <1>2, <1>4, <2>1 DEF KeeperTick
  <2>3. InTurn(k, subs)
    BY <2>2 DEF InTurn
  <2>4. tick' = [tick EXCEPT ![t] = k]
    BY <1>4, <1>6, <2>1
  <2>. QED
    BY <1>1, <2>2, <2>3, <2>4, TickGoesOn
<1>. QED
  BY <1>5, <1>6 DEF ReadSub

LEMMA SubmitKeeps ==
  ASSUME KeeperInv, NEW t \in TickName, SubmitCharge(t)
  PROVE  KeeperInv'
<1>1. UNCHANGED <<subs, activeSubs, receipts>> /\ tick[t].pc = "due"
  BY DEF SubmitCharge, railsVars, subVars
<1>2. tick[t] \in KeeperTick /\ tick[t].charge = 0 /\ InTurn(tick[t], subs)
  BY <1>1, TickIsTyped
<1>3. CASE pool' = [sub |-> tick[t].sub, from |-> t] /\ tick' = [tick EXCEPT ![t].pc = "wait"]
  <2>1. PICK k : k = [tick[t] EXCEPT !.pc = "wait"]
    OBVIOUS
  <2>2. /\ k \in KeeperTick /\ k.charge = 0 /\ k.pc = "wait" /\ k.sub = tick[t].sub
        /\ k.number = tick[t].number
    BY <1>2, <2>1 DEF KeeperTick
  <2>3. InTurn(k, subs) /\ k.sub \in DOMAIN subs
    BY <1>1, <1>2, <2>2 DEF InTurn
  <2>4. tick' = [tick EXCEPT ![t] = k]
    BY <1>3, <2>1
  <2>5. pool' = [sub |-> k.sub, from |-> t]
    BY <1>3, <2>2
  <2>. QED
    BY <1>1, <2>2, <2>3, <2>4, <2>5, TickGoesOn
<1>4. CASE NextTurn(t) /\ UNCHANGED pool
  BY <1>1, <1>4, NextTurnKeeps
<1>. QED
  BY <1>3, <1>4 DEF SubmitCharge

\* The operation the bundler holds is mined: the payment is a new one.
LEMMA MineKeeps ==
  ASSUME RailsInv, KeeperInv, Mine
  PROVE  KeeperInv'
<1>1. UNCHANGED <<activeSubs, receipts>> /\ pool' = NoOp /\ pool # NoOp
  BY DEF Mine
<1>2. pool.sub \in DOMAIN subs /\ pool.from \in TickName
  BY <1>1 DEF KeeperInv
<1>3. CASE UNCHANGED <<railsVars, tick>>
  BY <1>1, <1>3, PoolEmptied DEF railsVars, subVars
<1>4. CASE Charge(Keeper, pool.sub) /\ UNCHANGED tick
  <2>1. SubsGrow
    BY <1>2, <1>4, ChargeGrows, KeeperAssumption DEF KeeperAssumption
  <2>2. \A t \in TickName : InTurn(tick[t], subs')
    BY <2>1, TickIsTyped, TurnStays
  <2>3. \A r \in receipts : ReceiptHolds(r, subs')
    BY <2>1, ReceiptStays DEF KeeperInv
  <2>4. DOMAIN subs \subseteq DOMAIN subs'
    BY <2>1 DEF SubsGrow
  <2>. QED
    BY <1>1, <1>4, <2>2, <2>3, <2>4 DEF KeeperInv, Names
<1>5. CASE /\ Charge(Keeper, pool.sub)
           /\ tick[pool.from].pc = "wait"
           /\ tick' = [tick EXCEPT ![pool.from].charge = subs[pool.sub].paymentsMade + 1]
  <2>1. SubsGrow /\ subs'[pool.sub].paymentsMade = subs[pool.sub].paymentsMade + 1
    BY <1>2, <1>5, ChargeGrows, KeeperAssumption DEF KeeperAssumption
  <2>2. PICK t \in TickName, id \in DOMAIN subs : t = pool.from /\ id = pool.sub
    BY <1>2
  <2>3. tick[t] \in KeeperTick /\ InTurn(tick[t], subs) /\ tick[t].sub = id /\ tick[t].charge = 0
    BY <1>1, <1>5, <2>2, TickIsTyped DEF KeeperInv
  <2>4. PICK charge \in Nat : charge = subs[id].paymentsMade + 1 /\ charge > 0
    BY SubIsTyped
  <2>5. PICK k : k = [tick[t] EXCEPT !.charge = charge]
    OBVIOUS
  <2>6. /\ k \in KeeperTick /\ k.charge = charge /\ k.sub = id /\ k.pc = "wait"
        /\ k.number = tick[t].number /\ k.number \in Nat
    BY <1>5, <2>2, <2>3, <2>5 DEF KeeperTick
  <2>7. tick' = [tick EXCEPT ![t] = k]
    BY <1>5, <2>2, <2>4, <2>5
  <2>8. tick' \in [TickName -> KeeperTick] /\ tick'[t] = k /\ \A u \in TickName : u # t => tick'[u] = tick[u]
    BY <2>6, <2>7 DEF KeeperInv
  <2>9. InTurn(k, subs')
    <3>1. k.number <= subs[id].paymentsMade + 1
      BY <1>5, <2>2, <2>3, <2>6 DEF InTurn
    <3>2. id \in DOMAIN subs' /\ subs'[id].paymentsMade = charge
      BY <2>1, <2>2, <2>4 DEF SubsGrow
    <3>. QED
      BY <2>4, <2>6, <3>1, <3>2 DEF InTurn
  <2>10. \A u \in TickName : InTurn(tick[u], subs')
    BY <2>1, TickIsTyped, TurnStays
  <2>11. \A u \in TickName : InTurn(tick'[u], subs')
    BY <2>8, <2>9, <2>10 DEF InTurn
  <2>12. \A r \in receipts : ReceiptHolds(r, subs')
    BY <2>1, ReceiptStays DEF KeeperInv
  <2>13. ASSUME NEW u \in TickName, u # t, Names(k, tick[u]) PROVE FALSE
    <3>1. tick[u].sub = id /\ tick[u].charge = charge /\ InTurn(tick[u], subs)
      BY <2>6, <2>13 DEF Names, KeeperInv
    <3>2. charge <= subs[id].paymentsMade
      BY <2>4, <3>1 DEF InTurn
    <3>. QED
      BY <2>4, <3>2, SubIsTyped
  <2>14. ASSUME NEW r \in receipts, Names(r, k) PROVE FALSE
    <3>1. r.sub = id /\ r.charge = charge /\ ReceiptHolds(r, subs)
      BY <2>6, <2>14 DEF Names, KeeperInv
    <3>2. charge <= subs[id].paymentsMade
      BY <3>1 DEF ReceiptHolds
    <3>. QED
      BY <2>4, <3>2, SubIsTyped
  <2>15. \A u, v \in TickName : tick'[u].charge > 0 /\ Names(tick'[u], tick'[v]) => u = v
    <3>1. ASSUME NEW u \in TickName, NEW v \in TickName, u # v, tick'[u].charge > 0, Names(tick'[u], tick'[v])
          PROVE  FALSE
      <4>1. CASE u = t
        BY <2>8, <2>13, <3>1, <4>1
      <4>2. CASE v = t
        <5>1. Names(k, tick[u])
          BY <2>8, <3>1, <4>2 DEF Names
        <5>. QED
          BY <2>13, <3>1, <4>2, <5>1
      <4>3. CASE u # t /\ v # t
        BY <2>8, <3>1, <4>3 DEF KeeperInv
      <4>. QED
        BY <4>1, <4>2, <4>3
    <3>. QED
      BY <3>1
  <2>16. \A r \in receipts, u \in TickName : ~ Names(r, tick'[u])
    BY <2>8, <2>14 DEF KeeperInv
  <2>17. activeSubs \subseteq DOMAIN subs'
    BY <2>1 DEF SubsGrow, KeeperInv
  <2>. QED
    BY <1>1, <2>8, <2>11, <2>12, <2>15, <2>16, <2>17 DEF KeeperInv, Names
<1>. QED
  BY <1>3, <1>4, <1>5 DEF Mine

\* A receipt is issued for the payment the tick has seen.
LEMMA ReceiptIssued ==
  ASSUME KeeperInv, NEW t \in TickName, tick[t].pc = "wait", Mined(t),
         receipts' = receipts \cup {[sub |-> tick[t].sub, number |-> tick[t].number, charge |-> tick[t].charge]},
         NextTurn(t), UNCHANGED <<subs, activeSubs, pool>>
  PROVE  KeeperInv'
<1>1. tick[t] \in KeeperTick /\ InTurn(tick[t], subs) /\ tick[t].charge > 0
  BY TickIsTyped DEF Mined
<1>2. PICK q : q = [sub |-> tick[t].sub, number |-> tick[t].number, charge |-> tick[t].charge]
  OBVIOUS
<1>3. q \in Receipt /\ q.sub = tick[t].sub /\ q.charge = tick[t].charge /\ q.number = tick[t].number
  BY <1>1, <1>2 DEF KeeperTick, Receipt
<1>4. ReceiptHolds(q, subs)
  BY <1>1, <1>3 DEF ReceiptHolds, InTurn
<1>5. \A r \in receipts : ~ Names(r, q)
  BY <1>3 DEF KeeperInv, Names
<1>6. PICK k : k = [Idle EXCEPT !.pc = "loop", !.seen = tick[t].seen]
  OBVIOUS
<1>7. k \in KeeperTick /\ k.charge = 0 /\ k.pc = "loop"
  BY <1>1, <1>6 DEF Idle, KeeperTick
<1>8. tick' = [tick EXCEPT ![t] = k]
  BY <1>6 DEF NextTurn
<1>9. tick' \in [TickName -> KeeperTick] /\ tick'[t] = k /\ \A u \in TickName : u # t => tick'[u] = tick[u]
  BY <1>7, <1>8 DEF KeeperInv
<1>10. \A u \in TickName : InTurn(tick'[u], subs')
  <2>1. InTurn(k, subs')
    BY <1>7 DEF InTurn
  <2>2. ASSUME NEW u \in TickName, u # t PROVE InTurn(tick'[u], subs')
    <3>1. InTurn(tick[u], subs) /\ tick'[u] = tick[u]
      BY <1>9, <2>2 DEF KeeperInv
    <3>. QED
      BY <3>1 DEF InTurn
  <2>. QED
    BY <1>9, <2>1, <2>2 DEF InTurn
<1>11. receipts' = receipts \cup {q}
  BY <1>2
<1>12. \A r \in receipts' : ReceiptHolds(r, subs')
  <2>1. \A r \in receipts' : ReceiptHolds(r, subs)
    BY <1>4, <1>11 DEF KeeperInv
  <2>. QED
    BY <2>1 DEF ReceiptHolds
<1>13. \A r, x \in receipts' : Names(r, x) => r = x
  BY <1>5, <1>11 DEF KeeperInv, Names
<1>14. \A u, v \in TickName : tick'[u].charge > 0 /\ Names(tick'[u], tick'[v]) => u = v
  BY <1>7, <1>9 DEF KeeperInv, Names
<1>15. ASSUME NEW r \in receipts', NEW u \in TickName, Names(r, tick'[u]) PROVE FALSE
  <2>1. r.charge > 0 /\ r \in Receipt
    BY <1>3, <1>4, <1>11 DEF KeeperInv, ReceiptHolds
  <2>2. u # t /\ tick'[u] = tick[u]
    BY <1>7, <1>9, <1>15, <2>1 DEF Names
  <2>3. r = q
    BY <1>11, <1>15, <2>2 DEF KeeperInv
  <2>4. Names(tick[t], tick[u])
    BY <1>3, <1>15, <2>2, <2>3 DEF Names
  <2>. QED
    BY <1>1, <2>2, <2>4 DEF KeeperInv
<1>16. /\ pool' # NoOp => pool'.sub \in DOMAIN subs' /\ pool'.from \in TickName
       /\ pool' # NoOp /\ tick'[pool'.from].pc = "wait" =>
            tick'[pool'.from].sub = pool'.sub /\ tick'[pool'.from].charge = 0
  BY <1>7, <1>9 DEF KeeperInv
<1>. QED
  BY <1>3, <1>9, <1>10, <1>11, <1>12, <1>13, <1>14, <1>15, <1>16 DEF KeeperInv, Names

LEMMA AwaitKeeps ==
  ASSUME KeeperInv, NEW t \in TickName, AwaitCharge(t)
  PROVE  KeeperInv'
<1>1. UNCHANGED <<subs, activeSubs, pool>> /\ tick[t].pc = "wait" /\ NextTurn(t)
  BY DEF AwaitCharge, railsVars, subVars
<1>2. CASE UNCHANGED receipts
  BY <1>1, <1>2, NextTurnKeeps
<1>3. CASE /\ Mined(t)
           /\ receipts' = receipts \cup
                {[sub |-> tick[t].sub, number |-> tick[t].number, charge |-> tick[t].charge]}
  BY <1>1, <1>3, ReceiptIssued
<1>. QED
  BY <1>2, <1>3 DEF AwaitCharge

LEMMA TickEndsKeep ==
  ASSUME KeeperInv, NEW t \in TickName, StartTick(t) \/ EndTick(t)
  PROVE  KeeperInv'
<1>1. UNCHANGED <<subs, activeSubs, pool, receipts>>
  BY DEF StartTick, EndTick, railsVars, subVars
<1>2. PICK k : k = [Idle EXCEPT !.pc = "loop"]
  OBVIOUS
<1>3. k \in KeeperTick /\ k.charge = 0 /\ k.pc = "loop" /\ InTurn(k, subs)
  BY <1>2 DEF Idle, KeeperTick, InTurn
<1>4. CASE tick' = [tick EXCEPT ![t] = k]
  BY <1>1, <1>3, <1>4, TickGoesOn
<1>5. CASE tick' = [tick EXCEPT ![t] = Idle]
  <2>1. Idle.pc # "wait"
    BY DEF Idle
  <2>. QED
    BY <1>1, <1>5, <2>1, IdleTick, TickGoesOn
<1>. QED
  BY <1>2, <1>4, <1>5 DEF StartTick, EndTick

LEMMA KeeperInvInitially == KeeperInit => KeeperInv
<1>. SUFFICES ASSUME KeeperInit PROVE KeeperInv
  OBVIOUS
<1>1. /\ activeSubs = {} /\ receipts = {} /\ pool = NoOp
      /\ tick = [t \in TickName |-> Idle]
  BY DEF KeeperInit
<1>2. tick \in [TickName -> KeeperTick] /\ \A t \in TickName : tick[t] = Idle
  BY <1>1, IdleTick
<1>. QED
  BY <1>1, <1>2, IdleTick DEF KeeperInv

LEMMA KeeperInvKept == RailsInv /\ KeeperInv /\ [KeeperNext]_allKeeperVars => KeeperInv'
<1>. SUFFICES ASSUME RailsInv, KeeperInv, [KeeperNext]_allKeeperVars PROVE KeeperInv'
  OBVIOUS
<1>1. CASE RailsNext /\ UNCHANGED keeperVars
  <2>1. SubsGrow
    BY <1>1, RailsGrow
  <2>. QED
    BY <1>1, <2>1, KeeperRests DEF keeperVars
<1>2. ASSUME NEW id \in DOMAIN subs, TrackSubscription(id) PROVE KeeperInv'
  <2>1. UNCHANGED <<subs, tick, pool, receipts>> /\ activeSubs' = activeSubs \cup {id}
    BY <1>2 DEF TrackSubscription, railsVars, subVars
  <2>. QED
    BY <2>1 DEF KeeperInv, Names
<1>3. ASSUME NEW t \in TickName, KeeperStep(t) PROVE KeeperInv'
  BY <1>3, TickEndsKeep, ReadSubKeeps, SubmitKeeps, AwaitKeeps DEF KeeperStep
<1>4. CASE Mine
  BY <1>4, MineKeeps
<1>5. CASE Drop
  BY <1>5, PoolEmptied DEF Drop, railsVars, subVars
<1>6. CASE UNCHANGED allKeeperVars
  <2>1. UNCHANGED <<subs, activeSubs, tick, pool, receipts>>
    BY <1>6 DEF allKeeperVars, keeperVars, railsVars, subVars
  <2>. QED
    BY <2>1, SubsKept, KeeperRests
<1>. QED
  BY <1>1, <1>2, <1>3, <1>4, <1>5, <1>6 DEF KeeperNext

\* Of the rails' actions the keeper only takes charge().
LEMMA KeeperRails == [KeeperNext]_allKeeperVars => [RailsNext]_railsVars
<1>. SUFFICES ASSUME KeeperNext, ~ UNCHANGED railsVars PROVE RailsNext
  BY DEF allKeeperVars
<1>1. CASE Mine
  <2>1. Charge(Keeper, pool.sub)
    BY <1>1 DEF Mine
  <2>2. pool.sub \in DOMAIN subs
    BY <2>1 DEF Charge, Chargeable
  <2>3. \E a \in Party, id \in DOMAIN subs : Charge(a, id)
    BY <2>1, <2>2, KeeperAssumption DEF KeeperAssumption
  <2>. QED
    BY <2>3 DEF RailsNext, RailsCalls
<1>2. ASSUME NEW t \in TickName, KeeperStep(t) PROVE UNCHANGED railsVars
  BY <1>2 DEF KeeperStep, StartTick, EndTick, ReadSub, SubmitCharge, AwaitCharge
<1>3. ASSUME NEW id \in DOMAIN subs, TrackSubscription(id) PROVE UNCHANGED railsVars
  BY <1>3 DEF TrackSubscription
<1>. QED
  BY <1>1, <1>2, <1>3 DEF KeeperNext, Drop

LEMMA ReceiptsNameCharges ==
  ASSUME RailsInv, KeeperInv
  PROVE  ReceiptsBacked
<1>. SUFFICES ASSUME NEW id \in DOMAIN subs
              PROVE  LET mine == {r \in receipts : r.sub = id} IN
                     /\ Cardinality(mine) <= subs[id].paymentsMade
                     /\ \A r \in mine : r.number <= subs[id].paymentsMade
  BY DEF ReceiptsBacked
<1>. DEFINE mine == {r \in receipts : r.sub = id}
<1>1. PICK n \in Nat : n = subs[id].paymentsMade
  BY SubIsTyped
<1>2. ASSUME NEW r \in mine PROVE r.charge \in 1..n /\ r.number <= n
  <2>1. r \in Receipt /\ ReceiptHolds(r, subs)
    BY DEF KeeperInv
  <2>2. r.charge \in Nat /\ r.number \in Nat
    BY <2>1 DEF Receipt
  <2>. QED
    BY <1>1, <2>1, <2>2 DEF ReceiptHolds
<1>3. PICK f : f = [r \in mine |-> r.charge]
  OBVIOUS
<1>4. f \in Injection(mine, 1..n)
  <2>1. f \in [mine -> 1..n]
    BY <1>2, <1>3
  <2>2. \A r, q \in mine : f[r] = f[q] => r = q
    BY <1>3 DEF KeeperInv, Names
  <2>. QED
    BY <2>1, <2>2 DEF Injection, IsInjective
<1>5. IsFiniteSet(1..n) /\ Cardinality(1..n) = n
  BY FS_Interval, 1 \in Int, n \in Int
<1>6. Cardinality(mine) <= n
  BY <1>4, <1>5, FS_Injection
<1>. QED
  BY <1>1, <1>2, <1>6

\* A walk in the order of the ids does not pass EmptyRun of them unread: those
\* below an id that was given were given too.
LEMMA OpenSubsAreShown ==
  ASSUME RailsInv
  PROVE  OpenSubsCanBeCancelled
<1>. SUFFICES ASSUME NEW a \in Party, NEW failing \in SUBSET DOMAIN subs, Cardinality(failing) < EmptyRun,
                     NEW id \in OpenSubs(a) \ failing, id <= ListLimit
              PROVE  /\ id \in LoadSubscriptionsFor(a, failing)
                     /\ IsCancellable(subs[id]) /\ SubStatus(subs[id]) = "Active"
  BY DEF OpenSubsCanBeCancelled
<1>1. id \in DOMAIN subs /\ subs[id].payer = a /\ subs[id].active
  BY DEF OpenSubs
<1>2. PICK k \in Nat : DOMAIN subs = 1..k
  BY DEF RailsInv, IdsInOrder
<1>3. IsFiniteSet(failing)
  BY <1>2, OpenSubsFinite
<1>4. EmptyRun \in Nat
  BY KeeperAssumption DEF KeeperAssumption
<1>5. ASSUME NEW j \in 1..id, j + EmptyRun <= id, \A i \in j..(j + EmptyRun - 1) : Unread(i, failing)
      PROVE  FALSE
  <2>1. id \in 1..k /\ j \in Int /\ j + EmptyRun - 1 \in Int
    BY <1>1, <1>2, <1>4
  <2>2. j..(j + EmptyRun - 1) \subseteq DOMAIN subs
    BY <1>2, <1>4, <1>5, <2>1
  <2>3. j..(j + EmptyRun - 1) \subseteq failing
    BY <1>5, <2>2 DEF Unread
  <2>4. Cardinality(j..(j + EmptyRun - 1)) = IF j > j + EmptyRun - 1 THEN 0 ELSE (j + EmptyRun - 1) - j + 1
    BY <2>1, FS_Interval
  <2>5. Cardinality(failing) \in Nat /\ Cardinality(j..(j + EmptyRun - 1)) <= Cardinality(failing)
    BY <1>3, <2>3, FS_CardinalityType, FS_Subset
  <2>6. EmptyRun > 0
    BY <1>4, <2>5
  <2>7. Cardinality(j..(j + EmptyRun - 1)) = EmptyRun
    BY <1>4, <2>1, <2>4, <2>6
  <2>. QED
    BY <1>4, <2>5, <2>7
<1>6. Reached(id, failing)
  BY <1>5 DEF Reached
<1>7. subs[id].paymentsMade < subs[id].maxPayments
  BY <1>1 DEF RailsInv, OnSchedule
<1>8. ~ subs[id].paymentsMade >= subs[id].maxPayments
  <2>1. subs[id].paymentsMade \in Nat /\ subs[id].maxPayments \in Nat
    BY <1>1, SubIsTyped DEF Subscription
  <2>. QED
    BY <1>7, <2>1
<1>. QED
  BY <1>1, <1>6, <1>7, <1>8 DEF LoadSubscriptionsFor, IsCancellable, SubStatus

\* Whatever ticks overlap, time out or see their operation dropped or reverted,
\* the receipts the keeper issues name different charges that were made; and
\* the app lists, and offers to cancel, every subscription that can still be
\* charged (keeper.ts, loadSubscriptionsFor of lib/subscriptions.ts).
THEOREM KeeperReportsCharges == KeeperSpec => []SubscriptionsAreReported
<1>1. KeeperInit => RailsInv /\ KeeperInv
  BY RailsInvInitially, KeeperInvInitially DEF KeeperInit
<1>2. RailsInv /\ KeeperInv /\ [KeeperNext]_allKeeperVars => RailsInv' /\ KeeperInv'
  BY RailsInvKept, KeeperInvKept, KeeperRails
<1>3. RailsInv /\ KeeperInv => SubscriptionsAreReported
  BY ReceiptsNameCharges, OpenSubsAreShown DEF SubscriptionsAreReported
<1>. QED
  BY <1>1, <1>2, <1>3, PTL DEF KeeperSpec
-----------------------------------------------------------------------------
(***************************************************************************)
(* The index.  Blocks up to the safe head never change, so what was        *)
(* collected from them stays true and complete; an event that is missing   *)
(* behind the cursor was dropped for newer ones, and since then nothing    *)
(* older came in.                                                          *)
(***************************************************************************)

ChainOK ==
  /\ blocks \in Seq(ChainCall \cup {NoCall})
  /\ \A a, b \in DOMAIN blocks : a # b /\ blocks[a] = blocks[b] => blocks[a] = NoCall
  /\ Ordered(blocks)

LEMMA ChainIsTyped ==
  ASSUME ChainOK
  PROVE  /\ Len(blocks) \in Nat /\ DOMAIN blocks = 1..Len(blocks)
         /\ \A b \in 1..Len(blocks) : blocks[b] \in ChainCall \cup {NoCall}
BY DEF ChainOK

\* What a collector writes of a call.
Says(e, call) ==
  /\ \E log \in LogsOf(call) :
       e.id = <<log, call>> /\ (log = "AgentPolicyRevoked" => e.type = "POLICY_REVOKED")
  /\ e.amount \in Nat
  /\ e.policy = call.policy
  /\ e.type = "POLICY_CREATED" => call.what = "createPolicy" /\ e.account = call.account
  /\ e.type = "POLICY_REVOKED" => call.what = "revokePolicy" /\ e.account = call.account

LEMMA FoundSays ==
  ASSUME NEW call \in ChainCall, NEW source \in 1..4, NEW log \in LogsOf(call), NEW f \in Found(source, log, call)
  PROVE  Says(f, call)
<1>0. call.amount \in Nat
  BY ChainCallAssumption
<1>1. CASE source = 1
  <2>1. f \in PolicyEvent(log, call)
    BY <1>1 DEF Found
  <2>2. CASE log = "AgentPolicyCreated"
    <3>1. f = Event("POLICY_CREATED", log, call, call.account, 0) /\ call.what = "createPolicy"
      BY <2>1, <2>2 DEF PolicyEvent, LogsOf
    <3>. QED
      BY <2>2, <3>1 DEF Says, Event
  <2>3. CASE log = "AgentPolicyRevoked"
    <3>1. f = Event("POLICY_REVOKED", log, call, call.account, 0) /\ call.what = "revokePolicy"
      BY <2>1, <2>3 DEF PolicyEvent, LogsOf
    <3>. QED
      BY <2>3, <3>1 DEF Says, Event
  <2>4. CASE log \notin {"AgentPolicyCreated", "AgentPolicyRevoked"}
    <3>1. f = Event("GUARDIAN_REVOKED", log, call, NoName, 0)
      BY <2>1, <2>4 DEF PolicyEvent
    <3>. QED
      BY <2>4, <3>1 DEF Says, Event
  <2>. QED
    BY <2>2, <2>3, <2>4
<1>2. CASE source \in {2, 3, 4}
  <2>1. \E type \in {"PAYMENT_EXECUTED", "SESSION_EXECUTED", "SESSION_BATCH_EXECUTED", "BATCH_EXECUTED",
                     "REQUEST_SETTLED", "SUBSCRIPTION_EXECUTED", "PAYMASTER_SPONSORED",
                     "QUSDC_GAS_CHARGED", "RECEIPT_CREATED"}, amount \in Nat :
          f = Event(type, log, call, call.account, amount)
    <3>1. CASE source = 2
      BY <1>0, <3>1 DEF Found, PaymentEvent
    <3>2. CASE source = 3
      BY <1>0, <3>2 DEF Found, PaymasterEvent
    <3>3. CASE source = 4
      BY <1>0, <3>3 DEF Found, ReceiptEvent
    <3>. QED
      BY <1>2, <3>1, <3>2, <3>3
  <2>2. log # "AgentPolicyRevoked"
    <3>1. CASE source = 2
      BY <3>1 DEF Found, PaymentEvent
    <3>2. CASE source = 3
      BY <3>2 DEF Found, PaymasterEvent
    <3>3. CASE source = 4
      BY <3>3 DEF Found, ReceiptEvent
    <3>. QED
      BY <1>2, <3>1, <3>2, <3>3
  <2>. QED
    BY <2>1, <2>2 DEF Says, Event
<1>. QED
  BY <1>1, <1>2

\* The revocation of a policy is among what the first collector finds.
LEMMA RevocationIsFound ==
  ASSUME NEW call \in ChainCall, call.what = "revokePolicy"
  PROVE  /\ "AgentPolicyRevoked" \in LogsOf(call)
         /\ Event("POLICY_REVOKED", "AgentPolicyRevoked", call, call.account, 0)
              \in Found(1, "AgentPolicyRevoked", call)
BY DEF LogsOf, Found, PolicyEvent

LEMMA RangeIsFinite ==
  ASSUME NEW S, IsFiniteSet(S), NEW f
  PROVE  IsFiniteSet({f[x] : x \in S})
<1>1. PICK g : g = [x \in S |-> f[x]]
  OBVIOUS
<1>2. g \in Surjection(S, {f[x] : x \in S})
  BY <1>1 DEF Surjection
<1>. QED
  BY <1>2, FS_Surjection

LEMMA SixAreFinite ==
  ASSUME NEW a, NEW b, NEW c, NEW d, NEW e, NEW f
  PROVE  IsFiniteSet({a, b, c, d, e, f})
<1>1. ASSUME NEW x, NEW y PROVE IsFiniteSet({x, y})
  <2>1. IsFiniteSet({x} \cup {y}) /\ {x} \cup {y} = {x, y}
    BY FS_Singleton, FS_Union
  <2>. QED
    BY <2>1
<1>2. IsFiniteSet({a, b}) /\ IsFiniteSet({c, d}) /\ IsFiniteSet({e, f})
  BY <1>1
<1>3. IsFiniteSet({a, b} \cup {c, d} \cup {e, f})
  BY <1>2, FS_Union
<1>4. {a, b} \cup {c, d} \cup {e, f} = {a, b, c, d, e, f}
  OBVIOUS
<1>. QED
  BY <1>3, <1>4, Zenon

LEMMA FoundIsFinite ==
  ASSUME NEW source \in 1..4, NEW b, blocks[b] \in ChainCall \cup {NoCall}
  PROVE  IsFiniteSet(FoundInBlock(source, b))
<1>1. CASE blocks[b] = NoCall
  BY <1>1, FS_EmptySet DEF FoundInBlock
<1>2. CASE blocks[b] # NoCall
  <2>1. PICK call : call = blocks[b]
    OBVIOUS
  <2>2. IsFiniteSet(LogsOf(call))
    <3>1. IsFiniteSet({"Executed", "SessionExecution", "SessionBatchExecution", "BatchPaid", "RequestPaid", "Charged"})
      BY SixAreFinite
    <3>2. IsFiniteSet({"AgentPolicyCreated", "AgentPolicyRevoked", "AgentPolicyGuardianRevoked",
                       "ModeBSponsored", "ModeACharge", "ReceiptCreated"})
      BY SixAreFinite
    <3>3. LogsOf(call) \subseteq
            {"Executed", "SessionExecution", "SessionBatchExecution", "BatchPaid", "RequestPaid", "Charged"}
            \cup {"AgentPolicyCreated", "AgentPolicyRevoked", "AgentPolicyGuardianRevoked",
                  "ModeBSponsored", "ModeACharge", "ReceiptCreated"}
      BY DEF LogsOf
    <3>. QED
      BY <3>1, <3>2, <3>3, FS_Union, FS_Subset
  <2>3. IsFiniteSet({Found(source, log, call) : log \in LogsOf(call)})
    <3>1. PICK g : g = [log \in LogsOf(call) |-> Found(source, log, call)]
      OBVIOUS
    <3>2. {Found(source, log, call) : log \in LogsOf(call)} = {g[log] : log \in LogsOf(call)}
      BY <3>1
    <3>. QED
      BY <2>2, <3>2, RangeIsFinite
  <2>4. ASSUME NEW log \in LogsOf(call) PROVE IsFiniteSet(Found(source, log, call))
    <3>1. \E f : Found(source, log, call) \subseteq {f}
      BY DEF Found, PolicyEvent, PaymentEvent, PaymasterEvent, ReceiptEvent
    <3>. QED
      BY <3>1, FS_Singleton, FS_Subset
  <2>5. IsFiniteSet(UNION {Found(source, log, call) : log \in LogsOf(call)})
    BY <2>3, <2>4, FS_UNION
  <2>. QED
    BY <1>2, <2>1, <2>5 DEF FoundInBlock
<1>. QED
  BY <1>1, <1>2
-----------------------------------------------------------------------------
\* A stored event is a resolution, or what a collector wrote of a final block.
IsStored(e) ==
  /\ e.timestamp \in Nat /\ e.amount \in Nat
  /\ \/ e.block = 0 /\ (\E n : e.id = <<"domain", n>>)
          /\ e.type \in {"DOMAIN_RESOLVED", "DOMAIN_RESOLUTION_FAILED"}
     \/ /\ e.block \in 1..Len(blocks) /\ e.block <= SafeHead
        /\ blocks[e.block] \in ChainCall /\ Says(e, blocks[e.block])

\* The block up to which the store is meant to be complete.
Done == IF pass.pc = "stored" THEN pass.to ELSE cursor

Here(id, es) == \E e \in es : e.id = id

PassOK ==
  /\ cursor \in Nat /\ \A b \in 1..cursor : b <= SafeHead
  /\ pass.pc \in {"idle", "collect", "stamp", "stored"}
  /\ pass.pc # "idle" => /\ pass.from = cursor + 1 /\ pass.to \in Nat
                         /\ pass.from <= pass.to /\ pass.to <= SafeHead
  /\ pass.source \in 1..4
  /\ pass.pc \in {"idle", "stored"} => pass.raw = {}

\* What the collectors have read is theirs, and all there is.
RawOK ==
  /\ IsFiniteSet(pass.raw)
  /\ \A r \in pass.raw : r.block \in pass.from..pass.to
       /\ \E source \in 1..4 : r.event \in FoundInBlock(source, r.block)
  /\ pass.pc \in {"collect", "stamp"} =>
       \A source \in 1..4, b \in pass.from..pass.to :
         (pass.pc = "stamp" \/ source < pass.source) =>
           \A f \in FoundInBlock(source, b) : \E r \in pass.raw : r.event = f /\ r.block = b

StoreOK ==
  /\ IsFiniteSet(events)
  /\ \A e \in events : IsStored(e)
  /\ ~guessed => \A e \in events : e.block > 0 => e.timestamp = e.block

\* What is missing was dropped, and everything left of the chain is no older.
MissingAreOld ==
  ~lost => \A b \in 1..Done, source \in 1..4 : \A f \in FoundInBlock(source, b) :
    \/ Here(f.id, events)
    \/ overflowed /\ (~guessed => \A e \in events : e.block > 0 => e.block >= b)

IndexInv ==
  /\ ChainOK /\ PassOK /\ RawOK /\ StoreOK /\ MissingAreOld
  /\ guessed \in BOOLEAN /\ lost \in BOOLEAN /\ overflowed \in BOOLEAN

LEMMA LimitIsMin ==
  ASSUME NEW n \in Nat, NEW m \in Nat
  PROVE  Min({n, m}) \in {n, m} /\ Min({n, m}) <= n /\ Min({n, m}) <= m
<1>1. PICK x \in {n, m} : \A y \in {n, m} : x <= y
  OBVIOUS
<1>. QED
  BY <1>1 DEF Min

\* What an upsert keeps: all there is while there is room, and otherwise
\* nothing older than an event it drops.
LEMMA UpsertKeeps ==
  ASSUME IsFiniteSet(events), NEW incoming, IsFiniteSet(incoming), UpsertEvents(incoming),
         overflowed \in BOOLEAN
  PROVE  /\ events' \subseteq events \cup incoming /\ IsFiniteSet(events')
         /\ overflowed' \in BOOLEAN /\ (overflowed => overflowed')
         /\ \A e \in events \cup incoming :
              \/ Here(e.id, events')
              \/ /\ overflowed'
                 /\ \E d \in events \cup incoming : d.id = e.id /\ \A k \in events' : ~Before(k, d)
<1>1. PICK merged : merged = {e \in events : \A i \in incoming : i.id # e.id} \cup incoming
  OBVIOUS
<1>2. events' \in NewestOf(merged) /\ overflowed' = (overflowed \/ Cardinality(merged) > EventsMax)
  BY <1>1 DEF UpsertEvents
<1>3. merged \subseteq events \cup incoming /\ IsFiniteSet(merged)
  <2>1. merged \subseteq events \cup incoming /\ IsFiniteSet(events \cup incoming)
    BY <1>1, FS_Union
  <2>. QED
    BY <2>1, FS_Subset
<1>4. PICK n \in Nat : n = Cardinality(merged)
  BY <1>3, FS_CardinalityType
<1>5. EventsMax \in Nat
  BY IndexerAssumption
<1>6. /\ events' \subseteq merged /\ Cardinality(events') = Min({n, EventsMax})
      /\ \A a \in events', b \in merged \ events' : ~Before(a, b)
  BY <1>2, <1>4 DEF NewestOf
<1>7. IsFiniteSet(events')
  BY <1>3, <1>6, FS_Subset
<1>8. ~ overflowed' => events' = merged
  <2>1. SUFFICES ASSUME ~ overflowed' PROVE events' = merged
    OBVIOUS
  <2>2. n <= EventsMax
    <3>1. ~ Cardinality(merged) > EventsMax
      BY <1>2, <2>1, Zenon
    <3>. QED
      BY <1>4, <1>5, <3>1
  <2>3. Min({n, EventsMax}) = n
    <3>1. PICK m : m = Min({n, EventsMax})
      OBVIOUS
    <3>2. m \in {n, EventsMax} /\ m <= n /\ m <= EventsMax
      BY <1>5, <3>1, LimitIsMin
    <3>. QED
      BY <1>5, <2>2, <3>1, <3>2
  <2>4. Cardinality(events') = Cardinality(merged)
    BY <1>4, <1>6, <2>3
  <2>. QED
    BY <1>3, <1>6, <2>4, FS_Subset
<1>9. \A e \in events \cup incoming : \E d \in merged : d.id = e.id
  BY <1>1
<1>10. ASSUME NEW e \in events \cup incoming, ~ Here(e.id, events')
       PROVE  /\ overflowed'
              /\ \E d \in events \cup incoming : d.id = e.id /\ \A k \in events' : ~Before(k, d)
  <2>1. PICK d \in merged : d.id = e.id
    BY <1>9
  <2>2. d \notin events'
    BY <1>10, <2>1 DEF Here
  <2>. QED
    BY <1>3, <1>6, <1>8, <2>1, <2>2
<1>11. overflowed' \in BOOLEAN /\ (overflowed => overflowed')
  BY <1>2
<1>. QED
  BY <1>3, <1>6, <1>7, <1>10, <1>11

\* Blocks up to the safe head never change, and it never falls.
LEMMA BlocksSettle ==
  ASSUME ChainOK, MineBlock \/ Reorganise \/ UNCHANGED blocks
  PROVE  /\ ChainOK' /\ Len(blocks) \in Nat /\ Len(blocks') \in Nat /\ Len(blocks) <= Len(blocks')
         /\ SafeHead \in Int /\ SafeHead' \in Int /\ SafeHead <= SafeHead'
         /\ \A b \in 1..Len(blocks) : b <= SafeHead => blocks'[b] = blocks[b]
<1>1. /\ Len(blocks) \in Nat /\ DOMAIN blocks = 1..Len(blocks)
      /\ \A b \in 1..Len(blocks) : blocks[b] \in ChainCall \cup {NoCall}
  BY ChainIsTyped
<1>2. Confirmations \in Nat /\ ReorgDepth \in Nat /\ ReorgDepth <= Confirmations
  BY IndexerAssumption
<1>3. CASE MineBlock
  <2>1. PICK call \in Unmined \cup {NoCall} : blocks' = Append(blocks, call)
    BY <1>3 DEF MineBlock
  <2>2. call \in ChainCall \cup {NoCall} /\ (call # NoCall => \A b \in DOMAIN blocks : blocks[b] # call)
    BY <2>1 DEF Unmined
  <2>3. /\ blocks' \in Seq(ChainCall \cup {NoCall}) /\ Len(blocks') = Len(blocks) + 1
        /\ DOMAIN blocks' = 1..(Len(blocks) + 1)
        /\ \A b \in 1..Len(blocks) : blocks'[b] = blocks[b]
        /\ blocks'[Len(blocks) + 1] = call
    <3>1. PICK S : S = ChainCall \cup {NoCall}
      OBVIOUS
    <3>2. blocks \in Seq(S) /\ call \in S /\ blocks' = Append(blocks, call)
      BY <2>1, <2>2, <3>1 DEF ChainOK
    <3>3. /\ Append(blocks, call) \in Seq(S) /\ Len(Append(blocks, call)) = Len(blocks) + 1
          /\ DOMAIN Append(blocks, call) = 1..(Len(blocks) + 1)
          /\ \A b \in 1..Len(blocks) : Append(blocks, call)[b] = blocks[b]
          /\ Append(blocks, call)[Len(blocks) + 1] = call
      BY <3>2
    <3>. QED
      BY <3>1, <3>2, <3>3
  <2>4. \A a, b \in DOMAIN blocks' : a # b /\ blocks'[a] = blocks'[b] => blocks'[a] = NoCall
    <3>1. \A a \in DOMAIN blocks' : a \in DOMAIN blocks \/ a = Len(blocks) + 1
      BY <1>1, <2>3
    <3>. QED
      BY <1>1, <2>2, <2>3, <3>1 DEF ChainOK
  <2>5. Ordered(blocks)'
    BY <1>3 DEF MineBlock
  <2>6. ChainOK'
    BY <2>3, <2>4, <2>5 DEF ChainOK
  <2>. QED
    BY <1>1, <1>2, <2>3, <2>6 DEF SafeHead
<1>4. CASE Reorganise
  <2>0. PICK d \in 1..ReorgDepth :
          /\ d < Len(blocks)
          /\ \E new \in [Len(blocks) - d + 1 .. Len(blocks) -> ChainCall \cup {NoCall}] :
               LET next == [b \in DOMAIN blocks |-> IF b > Len(blocks) - d THEN new[b] ELSE blocks[b]] IN
               /\ \A a, b \in DOMAIN blocks : a # b /\ next[a] = next[b] => next[a] = NoCall
               /\ Ordered(next)
               /\ blocks' = next
    BY <1>4 DEF Reorganise
  <2>1. PICK new \in [Len(blocks) - d + 1 .. Len(blocks) -> ChainCall \cup {NoCall}] :
          LET next == [b \in DOMAIN blocks |-> IF b > Len(blocks) - d THEN new[b] ELSE blocks[b]] IN
          /\ \A a, b \in DOMAIN blocks : a # b /\ next[a] = next[b] => next[a] = NoCall
          /\ Ordered(next)
          /\ blocks' = next
    BY <2>0
  <2>2. /\ blocks' = [b \in 1..Len(blocks) |-> IF b > Len(blocks) - d THEN new[b] ELSE blocks[b]]
        /\ d \in Nat /\ d <= Confirmations
    BY <1>1, <1>2, <2>1
  <2>3. \A b \in 1..Len(blocks) : blocks'[b] \in ChainCall \cup {NoCall}
    BY <1>1, <2>1, <2>2
  <2>4. blocks' \in Seq(ChainCall \cup {NoCall}) /\ Len(blocks') = Len(blocks)
    BY <1>1, <2>2, <2>3
  <2>5. ChainOK'
    BY <1>1, <2>1, <2>2, <2>4 DEF ChainOK
  <2>6. \A b \in 1..Len(blocks) : b <= SafeHead => blocks'[b] = blocks[b]
    BY <1>1, <1>2, <2>2 DEF SafeHead
  <2>. QED
    BY <1>1, <1>2, <2>4, <2>5, <2>6 DEF SafeHead
<1>5. CASE UNCHANGED blocks
  BY <1>1, <1>2, <1>5 DEF ChainOK, SafeHead
<1>. QED
  BY <1>3, <1>4, <1>5
-----------------------------------------------------------------------------
LEMMA FoundOfCall ==
  ASSUME ChainOK, NEW b \in 1..Len(blocks), NEW source \in 1..4, NEW f \in FoundInBlock(source, b)
  PROVE  blocks[b] \in ChainCall /\ Says(f, blocks[b])
<1>1. blocks[b] # NoCall /\ blocks[b] \in ChainCall
  BY ChainIsTyped DEF FoundInBlock
<1>2. PICK log \in LogsOf(blocks[b]) : f \in Found(source, log, blocks[b])
  BY <1>1 DEF FoundInBlock
<1>. QED
  BY <1>1, <1>2, FoundSays

\* An id tells the block, because a call is mined once.
LEMMA IdGivesBlock ==
  ASSUME ChainOK, NEW d, IsStored(d), NEW b \in 1..Len(blocks), NEW source \in 1..4,
         NEW f \in FoundInBlock(source, b), d.id = f.id
  PROVE  d.block = b
<1>1. blocks[b] \in ChainCall /\ Says(f, blocks[b])
  BY FoundOfCall
<1>2. PICK log \in LogsOf(blocks[b]) : f.id = <<log, blocks[b]>>
  BY <1>1 DEF Says
<1>3. log # "domain"
  BY <1>2 DEF LogsOf
<1>4. ~ (\E n : d.id = <<"domain", n>>)
  BY <1>2, <1>3
<1>5. /\ d.block \in 1..Len(blocks) /\ blocks[d.block] \in ChainCall /\ Says(d, blocks[d.block])
  BY <1>4 DEF IsStored
<1>6. PICK log2 : d.id = <<log2, blocks[d.block]>>
  BY <1>5 DEF Says
<1>7. blocks[d.block] = blocks[b]
  BY <1>2, <1>6
<1>8. NoCall \notin ChainCall
  BY ChainCallAssumption
<1>. QED
  BY <1>1, <1>5, <1>7, <1>8, ChainIsTyped DEF ChainOK

LEMMA StoreAfterUpsert ==
  ASSUME IndexInv, UNCHANGED blocks, NEW incoming, IsFiniteSet(incoming), UpsertEvents(incoming),
         \A i \in incoming : IsStored(i), guessed' \in BOOLEAN, guessed => guessed',
         ~guessed' => \A i \in incoming : i.block > 0 => i.timestamp = i.block
  PROVE  StoreOK'
<1>1. events' \subseteq events \cup incoming /\ IsFiniteSet(events')
  BY UpsertKeeps DEF IndexInv, StoreOK
<1>2. \A e : IsStored(e)' = IsStored(e)
  BY DEF IsStored, SafeHead
<1>3. \A e \in events' : IsStored(e)'
  BY <1>1, <1>2 DEF IndexInv, StoreOK
<1>4. ~guessed' => \A e \in events' : e.block > 0 => e.timestamp = e.block
  BY <1>1 DEF IndexInv, StoreOK
<1>. QED
  BY <1>1, <1>3, <1>4 DEF StoreOK

LEMMA MissingAfterUpsert ==
  ASSUME IndexInv, StoreOK', UNCHANGED <<blocks, lost>>,
         NEW incoming, IsFiniteSet(incoming), UpsertEvents(incoming),
         \A i \in incoming : IsStored(i), guessed' \in BOOLEAN, guessed => guessed',
         ~guessed' => \A i \in incoming : i.block > 0 => i.timestamp = i.block,
         \A i \in incoming : i.block > 0 => i.block > Done,
         \A b \in 1..Done' :
           b <= SafeHead /\ (b <= Done \/ \A source \in 1..4 : \A f \in FoundInBlock(source, b) :
                                                                     Here(f.id, incoming))
  PROVE  MissingAreOld'
<1>. SUFFICES ASSUME ~lost, NEW b \in 1..Done', NEW source \in 1..4, NEW f \in FoundInBlock(source, b)
              PROVE  \/ Here(f.id, events')
                     \/ overflowed' /\ (~guessed' => \A e \in events' : e.block > 0 => e.block >= b)
  BY DEF MissingAreOld, FoundInBlock
<1>1. /\ events' \subseteq events \cup incoming
      /\ overflowed' \in BOOLEAN /\ (overflowed => overflowed')
      /\ \A e \in events \cup incoming :
              \/ Here(e.id, events')
              \/ /\ overflowed'
                 /\ \E d \in events \cup incoming : d.id = e.id /\ \A k \in events' : ~Before(k, d)
  BY UpsertKeeps DEF IndexInv, StoreOK
<1>2. b \in 1..Len(blocks) /\ b \in Nat
  BY ChainIsTyped, IndexerAssumption DEF IndexInv, SafeHead
<1>3. CASE Here(f.id, events \cup incoming)
  <2>1. PICK e \in events \cup incoming : e.id = f.id
    BY <1>3 DEF Here
  <2>2. SUFFICES ASSUME ~ Here(f.id, events')
                 PROVE  overflowed' /\ (~guessed' => \A k \in events' : k.block > 0 => k.block >= b)
    OBVIOUS
  <2>3. PICK d \in events \cup incoming : d.id = f.id /\ \A k \in events' : ~Before(k, d)
    BY <1>1, <2>1, <2>2
  <2>4. overflowed'
    BY <1>1, <2>1, <2>2
  <2>5. IsStored(d)
    BY <2>3 DEF IndexInv, StoreOK
  <2>6. d.block = b
    BY <1>2, <2>3, <2>5, IdGivesBlock DEF IndexInv
  <2>7. ASSUME ~guessed', NEW k \in events', k.block > 0 PROVE k.block >= b
    <3>1. k.timestamp = k.block
      BY <2>7 DEF StoreOK
    <3>2. d.timestamp = b
      BY <1>2, <2>3, <2>6, <2>7 DEF IndexInv, StoreOK
    <3>3. k.timestamp \in Nat
      <4>1. IsStored(k)'
        BY <2>7 DEF StoreOK
      <4>. QED
        BY <4>1 DEF IsStored
    <3>4. ~ k.timestamp < d.timestamp
      BY <2>3, <2>7 DEF Before
    <3>. QED
      BY <1>2, <3>1, <3>2, <3>3, <3>4
  <2>. QED
    BY <2>4, <2>7
<1>4. CASE ~ Here(f.id, events \cup incoming)
  <2>1. b <= Done /\ ~ Here(f.id, events)
    BY <1>4 DEF Here
  <2>2. Done \in Nat
    BY DEF IndexInv, PassOK, Done
  <2>3. b \in 1..Done
    BY <1>2, <2>1, <2>2
  <2>4. overflowed /\ (~guessed => \A e \in events : e.block > 0 => e.block >= b)
    BY <2>1, <2>3, Zenon DEF IndexInv, MissingAreOld
  <2>5. ASSUME ~guessed', NEW k \in events', k.block > 0 PROVE k.block >= b
    <3>1. CASE k \in events
      BY <2>4, <2>5, <3>1
    <3>2. CASE k \in incoming
      <4>1. k.block > Done
        BY <2>5, <3>2
      <4>2. k.block \in Nat
        BY <3>2, ChainIsTyped DEF IsStored, IndexInv
      <4>. QED
        BY <1>2, <2>1, <2>2, <4>1, <4>2
    <3>. QED
      BY <1>1, <2>5, <3>1, <3>2
  <2>. QED
    BY <1>1, <2>4, <2>5
<1>. QED
  BY <1>3, <1>4
-----------------------------------------------------------------------------
LEMMA IndexInitially == IndexerInit => IndexInv
<1>. SUFFICES ASSUME IndexerInit PROVE IndexInv
  OBVIOUS
<1>1. ChainOK
  BY DEF IndexerInit, ChainOK, Ordered
<1>2. pass = Resting /\ cursor = 0 /\ events = {} /\ ~guessed
  BY DEF IndexerInit
<1>3. PassOK /\ RawOK
  BY <1>2, FS_EmptySet DEF PassOK, RawOK, Resting
<1>4. StoreOK
  BY <1>2, FS_EmptySet DEF StoreOK
<1>5. MissingAreOld
  BY <1>2 DEF MissingAreOld, Done, Resting
<1>. QED
  BY <1>1, <1>3, <1>4, <1>5 DEF IndexInv, IndexerInit

\* The chain moves on under a pass.
LEMMA IndexKeptByChain ==
  ASSUME IndexInv, MineBlock \/ Reorganise
  PROVE  IndexInv'
<1>1. UNCHANGED <<events, overflowed, cursor, pass, guessed, lost>>
  BY DEF MineBlock, Reorganise, fileVars
<1>2. /\ ChainOK' /\ Len(blocks) \in Nat /\ Len(blocks') \in Nat /\ Len(blocks) <= Len(blocks')
      /\ SafeHead \in Int /\ SafeHead' \in Int /\ SafeHead <= SafeHead'
      /\ \A b \in 1..Len(blocks) : b <= SafeHead => blocks'[b] = blocks[b]
  BY BlocksSettle DEF IndexInv
<1>3. SafeHead <= Len(blocks)
  BY <1>2, IndexerAssumption DEF SafeHead
<1>4. PassOK'
  <2>1. \A b \in 1..cursor : b <= SafeHead'
    BY <1>2 DEF IndexInv, PassOK
  <2>2. pass.pc # "idle" => pass.to <= SafeHead'
    BY <1>2 DEF IndexInv, PassOK
  <2>. QED
    BY <1>1, <2>1, <2>2 DEF IndexInv, PassOK
<1>5. \A b \in Nat \ {0} : b <= SafeHead =>
        blocks'[b] = blocks[b] /\ \A source : FoundInBlock(source, b)' = FoundInBlock(source, b)
  <2>1. ASSUME NEW b \in Nat \ {0}, b <= SafeHead PROVE blocks'[b] = blocks[b]
    <3>1. b \in 1..Len(blocks)
      BY <1>2, <1>3, <2>1
    <3>. QED
      BY <1>2, <2>1, <3>1
  <2>2. ASSUME NEW b, blocks'[b] = blocks[b], NEW source
        PROVE  FoundInBlock(source, b)' = FoundInBlock(source, b)
    BY <2>2 DEF FoundInBlock
  <2>. QED
    BY <2>1, <2>2
<1>6. ASSUME pass.pc # "idle", NEW b \in pass.from..pass.to PROVE b \in Nat \ {0} /\ b <= SafeHead
  BY <1>2, <1>6 DEF IndexInv, PassOK
<1>7. RawOK'
  <2>1. ASSUME NEW r \in pass.raw
        PROVE  r.block \in pass.from..pass.to /\ \E source \in 1..4 : r.event \in FoundInBlock(source, r.block)'
    <3>1. r.block \in pass.from..pass.to /\ pass.pc # "idle"
      BY <2>1 DEF IndexInv, PassOK, RawOK
    <3>2. PICK source \in 1..4 : r.event \in FoundInBlock(source, r.block)
      BY <2>1 DEF IndexInv, RawOK
    <3>. QED
      BY <1>5, <1>6, <3>1, <3>2
  <2>2. ASSUME pass.pc \in {"collect", "stamp"}, NEW source \in 1..4, NEW b \in pass.from..pass.to,
               pass.pc = "stamp" \/ source < pass.source, NEW f \in FoundInBlock(source, b)'
        PROVE  \E r \in pass.raw : r.event = f /\ r.block = b
    <3>1. f \in FoundInBlock(source, b)
      BY <1>5, <1>6, <2>2
    <3>. QED
      BY <2>2, <3>1 DEF IndexInv, RawOK
  <2>3. IsFiniteSet(pass.raw)
    BY DEF IndexInv, RawOK
  <2>. QED
    BY <1>1, <2>1, <2>2, <2>3 DEF RawOK
<1>8. StoreOK'
  <2>1. ASSUME NEW e \in events PROVE IsStored(e)'
    <3>1. IsStored(e)
      BY <2>1 DEF IndexInv, StoreOK
    <3>2. CASE e.block = 0
      <4>1. (\E n : e.id = <<"domain", n>>) /\ e.type \in {"DOMAIN_RESOLVED", "DOMAIN_RESOLUTION_FAILED"}
        BY <1>2, <3>1, <3>2 DEF IsStored
      <4>. QED
        BY <3>1, <3>2, <4>1 DEF IsStored
    <3>3. CASE e.block # 0
      <4>1. /\ e.block \in 1..Len(blocks) /\ e.block <= SafeHead
            /\ blocks[e.block] \in ChainCall /\ Says(e, blocks[e.block])
        BY <3>1, <3>3 DEF IsStored
      <4>2. blocks'[e.block] = blocks[e.block]
        BY <1>2, <4>1
      <4>3. e.block \in 1..Len(blocks') /\ e.block <= SafeHead'
        BY <1>2, <4>1
      <4>. QED
        BY <3>1, <4>1, <4>2, <4>3 DEF IsStored
    <3>. QED
      BY <3>2, <3>3
  <2>. QED
    BY <1>1, <2>1 DEF IndexInv, StoreOK
<1>9. MissingAreOld'
  <2>1. Done' = Done
    BY <1>1 DEF Done
  <2>2. \A b \in 1..Done : b \in Nat \ {0} /\ b <= SafeHead
    BY <1>2 DEF IndexInv, PassOK, Done
  <2>3. \A b \in 1..Done, source \in 1..4 : FoundInBlock(source, b)' = FoundInBlock(source, b)
    BY <1>5, <2>2
  <2>. QED
    BY <1>1, <2>1, <2>3 DEF IndexInv, MissingAreOld
<1>. QED
  BY <1>1, <1>2, <1>4, <1>7, <1>8, <1>9 DEF IndexInv

LEMMA SameFound ==
  ASSUME UNCHANGED blocks
  PROVE  /\ SafeHead' = SafeHead /\ ChainOK' = ChainOK
         /\ \A e : IsStored(e)' = IsStored(e)
         /\ \A source, b : FoundInBlock(source, b)' = FoundInBlock(source, b)
BY DEF SafeHead, ChainOK, Ordered, IsStored, FoundInBlock

\* A pass begins, ends or dies; the store stays.
LEMMA IndexKeptByPass ==
  ASSUME IndexInv, BeginPass \/ PassFails \/ SetCursor
  PROVE  IndexInv'
<1>1. UNCHANGED <<blocks, events, overflowed, guessed, lost>>
  BY DEF BeginPass, PassFails, SetCursor, fileVars
<1>2. ChainOK' /\ StoreOK'
  BY <1>1, SameFound DEF IndexInv, StoreOK
<1>3. SafeHead \in Int /\ SafeHead' = SafeHead /\ cursor \in Nat
  BY <1>1, SameFound, ChainIsTyped, IndexerAssumption DEF IndexInv, PassOK, SafeHead
<1>4. PassOK' /\ RawOK' /\ Done' = Done
  <2>1. CASE BeginPass
    <3>1. /\ pass'.pc = "collect" /\ pass'.from = cursor + 1 /\ pass'.to = RangeEnd(cursor + 1)
          /\ pass'.source = 1 /\ pass'.raw = {} /\ cursor' = cursor /\ pass.pc = "idle"
      BY <2>1 DEF BeginPass, Resting
    <3>2. pass'.to \in Nat /\ pass'.from <= pass'.to /\ pass'.to <= SafeHead
      BY <1>3, <2>1, <3>1, IndexerAssumption DEF BeginPass, RangeEnd
    <3>3. PassOK'
      BY <1>3, <3>1, <3>2 DEF IndexInv, PassOK
    <3>4. RawOK'
      BY <3>1, FS_EmptySet DEF RawOK
    <3>. QED
      BY <3>1, <3>3, <3>4 DEF Done
  <2>2. CASE PassFails \/ SetCursor
    <3>1. pass'.pc = "idle" /\ pass'.source = 1 /\ pass'.raw = {} /\ cursor' = Done
      BY <2>2 DEF PassFails, SetCursor, Resting, Done
    <3>2. Done \in Nat /\ \A b \in 1..Done : b <= SafeHead
      BY <1>3 DEF IndexInv, PassOK, Done
    <3>3. PassOK'
      BY <1>3, <3>1, <3>2 DEF PassOK
    <3>4. RawOK'
      BY <3>1, FS_EmptySet DEF RawOK
    <3>. QED
      BY <3>1, <3>3, <3>4 DEF Done
  <2>. QED
    BY <2>1, <2>2
<1>5. MissingAreOld'
  BY <1>1, <1>4, SameFound DEF IndexInv, MissingAreOld
<1>. QED
  BY <1>1, <1>2, <1>4, <1>5 DEF IndexInv

LEMMA IndexKeptByCrash ==
  ASSUME IndexInv, CrashIndexer
  PROVE  IndexInv'
<1>1. UNCHANGED <<blocks, overflowed, guessed>> /\ pass' = Resting
  BY DEF CrashIndexer
<1>2. /\ events' = events \/ events' = {}
      /\ cursor' = cursor \/ cursor' = 0
      /\ lost' \in BOOLEAN /\ (~lost' => ~lost /\ events' = events)
  <2>1. CASE UNCHANGED <<events, cursor, lost>>
    BY <2>1 DEF IndexInv
  <2>2. CASE events' = {} /\ lost' = TRUE /\ UNCHANGED cursor
    BY <2>2
  <2>3. CASE cursor' = 0 /\ UNCHANGED <<events, lost>>
    BY <2>3 DEF IndexInv
  <2>. QED
    BY <2>1, <2>2, <2>3 DEF CrashIndexer
<1>3. ChainOK' /\ StoreOK'
  BY <1>1, <1>2, SameFound, FS_EmptySet DEF IndexInv, StoreOK
<1>4. PassOK' /\ RawOK'
  <2>1. pass'.pc = "idle" /\ pass'.source = 1 /\ pass'.raw = {}
    BY <1>1 DEF Resting
  <2>2. cursor' \in Nat /\ \A b \in 1..cursor' : b <= SafeHead'
    BY <1>1, <1>2, SameFound DEF IndexInv, PassOK
  <2>. QED
    BY <2>1, <2>2, FS_EmptySet DEF PassOK, RawOK
<1>5. MissingAreOld'
  <2>1. Done' = cursor'
    BY <1>1 DEF Done, Resting
  <2>2. \A b \in 1..cursor' : b \in 1..Done
    BY <1>2 DEF IndexInv, PassOK, Done
  <2>. QED
    BY <1>1, <1>2, <2>1, <2>2, SameFound DEF IndexInv, MissingAreOld
<1>. QED
  BY <1>1, <1>2, <1>3, <1>4, <1>5 DEF IndexInv

LEMMA IndexKeptByCollect ==
  ASSUME IndexInv, Collect
  PROVE  IndexInv'
<1>1. UNCHANGED <<blocks, events, overflowed, cursor, guessed, lost>> /\ pass.pc = "collect"
  BY DEF Collect, fileVars
<1>2. PICK found : found = UNION {{[event |-> e, block |-> b] : e \in FoundInBlock(pass.source, b)} :
                                    b \in pass.from..pass.to}
  OBVIOUS
<1>3. PICK g : g = [pass EXCEPT
       !.raw = @ \cup found,
       !.source = IF @ = 4 THEN 1 ELSE @ + 1,
       !.pc = IF pass.source = 4 THEN "stamp" ELSE "collect"]
  OBVIOUS
<1>4. pass' = g
  BY <1>2, <1>3 DEF Collect
<1>5. pass.source \in 1..4 /\ pass.from \in Nat \ {0} /\ pass.to \in Nat /\ pass.to <= SafeHead /\ SafeHead \in Int
  BY <1>1, ChainIsTyped, IndexerAssumption DEF IndexInv, PassOK, SafeHead
<1>6. /\ pass'.raw = pass.raw \cup found /\ pass'.from = pass.from /\ pass'.to = pass.to
      /\ pass'.source = (IF pass.source = 4 THEN 1 ELSE pass.source + 1)
      /\ pass'.pc = (IF pass.source = 4 THEN "stamp" ELSE "collect")
  BY <1>3, <1>4 DEF IndexInv, PassOK
<1>7. ChainOK' /\ StoreOK'
  BY <1>1, SameFound DEF IndexInv, StoreOK
<1>8. PassOK'
  BY <1>1, <1>5, <1>6, SameFound DEF IndexInv, PassOK
<1>9. \A r : r \in found <=> \E b \in pass.from..pass.to : \E e \in FoundInBlock(pass.source, b) :
                                r = [event |-> e, block |-> b]
  BY <1>2
<1>10. IsFiniteSet(found)
  <2>1. PICK h : h = [b \in pass.from..pass.to |->
                        {[event |-> e, block |-> b] : e \in FoundInBlock(pass.source, b)}]
    OBVIOUS
  <2>2. found = UNION {h[b] : b \in pass.from..pass.to}
    BY <1>2, <2>1
  <2>3. IsFiniteSet(pass.from..pass.to)
    <3>1. PICK m \in Int, n \in Int : m = pass.from /\ n = pass.to
      BY <1>5
    <3>2. IsFiniteSet(m..n)
      BY FS_Interval
    <3>. QED
      BY <3>1, <3>2
  <2>4. ASSUME NEW b \in pass.from..pass.to PROVE IsFiniteSet(h[b])
    <3>1. b \in 1..Len(blocks)
      BY <1>5, ChainIsTyped, IndexerAssumption DEF IndexInv, SafeHead
    <3>2. blocks[b] \in ChainCall \cup {NoCall}
      BY <3>1, ChainIsTyped DEF IndexInv
    <3>3. IsFiniteSet(FoundInBlock(pass.source, b))
      BY <1>5, <3>2, FoundIsFinite
    <3>4. PICK k : k = [e \in FoundInBlock(pass.source, b) |-> [event |-> e, block |-> b]]
      OBVIOUS
    <3>5. h[b] = {k[e] : e \in FoundInBlock(pass.source, b)}
      BY <2>1, <3>4
    <3>. QED
      BY <3>3, <3>5, RangeIsFinite
  <2>5. IsFiniteSet({h[b] : b \in pass.from..pass.to})
    BY <2>3, RangeIsFinite
  <2>6. \A T \in {h[b] : b \in pass.from..pass.to} : IsFiniteSet(T)
    BY <2>4
  <2>. QED
    BY <2>2, <2>5, <2>6, FS_UNION
<1>11. RawOK'
  <2>1. IsFiniteSet(pass'.raw)
    <3>1. PICK raw : raw = pass.raw /\ IsFiniteSet(raw)
      BY DEF IndexInv, RawOK
    <3>2. IsFiniteSet(raw \cup found)
      BY <1>10, <3>1, FS_Union
    <3>. QED
      BY <1>6, <3>1, <3>2
  <2>2. ASSUME NEW r \in pass'.raw
        PROVE  r.block \in pass.from..pass.to /\ \E source \in 1..4 : r.event \in FoundInBlock(source, r.block)
    <3>1. CASE r \in pass.raw
      BY <3>1 DEF IndexInv, RawOK
    <3>2. CASE r \in found
      BY <1>5, <1>9, <3>2
    <3>. QED
      BY <1>6, <2>2, <3>1, <3>2
  <2>3. ASSUME NEW source \in 1..4, NEW b \in pass.from..pass.to,
               pass'.pc = "stamp" \/ source < pass'.source, NEW f \in FoundInBlock(source, b)
        PROVE  \E r \in pass'.raw : r.event = f /\ r.block = b
    <3>1. source < pass.source \/ source = pass.source
      BY <1>5, <1>6, <2>3
    <3>2. CASE source < pass.source
      BY <1>1, <1>6, <2>3, <3>2 DEF IndexInv, RawOK
    <3>3. CASE source = pass.source
      <4>1. PICK r : r = [event |-> f, block |-> b]
        OBVIOUS
      <4>2. r \in found
        BY <1>9, <2>3, <3>3, <4>1
      <4>. QED
        BY <1>6, <4>1, <4>2
    <3>. QED
      BY <3>1, <3>2, <3>3
  <2>. QED
    BY <1>1, <1>6, <2>1, <2>2, <2>3, SameFound DEF RawOK
<1>12. MissingAreOld'
  <2>1. Done' = Done
    BY <1>1, <1>6 DEF Done
  <2>. QED
    BY <1>1, <2>1, SameFound DEF IndexInv, MissingAreOld
<1>. QED
  BY <1>1, <1>7, <1>8, <1>11, <1>12 DEF IndexInv

\* What is read of a block is stored with its time, or the clock's.
LEMMA StampedIsStored ==
  ASSUME IndexInv, pass.pc = "stamp", NEW r \in pass.raw, NEW at \in Nat
  PROVE  /\ IsStored(Stamped(r, at)) /\ Stamped(r, at).id = r.event.id
         /\ Stamped(r, at).block = r.block /\ Stamped(r, at).timestamp = at
         /\ r.block \in Nat /\ r.block > cursor
<1>1. PICK e : e = Stamped(r, at)
  OBVIOUS
<1>2. /\ e.id = r.event.id /\ e.type = r.event.type /\ e.account = r.event.account
      /\ e.policy = r.event.policy /\ e.amount = r.event.amount
      /\ e.timestamp = at /\ e.block = r.block
  BY <1>1 DEF Stamped
<1>3. PICK b : b = r.block
  OBVIOUS
<1>4. b \in pass.from..pass.to /\ \E source \in 1..4 : r.event \in FoundInBlock(source, b)
  BY <1>3 DEF IndexInv, RawOK
<1>5. pass.from = cursor + 1 /\ cursor \in Nat /\ pass.to \in Nat /\ pass.to <= SafeHead
  BY DEF IndexInv, PassOK
<1>6. b \in 1..Len(blocks) /\ b <= SafeHead /\ b > cursor /\ b \in Nat
  BY <1>4, <1>5, ChainIsTyped, IndexerAssumption DEF IndexInv, SafeHead
<1>7. blocks[b] \in ChainCall /\ Says(r.event, blocks[b])
  BY <1>4, <1>6, FoundOfCall DEF IndexInv
<1>8. Says(e, blocks[b]) /\ e.amount \in Nat
  BY <1>2, <1>7 DEF Says
<1>9. IsStored(e)
  BY <1>2, <1>3, <1>6, <1>7, <1>8 DEF IsStored
<1>. QED
  BY <1>1, <1>2, <1>3, <1>6, <1>9

LEMMA IndexKeptByStore ==
  ASSUME IndexInv, StoreEvents
  PROVE  IndexInv'
<1>1. UNCHANGED <<blocks, cursor, lost>> /\ pass.pc = "stamp" /\ pass' = [pass EXCEPT !.pc = "stored", !.raw = {}]
  BY DEF StoreEvents
<1>2. /\ pass'.pc = "stored" /\ pass'.raw = {} /\ pass'.from = pass.from /\ pass'.to = pass.to
      /\ pass'.source = pass.source
  BY <1>1 DEF IndexInv, PassOK
<1>3. /\ pass.from = cursor + 1 /\ cursor \in Nat /\ pass.to \in Nat /\ pass.from <= pass.to
      /\ pass.to <= SafeHead /\ SafeHead \in Int
  BY <1>1, ChainIsTyped, IndexerAssumption DEF IndexInv, PassOK, SafeHead
<1>4. ChainOK' /\ PassOK' /\ RawOK'
  BY <1>1, <1>2, <1>3, SameFound, FS_EmptySet DEF IndexInv, PassOK, RawOK
<1>5. Done = cursor /\ Done' = pass.to
  BY <1>1, <1>2 DEF Done
<1>6. PICK at \in [{r.block : r \in pass.raw} -> Nat] :
        /\ UpsertEvents({Stamped(r, at[r.block]) : r \in pass.raw})
        /\ guessed' \in BOOLEAN /\ (guessed => guessed')
        /\ ~guessed' => \A r \in pass.raw : at[r.block] = r.block
  <2>1. \A r \in pass.raw : r.block \in Nat
    BY <1>1, StampedIsStored
  <2>2. Clock \in Nat
    BY ChainIsTyped DEF IndexInv, Clock
  <2>3. CASE UpsertEvents({Stamped(r, r.block) : r \in pass.raw}) /\ UNCHANGED guessed
    <3>1. PICK at : at = [b \in {r.block : r \in pass.raw} |-> b]
      OBVIOUS
    <3>2. at \in [{r.block : r \in pass.raw} -> Nat] /\ \A r \in pass.raw : at[r.block] = r.block
      BY <2>1, <3>1
    <3>3. {Stamped(r, r.block) : r \in pass.raw} = {Stamped(r, at[r.block]) : r \in pass.raw}
      BY <3>2
    <3>. QED
      BY <2>3, <3>2, <3>3 DEF IndexInv
  <2>4. ASSUME NEW unread \in {r.block : r \in pass.raw}, guessed' = TRUE,
               UpsertEvents({Stamped(r, IF r.block = unread THEN Clock ELSE r.block) : r \in pass.raw})
        PROVE  \E at \in [{r.block : r \in pass.raw} -> Nat] :
                 /\ UpsertEvents({Stamped(r, at[r.block]) : r \in pass.raw})
                 /\ guessed' \in BOOLEAN /\ (guessed => guessed')
                 /\ ~guessed' => \A r \in pass.raw : at[r.block] = r.block
    <3>1. PICK at : at = [b \in {r.block : r \in pass.raw} |-> IF b = unread THEN Clock ELSE b]
      OBVIOUS
    <3>2. /\ at \in [{r.block : r \in pass.raw} -> Nat]
          /\ \A r \in pass.raw : at[r.block] = IF r.block = unread THEN Clock ELSE r.block
      BY <2>1, <2>2, <3>1
    <3>3. {Stamped(r, IF r.block = unread THEN Clock ELSE r.block) : r \in pass.raw}
            = {Stamped(r, at[r.block]) : r \in pass.raw}
      BY <3>2
    <3>4. UpsertEvents({Stamped(r, at[r.block]) : r \in pass.raw})
      BY <2>4, <3>3
    <3>. QED
      BY <2>4, <3>2, <3>4
  <2>. QED
    BY <2>3, <2>4 DEF StoreEvents
<1>7. PICK incoming : incoming = {Stamped(r, at[r.block]) : r \in pass.raw}
  OBVIOUS
<1>8. UpsertEvents(incoming)
  BY <1>6, <1>7
<1>9. IsFiniteSet(incoming)
  <2>1. PICK h : h = [r \in pass.raw |-> Stamped(r, at[r.block])]
    OBVIOUS
  <2>2. incoming = {h[r] : r \in pass.raw}
    BY <1>7, <2>1
  <2>. QED
    BY <2>2, RangeIsFinite DEF IndexInv, RawOK
<1>10. ASSUME NEW r \in pass.raw
       PROVE  LET e == Stamped(r, at[r.block]) IN
              IsStored(e) /\ e.id = r.event.id /\ e.block = r.block /\ e.timestamp = at[r.block] /\ r.block > cursor
  <2>1. at[r.block] \in Nat
    BY <1>6
  <2>. QED
    BY <1>1, <2>1, StampedIsStored
<1>11. /\ \A i \in incoming : IsStored(i)
       /\ \A i \in incoming : i.block > Done
       /\ ~guessed' => \A i \in incoming : i.timestamp = i.block
  BY <1>5, <1>6, <1>7, <1>10
<1>12. ASSUME NEW b \in 1..pass.to, ~ b <= cursor, NEW source \in 1..4, NEW f \in FoundInBlock(source, b)
       PROVE  Here(f.id, incoming)
  <2>1. b \in pass.from..pass.to
    BY <1>3, <1>12
  <2>2. PICK r \in pass.raw : r.event = f /\ r.block = b
    BY <1>1, <1>12, <2>1 DEF IndexInv, RawOK
  <2>3. Stamped(r, at[r.block]) \in incoming /\ Stamped(r, at[r.block]).id = f.id
    BY <1>7, <1>10, <2>2
  <2>. QED
    BY <2>3 DEF Here
<1>13. \A b \in 1..Done' :
         b <= SafeHead /\ (b <= Done \/ \A source \in 1..4 : \A f \in FoundInBlock(source, b) :
                                                                   Here(f.id, incoming))
  BY <1>3, <1>5, <1>12
<1>14. StoreOK'
  BY <1>1, <1>6, <1>8, <1>9, <1>11, StoreAfterUpsert
<1>15. MissingAreOld'
  BY <1>1, <1>6, <1>8, <1>9, <1>11, <1>13, <1>14, MissingAfterUpsert
<1>16. overflowed' \in BOOLEAN
  BY <1>8, <1>9, UpsertKeeps DEF IndexInv, StoreOK
<1>. QED
  BY <1>1, <1>4, <1>6, <1>14, <1>15, <1>16 DEF IndexInv

LEMMA IndexKeptByResolution ==
  ASSUME IndexInv, NEW ok \in BOOLEAN, RecordDomainResolution(ok)
  PROVE  IndexInv'
<1>1. UNCHANGED <<blocks, cursor, pass, guessed, lost>>
  BY DEF RecordDomainResolution
<1>2. PICK e : e = [id |-> <<"domain", resolutions>>,
        type |-> IF ok THEN "DOMAIN_RESOLVED" ELSE "DOMAIN_RESOLUTION_FAILED",
        status |-> IF ok THEN "confirmed" ELSE "failed", account |-> NoName, policy |-> NoName,
        amount |-> 0, until |-> 0, timestamp |-> Clock, block |-> 0]
  OBVIOUS
<1>3. UpsertEvents({e})
  BY <1>2 DEF RecordDomainResolution
<1>4. IsStored(e) /\ e.block = 0
  <2>1. Clock \in Nat
    BY ChainIsTyped DEF IndexInv, Clock
  <2>. QED
    BY <1>2, <2>1 DEF IsStored
<1>5. IsFiniteSet({e})
  BY FS_Singleton
<1>6. guessed' \in BOOLEAN /\ (guessed => guessed')
  BY <1>1 DEF IndexInv
<1>7. ChainOK' /\ PassOK' /\ RawOK' /\ Done' = Done
  BY <1>1, SameFound DEF IndexInv, PassOK, RawOK, Done
<1>8. StoreOK'
  BY <1>1, <1>3, <1>4, <1>5, <1>6, StoreAfterUpsert
<1>9. Done \in Nat /\ \A b \in 1..Done : b <= SafeHead /\ b <= Done
  BY ChainIsTyped, IndexerAssumption DEF IndexInv, PassOK, Done, SafeHead
<1>10. MissingAreOld'
  BY <1>1, <1>3, <1>4, <1>5, <1>6, <1>7, <1>8, <1>9, MissingAfterUpsert
<1>11. overflowed' \in BOOLEAN
  BY <1>3, <1>5, UpsertKeeps DEF IndexInv, StoreOK
<1>. QED
  BY <1>1, <1>7, <1>8, <1>10, <1>11 DEF IndexInv

LEMMA IndexKept == IndexInv /\ [IndexerNext]_indexerVars => IndexInv'
<1>1. IndexInv /\ UNCHANGED indexerVars => IndexInv'
  <2>. SUFFICES ASSUME IndexInv, UNCHANGED indexerVars PROVE IndexInv'
    OBVIOUS
  <2>1. UNCHANGED <<blocks, events, overflowed, cursor, pass, guessed, lost>>
    BY DEF indexerVars, fileVars
  <2>2. ChainOK' /\ PassOK' /\ RawOK' /\ StoreOK' /\ Done' = Done
    BY <2>1, SameFound DEF IndexInv, PassOK, RawOK, StoreOK, Done
  <2>3. MissingAreOld'
    BY <2>1, <2>2, SameFound DEF IndexInv, MissingAreOld
  <2>. QED
    BY <2>1, <2>2, <2>3 DEF IndexInv
<1>. QED
  BY <1>1, IndexKeptByChain, IndexKeptByPass, IndexKeptByCollect, IndexKeptByStore, IndexKeptByCrash,
     IndexKeptByResolution DEF IndexerNext, PassStep
-----------------------------------------------------------------------------
\* A stored event of the chain is what its block says.
LEMMA IndexFinal == ASSUME IndexInv PROVE IndexedIsFinal
<1>. SUFFICES ASSUME NEW e \in events, e.block > 0
              PROVE  e.block <= SafeHead /\ e.id[2] = blocks[e.block] /\ e.id[1] \in LogsOf(blocks[e.block])
  BY DEF IndexedIsFinal
<1>1. e.block <= SafeHead /\ Says(e, blocks[e.block])
  <2>1. IsStored(e)
    BY DEF IndexInv, StoreOK
  <2>. QED
    BY <2>1 DEF IsStored
<1>2. PICK log \in LogsOf(blocks[e.block]) : e.id = <<log, blocks[e.block]>>
  BY <1>1 DEF Says
<1>. QED
  BY <1>1, <1>2

LEMMA IndexComplete == ASSUME IndexInv PROVE NothingMissed
<1>1. \A b \in 1..cursor : b \in 1..Done
  BY DEF IndexInv, PassOK, Done
<1>. QED
  BY <1>1 DEF NothingMissed, IndexInv, MissingAreOld, Here

\* The creation and the revocation of a policy, as they are stored.
LEMMA StoredPolicy ==
  ASSUME IndexInv, NEW e \in events, e.type \in {"POLICY_CREATED", "POLICY_REVOKED"}
  PROVE  /\ e.block \in 1..Len(blocks) /\ blocks[e.block] \in ChainCall
         /\ e.policy = blocks[e.block].policy /\ e.account = blocks[e.block].account
         /\ e.type = "POLICY_CREATED" => blocks[e.block].what = "createPolicy"
         /\ e.type = "POLICY_REVOKED" => blocks[e.block].what = "revokePolicy"
<1>1. IsStored(e)
  BY DEF IndexInv, StoreOK
<1>2. e.block \in 1..Len(blocks) /\ blocks[e.block] \in ChainCall /\ Says(e, blocks[e.block])
  BY <1>1 DEF IsStored
<1>. QED
  BY <1>2 DEF Says

LEMMA PassedBlocks ==
  ASSUME IndexInv, NEW b \in 1..cursor
  PROVE  b \in 1..Len(blocks) /\ b \in 1..Done /\ b \in Nat
<1>1. cursor \in Nat /\ b <= SafeHead /\ Len(blocks) \in Nat /\ Confirmations \in Nat
  BY ChainIsTyped, IndexerAssumption DEF IndexInv, PassOK
<1>2. b \in 1..Done
  BY <1>1 DEF IndexInv, PassOK, Done
<1>. QED
  BY <1>1, <1>2 DEF SafeHead

\* Whose policy is active: it was created and no revocation of it is stored.
LEMMA ActiveIsCreated ==
  ASSUME NEW es, NEW at, NEW policy
  PROVE  policy \in ActivePolicies(es, at) <=>
           \E c \in es : /\ c.type = "POLICY_CREATED" /\ c.policy = policy
                         /\ ~(c.until # 0 /\ c.until <= at)
                         /\ \A r \in es : r.type = "POLICY_REVOKED" => r.policy # policy
<1>1. PICK created, gone : /\ created = {e \in es : e.type = "POLICY_CREATED"}
                           /\ gone = {e \in es : e.type = "POLICY_REVOKED"}
  OBVIOUS
<1>2. FoldPolicies(es) =
        {[policy |-> c.policy, until |-> c.until, revoked |-> \E r \in gone : r.policy = c.policy] : c \in created}
        \cup {[policy |-> r.policy, until |-> 0, revoked |-> TRUE] :
                 r \in {g \in gone : \A c \in created : c.policy # g.policy}}
  BY <1>1, SMT DEF FoldPolicies
<1>3. ASSUME NEW c \in created, NEW p,
             p = [policy |-> c.policy, until |-> c.until, revoked |-> \E r \in gone : r.policy = c.policy]
      PROVE  /\ p.policy = c.policy /\ p.until = c.until
             /\ p.revoked <=> (\E r \in gone : r.policy = c.policy)
  BY <1>3
<1>4. ASSUME NEW r, NEW p, p = [policy |-> r.policy, until |-> 0, revoked |-> TRUE]
      PROVE  p.revoked
  BY <1>4
<1>5. policy \in ActivePolicies(es, at) <=>
        \E p \in FoldPolicies(es) : ~p.revoked /\ ~ExpiredBy(p, at) /\ p.policy = policy
  BY DEF ActivePolicies, ClassifyPolicies
<1>6. (\E p \in FoldPolicies(es) : ~p.revoked /\ ~ExpiredBy(p, at) /\ p.policy = policy) <=>
        \E c \in created : /\ c.policy = policy /\ ~(c.until # 0 /\ c.until <= at)
                           /\ ~ \E r \in gone : r.policy = c.policy
  <2>1. ASSUME NEW p \in FoldPolicies(es), ~p.revoked, ~ExpiredBy(p, at), p.policy = policy
        PROVE  \E c \in created : /\ c.policy = policy /\ ~(c.until # 0 /\ c.until <= at)
                                  /\ ~ \E r \in gone : r.policy = c.policy
    <3>1. PICK c \in created :
            p = [policy |-> c.policy, until |-> c.until, revoked |-> \E r \in gone : r.policy = c.policy]
      BY <1>2, <1>4, <2>1, Zenon
    <3>2. /\ p.policy = c.policy /\ p.until = c.until
          /\ p.revoked <=> (\E r \in gone : r.policy = c.policy)
      BY <1>3, <3>1
    <3>. QED
      BY <2>1, <3>2 DEF ExpiredBy
  <2>2. ASSUME NEW c \in created, c.policy = policy, ~(c.until # 0 /\ c.until <= at),
               ~ \E r \in gone : r.policy = c.policy
        PROVE  \E p \in FoldPolicies(es) : ~p.revoked /\ ~ExpiredBy(p, at) /\ p.policy = policy
    <3>1. PICK p : p = [policy |-> c.policy, until |-> c.until, revoked |-> \E r \in gone : r.policy = c.policy]
      OBVIOUS
    <3>2. p \in FoldPolicies(es)
      BY <1>2, <3>1, Zenon
    <3>3. /\ p.policy = c.policy /\ p.until = c.until
          /\ p.revoked <=> (\E r \in gone : r.policy = c.policy)
      BY <1>3, <3>1
    <3>. QED
      BY <2>2, <3>2, <3>3 DEF ExpiredBy
  <2>. QED
    BY <2>1, <2>2
<1>. QED
  BY <1>1, <1>5, <1>6

\* Dropping the oldest never drops the revocation and keeps the creation.
LEMMA RevokedIsInactive == ASSUME IndexInv PROVE RevokedNeverActive
<1>. SUFFICES ASSUME ~lost, ~(guessed /\ overflowed), NEW b \in 1..cursor,
                     blocks[b] # NoCall, blocks[b].what = "revokePolicy",
                     blocks[b].policy \in ActivePolicies(events, Clock)
              PROVE  FALSE
  BY DEF RevokedNeverActive
<1>1. b \in 1..Len(blocks) /\ b \in 1..Done /\ b \in Nat
  BY PassedBlocks
<1>2. PICK call \in ChainCall : call = blocks[b]
  BY <1>1, ChainIsTyped DEF IndexInv
<1>3. PICK f : f = Event("POLICY_REVOKED", "AgentPolicyRevoked", call, call.account, 0)
  OBVIOUS
<1>4. f \in FoundInBlock(1, b) /\ f.id = <<"AgentPolicyRevoked", call>>
  <2>1. "AgentPolicyRevoked" \in LogsOf(call) /\ f \in Found(1, "AgentPolicyRevoked", call)
    BY <1>2, <1>3, RevocationIsFound
  <2>. QED
    BY <1>2, <1>3, <2>1 DEF FoundInBlock, Event
<1>5. PICK c \in events :
        /\ c.type = "POLICY_CREATED" /\ c.policy = call.policy
        /\ \A r \in events : r.type = "POLICY_REVOKED" => r.policy # call.policy
  BY <1>2, ActiveIsCreated
<1>6. ~ Here(f.id, events)
  <2>1. SUFFICES ASSUME NEW e \in events, e.id = f.id PROVE FALSE
    BY DEF Here
  <2>2. IsStored(e)
    BY <2>1 DEF IndexInv, StoreOK
  <2>3. e.block = b
    BY <1>1, <1>4, <2>1, <2>2, IdGivesBlock DEF IndexInv
  <2>4. Says(e, call)
    BY <1>1, <1>2, <2>2, <2>3 DEF IsStored
  <2>5. e.type = "POLICY_REVOKED" /\ e.policy = call.policy
    BY <1>4, <2>1, <2>4 DEF Says
  <2>. QED
    BY <1>5, <2>1, <2>5
<1>7. overflowed /\ (~guessed => \A e \in events : e.block > 0 => e.block >= b)
  BY <1>1, <1>4, <1>6 DEF IndexInv, MissingAreOld
<1>8. c.block \in 1..Len(blocks) /\ blocks[c.block] \in ChainCall
      /\ blocks[c.block].what = "createPolicy" /\ blocks[c.block].policy = call.policy
  BY <1>5, StoredPolicy
<1>9. c.block >= b /\ Len(blocks) \in Nat /\ DOMAIN blocks = 1..Len(blocks)
  BY <1>7, <1>8, ChainIsTyped DEF IndexInv
<1>10. PICK a \in 1..(b - 1) : /\ blocks[a] # NoCall /\ blocks[a].what = "createPolicy"
                               /\ blocks[a].policy = blocks[b].policy
  BY <1>1, <1>9 DEF IndexInv, ChainOK, Ordered
<1>11. a \in 1..Len(blocks) /\ a < b
  BY <1>1, <1>9
<1>12. blocks[a] \in ChainCall
  BY <1>10, <1>11, ChainIsTyped DEF IndexInv
<1>13. blocks[a] = blocks[c.block]
  BY <1>2, <1>8, <1>10, <1>12, ChainCallAssumption
<1>14. a = c.block
  BY <1>8, <1>9, <1>10, <1>11, <1>13 DEF IndexInv, ChainOK
<1>. QED
  BY <1>1, <1>8, <1>9, <1>11, <1>14

LEMMA AmountsAdd ==
  ASSUME NEW S, IsFiniteSet(S), \A e \in S : e.amount \in Nat, NEW T, T \subseteq S
  PROVE  SumAmounts(T) <= SumAmounts(S)
<1>1. PICK f, g : f = [e \in T |-> e.amount] /\ g = [e \in S |-> e.amount]
  OBVIOUS
<1>2. SumAmounts(T) = Total(f, T) /\ SumAmounts(S) = Total(g, S)
  BY <1>1 DEF SumAmounts, Total, FoldFunction
<1>3. IsFiniteSet(T)
  BY FS_Subset
<1>4. /\ \A e \in T : g[e] \in Int /\ g[e] = f[e]
      /\ \A e \in S : g[e] \in Nat
  BY <1>1
<1>5. Total(g, T) = Total(f, T)
  BY <1>3, <1>4, TotalSame
<1>6. Total(g, T) <= Total(g, S)
  <2>1. \A e \in S : g[e] \in Nat /\ g[e] \in Nat
    BY <1>4
  <2>2. \A e \in T : g[e] <= g[e]
    BY <1>4
  <2>. QED
    BY <2>1, <2>2, TotalLess
<1>. QED
  BY <1>2, <1>5, <1>6

LEMMA CountsAdd ==
  ASSUME NEW S, IsFiniteSet(S), NEW T, T \subseteq S, NEW type
  PROVE  Count(T, type) \in Nat /\ Count(S, type) \in Nat /\ Count(T, type) <= Count(S, type)
<1>1. PICK A, B : /\ A = {e \in T : e.type = type /\ e.status = "confirmed"}
                  /\ B = {e \in S : e.type = type /\ e.status = "confirmed"}
  OBVIOUS
<1>2. A \subseteq B /\ IsFiniteSet(B)
  BY <1>1, FS_Subset
<1>3. IsFiniteSet(A) /\ Cardinality(A) <= Cardinality(B)
  BY <1>2, FS_Subset
<1>. QED
  BY <1>1, <1>2, <1>3, FS_CardinalityType DEF Count

\* An account's own events are among all, and a policy's two logs carry the same
\* account, so that none is left behind.
LEMMA OwnIsPart == ASSUME IndexInv PROVE OwnStatsWithinAll
<1>. SUFFICES ASSUME NEW account
              PROVE  LET all == AggregateProtocolStats(events, Clock, 1)
                         own == AggregateMyStats(events, account, Clock) IN
                     /\ own.qusdcVolume <= all.totalVolume
                     /\ own.autopilotExecutions <= all.autopilotExecutions
                     /\ own.activePolicies \subseteq {p.policy : p \in all.policies.active}
  BY DEF OwnStatsWithinAll
<1>1. PICK mine : mine = {e \in events : e.account = account}
  OBVIOUS
<1>2. IsFiniteSet(events) /\ mine \subseteq events /\ \A e \in events : e.amount \in Nat
  BY <1>1 DEF IndexInv, StoreOK, IsStored
<1>3. SumVolume(mine) <= SumVolume(events)
  <2>1. PICK A, B : /\ A = {e \in mine : e.status = "confirmed" /\ e.type \in VolumeType}
                    /\ B = {e \in events : e.status = "confirmed" /\ e.type \in VolumeType}
    OBVIOUS
  <2>2. IsFiniteSet(B) /\ A \subseteq B /\ \A e \in B : e.amount \in Nat
    BY <1>2, <2>1, FS_Subset
  <2>. QED
    BY <2>1, <2>2, AmountsAdd DEF SumVolume
<1>4. Autopilot(mine) <= Autopilot(events)
  BY <1>2, CountsAdd DEF Autopilot
<1>5. ActivePolicies(mine, Clock) \subseteq ActivePolicies(events, Clock)
  <2>1. SUFFICES ASSUME NEW policy \in ActivePolicies(mine, Clock)
                 PROVE  policy \in ActivePolicies(events, Clock)
    OBVIOUS
  <2>2. PICK c \in mine : /\ c.type = "POLICY_CREATED" /\ c.policy = policy
                          /\ ~(c.until # 0 /\ c.until <= Clock)
                          /\ \A r \in mine : r.type = "POLICY_REVOKED" => r.policy # policy
    BY <2>1, ActiveIsCreated
  <2>3. ASSUME NEW r \in events, r.type = "POLICY_REVOKED", r.policy = policy PROVE FALSE
    <3>1. r.account = c.account
      BY <1>2, <2>2, <2>3, StoredPolicy, ChainCallAssumption
    <3>2. r \in mine
      BY <1>1, <2>2, <2>3, <3>1
    <3>. QED
      BY <2>2, <2>3, <3>2
  <2>. QED
    BY <1>2, <2>2, <2>3, ActiveIsCreated
<1>6. PICK all, own : all = AggregateProtocolStats(events, Clock, 1) /\ own = AggregateMyStats(events, account, Clock)
  OBVIOUS
<1>7. /\ all.totalVolume = SumVolume(events) /\ all.autopilotExecutions = Autopilot(events)
      /\ all.policies = ClassifyPolicies(FoldPolicies(events), Clock)
  BY <1>6 DEF AggregateProtocolStats
<1>8. /\ own.qusdcVolume = SumVolume(mine) /\ own.autopilotExecutions = Autopilot(mine)
      /\ own.activePolicies = ActivePolicies(mine, Clock)
  BY <1>1, <1>6 DEF AggregateMyStats
<1>9. {p.policy : p \in all.policies.active} = ActivePolicies(events, Clock)
  BY <1>7 DEF ActivePolicies
<1>. QED
  BY <1>3, <1>4, <1>5, <1>6, <1>7, <1>8, <1>9, Zenon

\* Through reorganisations, failed and half-done passes and dropped events, what
\* the store holds is final, what is behind the cursor is in it, and no policy
\* its owner revoked is active (runIndexerOnce, upsertEvents, foldPolicies).
THEOREM IndexTellsTheChain == IndexerSpec => []IndexIsExact
<1>1. IndexInv => IndexIsExact
  BY IndexFinal, IndexComplete, RevokedIsInactive, OwnIsPart DEF IndexIsExact
<1>. QED
  BY IndexInitially, IndexKept, <1>1, PTL DEF IndexerSpec
=============================================================================
