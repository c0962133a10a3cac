---------------------------- MODULE PaymasterProofs ----------------------------
(***************************************************************************)
(* Theorems about Paymaster and GasRoute, for any accounts, budgets, caps, *)
(* bundle size, operations, prices and preferences.                        *)
(*                                                                         *)
(* The bounds are not inductive by themselves: between the check of a      *)
(* budget and its charge other operations of the bundle are charged.  The  *)
(* inductive invariant measures the bundle: while an operation that was    *)
(* accepted on a budget is still to run, the budget is overshot by at most *)
(* the operations of the bundle that have already run.                     *)
(***************************************************************************)
EXTENDS GasRoute, SumTheorems, TLAPS

Sponsored == {i \in DOMAIN bundle : bundle[i].op.mode = "B"}
SponsoredFor(a) == {i \in Sponsored : bundle[i].op.sender = a}

\* How many operations of this bundle may have run already.
Ran == IF phase = "validating" THEN 0 ELSE BundleSize - Len(bundle)

BudgetInv ==
  Sponsored # {} => /\ dailyBudgetSpent < DailyBudget + Ran * MaxCost
                    /\ globalBudgetSpent < GlobalBudget + Ran * MaxCost

FreeOpsInv ==
  \A a \in Account :
    SponsoredFor(a) # {} => sponsoredOpsCount[a] < PerAccountCap + Ran

IInv ==
  /\ TypeOK
  /\ BudgetInv /\ FreeOpsInv
  /\ BudgetOvershootBounded /\ FreeOpsOvershootBounded

-----------------------------------------------------------------------------
(* Arithmetic *)

LEMMA ProductNat == \A m, n \in Nat : m * n \in Nat
  OBVIOUS

LEMMA QuotientNat == \A m \in Nat, n \in Nat \ {0} : m \div n \in Nat
  OBVIOUS

LEMMA ProductNonzero == \A m, n \in Nat \ {0} : m * n \in Nat \ {0}
  OBVIOUS

LEMMA OneMore ==
  \A m \in Nat, n \in Nat : (m + 1) * n = m * n + n
  OBVIOUS

LEMMA ProductMonotone ==
  \A m, n, k \in Nat : m <= n => m * k <= n * k
  OBVIOUS

LEMMA AddToEntry ==
  ASSUME NEW S, NEW f \in [S -> Nat], NEW x, NEW n \in Nat
  PROVE  [f EXCEPT ![x] = @ + n] \in [S -> Nat]
<1> DEFINE g == [f EXCEPT ![x] = @ + n]
<1>1. \A y \in S : g[y] \in Nat
  <2> TAKE y \in S
  <2>1. CASE y = x
    BY <2>1
  <2>2. CASE y # x
    BY <2>2
  <2> QED
    BY <2>1, <2>2
<1>2. g = [y \in S |-> g[y]]
  OBVIOUS
<1> HIDE DEF g
<1>3. g \in [S -> Nat]
  BY <1>1, <1>2
<1> QED
  BY <1>3 DEF g

\* _quoteQUSDC never underflows or divides by zero.
LEMMA QuoteNat ==
  ASSUME TypeOK, NEW p \in [wqie : Nat, qusdc : Nat, lastUpdate : Time], NEW cost \in Nat
  PROVE  QuoteAt(p, cost) \in Nat
<1>1. gasMarkupBps \in Nat /\ BpsDenominator \in Nat \ {0}
  BY PaymasterAssumption DEF TypeOK
<1>2. cost * p.qusdc \in Nat
  BY ProductNat
<1>3. (cost * p.qusdc) * (BpsDenominator + gasMarkupBps) \in Nat
  BY <1>1, <1>2, ProductNat
<1>4. CASE p.wqie = 0
  BY <1>4 DEF QuoteAt
<1>5. CASE p.wqie # 0
  <2>1. p.wqie * BpsDenominator \in Nat \ {0}
    BY <1>1, <1>5, ProductNonzero
  <2> QED
    BY <1>3, <1>5, <2>1, QuotientNat DEF QuoteAt
<1> QED
  BY <1>4, <1>5

-----------------------------------------------------------------------------
(* Facts about the operators of the model *)

LEMMA SpentTodayBounds ==
  ASSUME TypeOK
  PROVE  SpentToday \in Nat /\ SpentToday <= dailyBudgetSpent
  BY DEF TypeOK, SpentToday

LEMMA TodayNat ==
  ASSUME TypeOK
  PROVE  Today \in Nat
<1>1. now \in Nat
  BY PaymasterAssumption DEF TypeOK, Time
<1>2. DayLength \in Nat \ {0}
  BY PaymasterAssumption
<1> QED
  BY <1>1, <1>2, QuotientNat DEF Today

LEMMA ChargedTodayNat ==
  ASSUME TypeOK
  PROVE  ChargedToday \in Nat
  BY DEF TypeOK, ChargedToday

LEMMA PairOfType ==
  ASSUME TypeOK, NEW p \in Pool
  PROVE  PairOf(p) \in [wqie : Nat, qusdc : Nat, lastUpdate : Time]
  BY PaymasterAssumption DEF TypeOK, PairOf

\* The fields of a validated operation.
LEMMA PendingType ==
  ASSUME NEW pending \in Pending
  PROVE  /\ pending.op.sender \in Account
         /\ pending.op.maxCost \in 1..MaxCost
         /\ pending.op.maxCost \in Nat
         /\ pending.op.spend \in Nat
         /\ pending.quoted \in Nat
<1>1. pending.op \in OpType /\ pending.quoted \in Nat
  BY OpAssumption DEF Pending
<1> QED
  BY <1>1, PaymasterAssumption DEF OpType

\* What is left of the sender's QUSDC after its call, and what postOp takes of
\* it, are natural numbers; postOp takes no more than is left.
LEMMA OutcomeType ==
  ASSUME TypeOK, NEW pending \in Pending, NEW o \in Outcomes(pending.op)
  PROVE  /\ o.cost \in 1..pending.op.maxCost
         /\ SpentBy(pending.op, o) \in Nat
         /\ LeftAfter(pending.op, o) \in Nat
         /\ PairAfter(pending.op, o) \in [wqie : Nat, qusdc : Nat, lastUpdate : Time]
         /\ ChargeOf(pending, o) \in Nat
<1>1. /\ pending.op.sender \in Account /\ pending.op.spend \in Nat
      /\ pending.op.maxCost \in Nat /\ pending.quoted \in Nat
  BY PendingType
<1>2. /\ o.cost \in 1..pending.op.maxCost /\ o.ok \in BOOLEAN /\ o.pool \in Pool
      /\ o.ok => balance[pending.op.sender] >= pending.op.spend
  BY DEF Outcomes
<1>3. balance[pending.op.sender] \in Nat
  BY <1>1 DEF TypeOK
<1>4. SpentBy(pending.op, o) \in Nat /\ LeftAfter(pending.op, o) \in Nat
  BY <1>1, <1>2, <1>3 DEF SpentBy, LeftAfter
<1>5. PairAfter(pending.op, o) \in [wqie : Nat, qusdc : Nat, lastUpdate : Time]
  BY <1>2, PairOfType DEF PairAfter, TypeOK
<1>6. QuoteAt(PairAfter(pending.op, o), o.cost) \in Nat
  BY <1>1, <1>2, <1>5, QuoteNat
<1> QED
  BY <1>1, <1>2, <1>4, <1>5, <1>6 DEF ChargeOf

-----------------------------------------------------------------------------
(* Type correctness *)

LEMMA InitType == Init => TypeOK
<1> SUFFICES ASSUME Init PROVE TypeOK
  OBVIOUS
<1>1. now \in Time /\ Today \in Nat
  BY PaymasterAssumption, QuotientNat DEF Init, Time, Today
<1>2. \A p \in Pool : PairOf(p) \in [wqie : Nat, qusdc : Nat, lastUpdate : Time]
  BY <1>1, PaymasterAssumption DEF PairOf
<1>3. bundle \in Seq(Pending) /\ Len(bundle) <= BundleSize
  BY PaymasterAssumption DEF Init
<1> QED
  BY <1>1, <1>2, <1>3, PaymasterAssumption DEF Init, TypeOK

\* Accept appends one operation.
LEMMA AcceptType ==
  ASSUME TypeOK, NEW op \in Op, NEW quoted \in Nat, Accept(op, quoted)
  PROVE  /\ bundle' \in Seq(Pending) /\ Len(bundle') = Len(bundle) + 1
         /\ Len(bundle') <= BundleSize
         /\ deposit' \in Nat /\ phase' = "validating"
<1>1. [op |-> op, quoted |-> quoted] \in Pending
  BY DEF Pending
<1>2. bundle \in Seq(Pending) /\ BundleSize \in Nat
  BY PaymasterAssumption DEF TypeOK
<1>3. bundle' \in Seq(Pending) /\ Len(bundle') = Len(bundle) + 1
  BY <1>1, <1>2 DEF Accept
<1>4. op.maxCost \in Nat
  BY OpAssumption DEF OpType
<1>5. deposit' \in Nat
  BY <1>4, SMTT(30) DEF Accept, TypeOK
<1> QED
  BY <1>2, <1>3, <1>5 DEF Accept

\* Settle drops the first operation.
LEMMA SettleType ==
  ASSUME TypeOK, bundle # << >>, NEW cost \in 1..Head(bundle).op.maxCost,
         Settle(Head(bundle).op, cost)
  PROVE  /\ bundle' \in Seq(Pending) /\ Len(bundle') = Len(bundle) - 1
         /\ Len(bundle') <= BundleSize
         /\ deposit' \in Nat /\ phase' \in {"idle", "executing"}
         /\ phase' = "idle" => bundle' = << >>
<1>0. bundle \in Seq(Pending) /\ BundleSize \in Nat
  BY PaymasterAssumption DEF TypeOK
<1>1. bundle \in Seq(Pending) /\ Head(bundle) \in Pending /\ BundleSize \in Nat
  BY <1>0
<1>2. bundle' = Tail(bundle)
  BY DEF Settle
<1>3. bundle' \in Seq(Pending) /\ Len(bundle') = Len(bundle) - 1
  BY <1>1, <1>2
<1>4. Len(bundle) = 1 => bundle' = << >>
  BY <1>1, <1>3
<1>5. Head(bundle).op.maxCost \in Nat
  BY <1>1, PendingType
<1>6. deposit' \in Nat
  <2>1. deposit \in Nat /\ deposit' = deposit + Head(bundle).op.maxCost - cost
    BY DEF Settle, TypeOK
  <2> QED
    BY <1>5, <2>1
<1> QED
  BY <1>1, <1>3, <1>4, <1>6, SMTT(30) DEF Settle, TypeOK

LEMMA ValidateType ==
  ASSUME TypeOK, NEW op \in Op, ValidateModeA(op) \/ ValidateModeB(op)
  PROVE  TypeOK'
<1>1. CASE ValidateModeA(op)
  <2>1. op.maxCost \in Nat
    BY OpAssumption DEF OpType
  <2>2. QuoteQUSDC(op.maxCost) \in Nat
    BY <2>1, QuoteNat DEF QuoteQUSDC, TypeOK
  <2>3. Accept(op, QuoteQUSDC(op.maxCost))
    BY <1>1 DEF ValidateModeA
  <2> QED
    BY <1>1, <2>2, <2>3, AcceptType
    DEF ValidateModeA, TypeOK, config, budget, charges, token, chain
<1>2. CASE ValidateModeB(op)
  <2>1. Accept(op, 0) /\ dailyBudgetSpent' \in Nat
    BY <1>2, SpentTodayBounds DEF ValidateModeB
  <2>2. Today \in Nat
    BY TodayNat
  <2> QED
    BY <1>2, <2>1, <2>2, AcceptType
    DEF ValidateModeB, TypeOK, config, charges, token, chain
<1> QED
  BY <1>1, <1>2

LEMMA ExecuteType ==
  ASSUME TypeOK, Execute
  PROVE  TypeOK'
<1> DEFINE pending == Head(bundle)
           op == pending.op
<1>1. pending \in Pending /\ bundle # << >>
  BY DEF TypeOK, Execute
<1>2. op.sender \in Account
  BY <1>1, PendingType
<1>3. Today \in Nat
  BY TodayNat
<1>4. ASSUME ExecuteModeA(pending) PROVE TypeOK'
  <2>1. PICK o \in Outcomes(op) :
          LET charge == ChargeOf(pending, o) IN
          /\ Collectable(pending, o)
          /\ balance' = [balance EXCEPT ![op.sender] = LeftAfter(op, o) - charge]
          /\ allowance' = [allowance EXCEPT ![op.sender] = @ - charge]
          /\ treasury' = treasury + charge
          /\ outside' = outside + SpentBy(op, o)
          /\ collectedQUSDC' = collectedQUSDC + charge
          /\ qusdcGasDay' = IF charge = 0 THEN qusdcGasDay ELSE Today
          /\ qusdcGasSpentToday' = IF charge = 0 THEN qusdcGasSpentToday
                                                 ELSE ChargedToday + charge
          /\ pair' = PairAfter(op, o)
          /\ Settle(op, o.cost)
          /\ UNCHANGED <<config, budget, now, sponsoredOn>>
    BY <1>4 DEF ExecuteModeA
  <2> DEFINE charge == ChargeOf(pending, o)
  <2>2. /\ o.cost \in 1..op.maxCost /\ SpentBy(op, o) \in Nat
        /\ LeftAfter(op, o) \in Nat /\ charge \in Nat
        /\ PairAfter(op, o) \in [wqie : Nat, qusdc : Nat, lastUpdate : Time]
    BY <1>1, OutcomeType
  <2>3. LeftAfter(op, o) - charge \in Nat /\ allowance[op.sender] - charge \in Nat
    <3>1. charge = 0 \/ (LeftAfter(op, o) >= charge /\ allowance[op.sender] >= charge)
      BY <2>1 DEF Collectable
    <3>2. allowance[op.sender] \in Nat
      BY <1>2 DEF TypeOK
    <3> HIDE DEF charge
    <3> QED
      BY <2>2, <3>1, <3>2
  <2>4. balance' \in [Account -> Nat] /\ allowance' \in [Account -> Nat]
    BY <2>1, <2>3 DEF TypeOK
  <2>5. /\ {collectedQUSDC', qusdcGasDay', qusdcGasSpentToday'} \subseteq Nat
        /\ treasury' \in Nat /\ outside' \in Nat
    <3> HIDE DEF charge
    <3>1. /\ ChargedToday \in Nat /\ outside' = outside + SpentBy(op, o)
          /\ collectedQUSDC \in Nat /\ qusdcGasDay \in Nat /\ treasury \in Nat
          /\ qusdcGasSpentToday \in Nat /\ outside \in Nat
      BY <2>1, ChargedTodayNat DEF TypeOK
    <3>2. /\ collectedQUSDC' = collectedQUSDC + charge
          /\ treasury' = treasury + charge
          /\ qusdcGasDay' = IF charge = 0 THEN qusdcGasDay ELSE Today
          /\ qusdcGasSpentToday' = IF charge = 0 THEN qusdcGasSpentToday
                                                 ELSE ChargedToday + charge
      BY <2>1 DEF charge
    <3> QED
      BY <1>3, <2>2, <3>1, <3>2
  <2> QED
    BY <1>1, <2>1, <2>2, <2>4, <2>5, SettleType DEF TypeOK, config, budget
<1>5. ASSUME ExecuteModeAUnpaid(pending) PROVE TypeOK'
  <2>1. PICK o \in Outcomes(op) :
          /\ Settle(op, o.cost)
          /\ UNCHANGED <<config, budget, charges, token, chain, sponsoredOn>>
    BY <1>5 DEF ExecuteModeAUnpaid
  <2>2. o.cost \in 1..op.maxCost
    BY <1>1, OutcomeType
  <2> QED
    BY <1>1, <2>1, <2>2, SettleType DEF TypeOK, config, budget, charges, token, chain
<1>6. ASSUME ExecuteModeB(pending) PROVE TypeOK'
  <2>1. PICK o \in Outcomes(op) :
          /\ balance' = [balance EXCEPT ![op.sender] = LeftAfter(op, o)]
          /\ outside' = outside + SpentBy(op, o)
          /\ pair' = PairAfter(op, o)
          /\ sponsoredOpsCount' = [sponsoredOpsCount EXCEPT ![op.sender] = @ + 1]
          /\ dailyBudgetDay' = Today
          /\ dailyBudgetSpent' = SpentToday + o.cost
          /\ globalBudgetSpent' = globalBudgetSpent + o.cost
          /\ sponsoredOn' = [sponsoredOn EXCEPT ![Today] = @ + o.cost]
          /\ Settle(op, o.cost)
          /\ UNCHANGED <<config, charges, allowance, treasury, now>>
    BY <1>6 DEF ExecuteModeB
  <2>2. /\ o.cost \in 1..op.maxCost /\ SpentBy(op, o) \in Nat
        /\ LeftAfter(op, o) \in Nat
        /\ PairAfter(op, o) \in [wqie : Nat, qusdc : Nat, lastUpdate : Time]
    BY <1>1, OutcomeType
  <2>3. o.cost \in Nat
    BY <1>1, <2>2, PendingType
  <2>4. /\ balance' \in [Account -> Nat]
        /\ sponsoredOpsCount' \in [Account -> Nat]
        /\ sponsoredOn' \in [0..LastDay -> Nat]
    <3>1. balance' \in [Account -> Nat]
      BY <2>1, <2>2 DEF TypeOK
    <3>2. sponsoredOpsCount' \in [Account -> Nat]
      <4>1. sponsoredOpsCount \in [Account -> Nat]
        BY DEF TypeOK
      <4> QED
        BY <2>1, <4>1, AddToEntry
    <3>3. sponsoredOn' \in [0..LastDay -> Nat]
      <4>1. sponsoredOn \in [0..LastDay -> Nat]
        BY DEF TypeOK
      <4> QED
        BY <2>1, <2>3, <4>1, AddToEntry
    <3> QED
      BY <3>1, <3>2, <3>3
  <2>5. /\ {dailyBudgetDay', dailyBudgetSpent', globalBudgetSpent'} \subseteq Nat
        /\ outside' \in Nat
    <3>1. SpentToday \in Nat /\ globalBudgetSpent \in Nat /\ outside \in Nat
      BY SpentTodayBounds DEF TypeOK
    <3> QED
      BY <1>3, <2>1, <2>2, <2>3, <3>1
  <2> QED
    BY <1>1, <2>1, <2>2, <2>4, <2>5, SettleType DEF TypeOK, config, charges
<1> QED
  BY <1>4, <1>5, <1>6 DEF Execute

LEMMA BetweenType ==
  ASSUME TypeOK, BetweenBundles
  PROVE  TypeOK'
<1> USE DEF BetweenBundles, budget, config, charges, token, chain
<1>1. ASSUME NEW n \in 1..MaxDeposit, DepositToEntryPoint(n), UNCHANGED chain
      PROVE  TypeOK'
  <2>1. n \in Nat /\ deposit' \in Nat
    BY <1>1, PaymasterAssumption DEF DepositToEntryPoint, TypeOK
  <2> QED
    BY <1>1, <2>1 DEF DepositToEntryPoint, TypeOK
<1>2. ASSUME NEW n \in 1..MaxDeposit, WithdrawFromEntryPoint(n), UNCHANGED chain
      PROVE  TypeOK'
  <2>1. n \in Nat /\ deposit' \in Nat
    BY <1>2, PaymasterAssumption DEF WithdrawFromEntryPoint, TypeOK
  <2> QED
    BY <1>2, <2>1 DEF WithdrawFromEntryPoint, TypeOK
<1>3. ASSUME NEW n \in 1..Supply, WithdrawQUSDC(n), UNCHANGED chain
      PROVE  TypeOK'
  <2>1. n \in Nat /\ collectedQUSDC' \in Nat /\ treasury' \in Nat
    <3>1. /\ n \in Nat /\ n <= collectedQUSDC /\ n <= treasury
          /\ collectedQUSDC' = collectedQUSDC - n /\ treasury' = treasury - n
      BY <1>3, PaymasterAssumption DEF WithdrawQUSDC
    <3>2. collectedQUSDC \in Nat /\ treasury \in Nat
      BY DEF TypeOK
    <3> QED
      BY <3>1, <3>2
  <2> QED
    BY <1>3, <2>1 DEF WithdrawQUSDC, TypeOK
<1>4. ASSUME Configure, UNCHANGED chain
      PROVE  TypeOK'
  <2>1. /\ owner' \in Address /\ trustedSigner' \in Address
        /\ paused' \in BOOLEAN /\ qusdcGasEnabled' \in BOOLEAN
        /\ allowedTargets' \in SUBSET Target
        /\ gasMarkupBps' \in Markup
        /\ maxQusdcGasPerTx' \in Cap /\ dailyQusdcGasCap' \in Cap
    BY <1>4 DEF Configure, SetAllowedTarget, SetQusdcGas, SetRoles, SetPaused, TypeOK
  <2> QED
    BY <1>4, <2>1 DEF Configure, TypeOK
<1>5. ASSUME NEW a \in Holder, UserMoves(a), UNCHANGED chain
      PROVE  TypeOK'
  <2>1. /\ balance' \in [Account -> Nat] /\ allowance' \in [Account -> Nat]
        /\ outside' \in Nat
    <3>1. /\ balance \in [Account -> Nat] /\ allowance \in [Account -> Nat]
          /\ outside \in Nat /\ a \in Account /\ Supply \in Nat
      BY PaymasterAssumption DEF TypeOK
    <3>2. CASE /\ \E n \in 0..(balance[a] + outside) :
                    /\ balance' = [balance EXCEPT ![a] = n]
                    /\ outside' = outside + balance[a] - n
               /\ UNCHANGED allowance
      BY <3>1, <3>2
    <3>3. CASE /\ \E n \in 0..Supply : allowance' = [allowance EXCEPT ![a] = n]
               /\ UNCHANGED <<balance, outside>>
      BY <3>1, <3>3
    <3> QED
      BY <1>5, <3>2, <3>3 DEF UserMoves
  <2> QED
    BY <1>5, <2>1 DEF UserMoves, TypeOK
<1>6. ASSUME WorldMoves
      PROVE  TypeOK'
  <2>1. /\ pair' \in [wqie : Nat, qusdc : Nat, lastUpdate : Time]
        /\ now' \in Time
    <3>1. CASE (\E p \in Pool : pair' = PairOf(p)) /\ UNCHANGED now
      BY <3>1, PairOfType DEF TypeOK
    <3>2. CASE now < MaxTime /\ now' = now + 1 /\ UNCHANGED pair
      <4>1. /\ pair \in [wqie : Nat, qusdc : Nat, lastUpdate : Time]
            /\ now \in 0..MaxTime /\ MaxTime \in Nat
        BY PaymasterAssumption DEF TypeOK, Time
      <4>2. now' \in 0..MaxTime
        BY <3>2, <4>1
      <4> QED
        BY <3>2, <4>1, <4>2 DEF Time
    <3> QED
      BY <1>6, <3>1, <3>2 DEF WorldMoves
  <2> QED
    BY <1>6, <2>1 DEF WorldMoves, TypeOK
<1> QED
  BY <1>1, <1>2, <1>3, <1>4, <1>5, <1>6

LEMMA StutterType ==
  ASSUME TypeOK, UNCHANGED vars
  PROVE  TypeOK'
  BY DEF TypeOK, vars, config, budget, charges, token, chain, entry

LEMMA NextType ==
  ASSUME TypeOK, [Next]_vars
  PROVE  TypeOK'
<1>1. ASSUME StartExecution PROVE TypeOK'
  <2>1. bundle' = bundle /\ phase' = "executing"
    BY <1>1 DEF StartExecution
  <2> QED
    BY <1>1, <2>1 DEF StartExecution, TypeOK, config, budget, charges, token, chain
<1> QED
  BY <1>1, ValidateType, ExecuteType, BetweenType, StutterType DEF Next

\* Every reachable state is type correct.
THEOREM PaymasterTypeOK == Spec => []TypeOK
<1>1. Init => TypeOK
  BY InitType
<1>2. TypeOK /\ [Next]_vars => TypeOK'
  BY NextType
<1> QED
  BY <1>1, <1>2, PTL DEF Spec

-----------------------------------------------------------------------------
(* The budgets and the free operations *)

\* An accepted operation is not yet charged for.  If an operation of account a
\* is sponsored after the step, it was before, or it is the new one.
LEMMA AcceptSponsors ==
  ASSUME TypeOK, NEW op \in Op, NEW quoted \in Nat, Accept(op, quoted)
  PROVE  /\ Ran' = 0
         /\ \A i \in Sponsored' :
              \/ i \in Sponsored /\ Ran = 0 /\ bundle'[i] = bundle[i]
              \/ op.mode = "B" /\ bundle'[i].op = op
<1>1. /\ bundle \in Seq(Pending) /\ bundle' = Append(bundle, [op |-> op, quoted |-> quoted])
      /\ phase # "executing" /\ phase' = "validating"
      /\ phase \in {"idle", "validating", "executing"}
      /\ phase = "idle" => bundle = << >>
  BY DEF TypeOK, Accept
<1>2. Ran' = 0
  BY <1>1 DEF Ran
<1>3. ASSUME NEW i \in Sponsored'
      PROVE  \/ i \in Sponsored /\ Ran = 0 /\ bundle'[i] = bundle[i]
             \/ op.mode = "B" /\ bundle'[i].op = op
  <2>1. i \in DOMAIN bundle' /\ bundle'[i].op.mode = "B"
    BY DEF Sponsored
  <2>2. i \in 1..(Len(bundle) + 1)
    BY <1>1, <2>1
  <2>3. CASE i = Len(bundle) + 1
    BY <1>1, <2>1, <2>3
  <2>4. CASE i # Len(bundle) + 1
    <3>1. i \in 1..Len(bundle) /\ bundle'[i] = bundle[i]
      BY <1>1, <2>2, <2>4
    <3>2. i \in Sponsored
      BY <1>1, <2>1, <3>1 DEF Sponsored
    <3>3. phase = "validating"
      BY <1>1, <3>1
    <3> QED
      BY <3>1, <3>2, <3>3 DEF Ran
  <2> QED
    BY <2>3, <2>4
<1> QED
  BY <1>2, <1>3

\* One operation has run: what is still sponsored was so before.
LEMMA SettleSponsors ==
  ASSUME TypeOK, phase = "executing", bundle # << >>,
         NEW cost \in 1..Head(bundle).op.maxCost, Settle(Head(bundle).op, cost)
  PROVE  /\ Ran \in Nat /\ Ran + 1 <= BundleSize
         /\ \A i \in Sponsored' : /\ i + 1 \in Sponsored
                                  /\ bundle'[i] = bundle[i + 1]
                                  /\ Ran' = Ran + 1
<1>1. /\ bundle \in Seq(Pending) /\ BundleSize \in Nat /\ Len(bundle) <= BundleSize
      /\ Len(bundle) >= 1
  BY PaymasterAssumption DEF TypeOK
<1>2. /\ bundle' = Tail(bundle) /\ Len(bundle') = Len(bundle) - 1
      /\ bundle' \in Seq(Pending) /\ phase' \in {"idle", "executing"}
  BY SettleType DEF Settle
<1>3. Ran = BundleSize - Len(bundle) /\ Ran' = BundleSize - Len(bundle')
  BY <1>2 DEF Ran
<1>4. ASSUME NEW i \in Sponsored'
      PROVE  i + 1 \in Sponsored /\ bundle'[i] = bundle[i + 1]
  <2>1. i \in DOMAIN bundle' /\ bundle'[i].op.mode = "B"
    BY DEF Sponsored
  <2>2. i \in 1..(Len(bundle) - 1)
    BY <1>2, <2>1
  <2>3. bundle'[i] = bundle[i + 1] /\ i + 1 \in DOMAIN bundle
    BY <1>1, <1>2, <2>2
  <2> QED
    BY <2>1, <2>3 DEF Sponsored
<1>5. Ran \in Nat /\ Ran + 1 <= BundleSize /\ Ran' = Ran + 1
  <2>1. Len(bundle) \in Nat
    BY <1>1
  <2> QED
    BY <1>1, <1>2, <1>3, <2>1
<1> QED
  BY <1>4, <1>5

\* The budgets after a validation: the new operation was accepted on them.
LEMMA ValidateKeepsBudget ==
  ASSUME IInv, NEW op \in Op, ValidateModeA(op) \/ ValidateModeB(op)
  PROVE  BudgetInv' /\ FreeOpsInv' /\ BudgetOvershootBounded' /\ FreeOpsOvershootBounded'
<1>1. TypeOK /\ MaxCost \in Nat
  BY PaymasterAssumption DEF IInv
<1>2. \E quoted \in Nat : Accept(op, quoted)
  <2>1. op.maxCost \in Nat
    BY OpAssumption DEF OpType
  <2>2. QuoteQUSDC(op.maxCost) \in Nat
    BY <1>1, <2>1, QuoteNat DEF QuoteQUSDC, TypeOK
  <2> QED
    BY <2>2 DEF ValidateModeA, ValidateModeB
<1>3. /\ Ran' = 0
      /\ \A i \in Sponsored' :
           \/ i \in Sponsored /\ Ran = 0 /\ bundle'[i] = bundle[i]
           \/ op.mode = "B" /\ bundle'[i].op = op
  BY <1>1, <1>2, AcceptSponsors
<1>4. /\ dailyBudgetSpent' \in Nat /\ dailyBudgetSpent' <= dailyBudgetSpent
      /\ globalBudgetSpent' = globalBudgetSpent
      /\ sponsoredOpsCount' = sponsoredOpsCount
      /\ globalBudgetSpent \in Nat /\ dailyBudgetSpent \in Nat
  BY <1>1, SpentTodayBounds DEF ValidateModeA, ValidateModeB, budget, TypeOK
<1>5. op.mode = "B" => /\ dailyBudgetSpent' < DailyBudget
                       /\ globalBudgetSpent < GlobalBudget
                       /\ sponsoredOpsCount[op.sender] < PerAccountCap
  BY DEF ValidateModeA, ValidateModeB, ModeBValid
<1>6. 0 * MaxCost = 0 /\ BundleSize * MaxCost \in Nat /\ DailyBudget \in Nat
      /\ GlobalBudget \in Nat /\ PerAccountCap \in Nat
  BY <1>1, PaymasterAssumption, ProductNat
<1>7. BudgetInv'
  <2>1. ASSUME NEW i \in Sponsored'
        PROVE  dailyBudgetSpent' < DailyBudget /\ globalBudgetSpent < GlobalBudget
    <3>1. CASE i \in Sponsored /\ Ran = 0
      <4>1. /\ dailyBudgetSpent < DailyBudget + 0 * MaxCost
            /\ globalBudgetSpent < GlobalBudget + 0 * MaxCost
        BY <3>1 DEF IInv, BudgetInv
      <4> QED
        BY <1>4, <1>6, <4>1
    <3>2. CASE op.mode = "B"
      BY <1>5, <3>2
    <3> QED
      BY <1>3, <3>1, <3>2
  <2>2. Sponsored' # {} => /\ dailyBudgetSpent' < DailyBudget + 0 * MaxCost
                           /\ globalBudgetSpent' < GlobalBudget + 0 * MaxCost
    BY <1>4, <1>6, <2>1
  <2> QED
    BY <1>3, <2>2 DEF BudgetInv
<1>8. FreeOpsInv'
  <2>1. ASSUME NEW a \in Account, NEW i \in SponsoredFor(a)'
        PROVE  sponsoredOpsCount[a] < PerAccountCap
    <3>1. i \in Sponsored' /\ bundle'[i].op.sender = a
      BY DEF SponsoredFor
    <3>2. CASE i \in Sponsored /\ Ran = 0 /\ bundle'[i] = bundle[i]
      <4>1. SponsoredFor(a) # {}
        BY <3>1, <3>2 DEF SponsoredFor
      <4>2. sponsoredOpsCount[a] \in Nat
        BY <1>1 DEF TypeOK
      <4> QED
        BY <1>6, <3>2, <4>1, <4>2 DEF IInv, FreeOpsInv
    <3>3. CASE op.mode = "B" /\ bundle'[i].op = op
      BY <1>5, <3>1, <3>3
    <3> QED
      BY <1>3, <3>1, <3>2, <3>3
  <2>2. \A a \in Account : sponsoredOpsCount[a] \in Nat
    BY <1>1 DEF TypeOK
  <2>3. \A a \in Account : SponsoredFor(a)' # {} =>
                             sponsoredOpsCount'[a] < PerAccountCap + 0
    BY <1>4, <1>6, <2>1, <2>2
  <2> QED
    BY <1>3, <2>3 DEF FreeOpsInv
<1>9. BudgetOvershootBounded' /\ FreeOpsOvershootBounded'
  BY <1>4, <1>6 DEF IInv, BudgetOvershootBounded, FreeOpsOvershootBounded
<1> QED
  BY <1>7, <1>8, <1>9

\* The budgets after an execution: at most maxCost of the head is added, and
\* one more operation of the bundle has run.
LEMMA ExecuteKeepsBudget ==
  ASSUME IInv, Execute
  PROVE  BudgetInv' /\ FreeOpsInv' /\ BudgetOvershootBounded' /\ FreeOpsOvershootBounded'
<1> DEFINE pending == Head(bundle)
           op == pending.op
<1>1. /\ TypeOK /\ phase = "executing" /\ bundle # << >>
      /\ pending \in Pending /\ 1 \in DOMAIN bundle /\ bundle[1] = pending
  <2>1. TypeOK /\ phase = "executing" /\ bundle # << >>
    BY DEF IInv, Execute
  <2>2. bundle \in Seq(Pending)
    BY <2>1 DEF TypeOK
  <2> QED
    BY <2>1, <2>2
<1>2. PICK cost \in 1..op.maxCost :
        /\ Settle(op, cost)
        /\ \/ /\ UNCHANGED <<dailyBudgetSpent, globalBudgetSpent, sponsoredOpsCount>>
           \/ /\ op.mode = "B"
              /\ dailyBudgetSpent' = SpentToday + cost
              /\ globalBudgetSpent' = globalBudgetSpent + cost
              /\ sponsoredOpsCount' = [sponsoredOpsCount EXCEPT ![op.sender] = @ + 1]
  BY <1>1, OutcomeType DEF Execute, ExecuteModeA, ExecuteModeAUnpaid, ExecuteModeB, budget
<1>3. cost \in Nat /\ cost <= MaxCost /\ MaxCost \in Nat
  BY <1>1, <1>2, PendingType, PaymasterAssumption
<1>4. /\ Ran \in Nat /\ Ran + 1 <= BundleSize /\ BundleSize \in Nat
      /\ \A i \in Sponsored' : /\ i + 1 \in Sponsored
                               /\ bundle'[i] = bundle[i + 1]
                               /\ Ran' = Ran + 1
  BY <1>1, <1>2, SettleSponsors, PaymasterAssumption
<1>5. /\ dailyBudgetSpent \in Nat /\ globalBudgetSpent \in Nat
      /\ SpentToday \in Nat /\ SpentToday <= dailyBudgetSpent
      /\ sponsoredOpsCount \in [Account -> Nat]
  BY <1>1, SpentTodayBounds DEF TypeOK
<1>6. /\ Ran * MaxCost \in Nat /\ (Ran + 1) * MaxCost = Ran * MaxCost + MaxCost
      /\ BundleSize * MaxCost \in Nat
      /\ (Ran + 1) * MaxCost <= BundleSize * MaxCost
      /\ DailyBudget \in Nat /\ GlobalBudget \in Nat /\ PerAccountCap \in Nat
  BY <1>3, <1>4, ProductNat, OneMore, ProductMonotone, PaymasterAssumption
<1>7. op.mode = "B" => 1 \in SponsoredFor(op.sender) /\ 1 \in Sponsored
  BY <1>1 DEF Sponsored, SponsoredFor
<1>8. Sponsored # {} =>
        /\ dailyBudgetSpent' < DailyBudget + (Ran + 1) * MaxCost
        /\ globalBudgetSpent' < GlobalBudget + (Ran + 1) * MaxCost
  <2>1. ASSUME Sponsored # {}
        PROVE  /\ dailyBudgetSpent < DailyBudget + Ran * MaxCost
               /\ globalBudgetSpent < GlobalBudget + Ran * MaxCost
    BY <2>1 DEF IInv, BudgetInv
  <2> QED
    BY <1>2, <1>3, <1>5, <1>6, <2>1
<1>9. BudgetInv'
  BY <1>4, <1>8 DEF BudgetInv
<1>10. BudgetOvershootBounded'
  <2>1. CASE op.mode = "B"
    <3>1. /\ dailyBudgetSpent' < DailyBudget + (Ran + 1) * MaxCost
          /\ globalBudgetSpent' < GlobalBudget + (Ran + 1) * MaxCost
      BY <1>7, <1>8, <2>1
    <3>2. dailyBudgetSpent' \in Nat /\ globalBudgetSpent' \in Nat
      BY <1>2, <1>3, <1>5
    <3>3. (Ran + 1) * MaxCost \in Nat
      BY <1>3, <1>6
    <3> QED
      BY <1>6, <3>1, <3>2, <3>3 DEF BudgetOvershootBounded
  <2>2. CASE op.mode # "B"
    BY <1>2, <2>2 DEF IInv, BudgetOvershootBounded
  <2> QED
    BY <2>1, <2>2
<1>11. ASSUME NEW a \in Account
       PROVE  /\ SponsoredFor(a) # {} => sponsoredOpsCount'[a] < PerAccountCap + Ran + 1
              /\ sponsoredOpsCount'[a] < PerAccountCap + BundleSize
  <2>1. SponsoredFor(a) # {} => sponsoredOpsCount[a] < PerAccountCap + Ran
    BY DEF IInv, FreeOpsInv
  <2>2. sponsoredOpsCount[a] < PerAccountCap + BundleSize
    BY DEF IInv, FreeOpsOvershootBounded
  <2>3. CASE op.mode = "B" /\ op.sender = a /\ sponsoredOpsCount'[a] = sponsoredOpsCount[a] + 1
    <3>1. sponsoredOpsCount[a] \in Nat
      BY <1>5
    <3> QED
      BY <1>4, <1>6, <1>7, <2>1, <2>3, <3>1
  <2>4. CASE sponsoredOpsCount'[a] = sponsoredOpsCount[a]
    <3>1. sponsoredOpsCount[a] \in Nat
      BY <1>5
    <3> QED
      BY <1>4, <1>6, <2>1, <2>2, <2>4, <3>1
  <2> QED
    BY <1>2, <1>5, <2>3, <2>4
<1>12. FreeOpsInv'
  <2>1. ASSUME NEW a \in Account, SponsoredFor(a)' # {}
        PROVE  SponsoredFor(a) # {} /\ Ran' = Ran + 1
    <3>1. PICK i : i \in Sponsored' /\ bundle'[i].op.sender = a
      BY <2>1 DEF SponsoredFor
    <3>2. i + 1 \in SponsoredFor(a)
      BY <1>4, <3>1 DEF SponsoredFor
    <3> QED
      BY <1>4, <3>1, <3>2
  <2>2. ASSUME NEW a \in Account, SponsoredFor(a)' # {}
        PROVE  sponsoredOpsCount'[a] < PerAccountCap + Ran'
    <3>1. sponsoredOpsCount'[a] < PerAccountCap + Ran + 1 /\ Ran' = Ran + 1
      BY <1>11, <2>1, <2>2
    <3> QED
      BY <1>4, <1>6, <3>1
  <2> QED
    BY <2>2 DEF FreeOpsInv
<1>13. FreeOpsOvershootBounded'
  BY <1>11 DEF FreeOpsOvershootBounded
<1> QED
  BY <1>9, <1>10, <1>12, <1>13

LEMMA NextIInv ==
  ASSUME IInv, [Next]_vars
  PROVE  IInv'
<1>1. TypeOK'
  BY NextType DEF IInv
<1>2. ASSUME UNCHANGED <<budget, phase, bundle>>
      PROVE  BudgetInv' /\ FreeOpsInv' /\ BudgetOvershootBounded' /\ FreeOpsOvershootBounded'
  BY <1>2 DEF IInv, BudgetInv, FreeOpsInv, BudgetOvershootBounded,
              FreeOpsOvershootBounded, budget, Sponsored, SponsoredFor, Ran
<1>3. ASSUME StartExecution
      PROVE  BudgetInv' /\ FreeOpsInv' /\ BudgetOvershootBounded' /\ FreeOpsOvershootBounded'
  <2>1. /\ UNCHANGED <<budget, bundle>> /\ Ran = 0 /\ Ran' \in Nat
        /\ bundle \in Seq(Pending) /\ Len(bundle) <= BundleSize
    BY <1>3, PaymasterAssumption DEF IInv, TypeOK, StartExecution, Ran
  <2>2. 0 * MaxCost <= Ran' * MaxCost /\ 0 * MaxCost = 0 /\ Ran' * MaxCost \in Nat
    <3>1. MaxCost \in Nat
      BY PaymasterAssumption
    <3>2. Ran' * MaxCost \in Nat
      BY <2>1, <3>1, ProductNat
    <3> QED
      BY <3>1, <3>2
  <2>3. /\ {dailyBudgetSpent, globalBudgetSpent} \subseteq Nat
        /\ sponsoredOpsCount \in [Account -> Nat]
        /\ {DailyBudget, GlobalBudget, PerAccountCap} \subseteq Nat
    BY PaymasterAssumption DEF IInv, TypeOK
  <2>4. BudgetInv'
    <3>1. Sponsored' = Sponsored
      BY <2>1 DEF Sponsored
    <3> QED
      BY <2>1, <2>2, <2>3, <3>1 DEF IInv, BudgetInv, budget
  <2>5. FreeOpsInv'
    <3>1. \A a : SponsoredFor(a)' = SponsoredFor(a)
      BY <2>1 DEF Sponsored, SponsoredFor
    <3> QED
      BY <2>1, <2>3, <3>1 DEF IInv, FreeOpsInv, budget
  <2>6. BudgetOvershootBounded' /\ FreeOpsOvershootBounded'
    BY <2>1 DEF IInv, BudgetOvershootBounded, FreeOpsOvershootBounded, budget
  <2> QED
    BY <2>4, <2>5, <2>6
<1>4. CASE BetweenBundles
  BY <1>1, <1>2, <1>4 DEF BetweenBundles, IInv
<1>5. CASE UNCHANGED vars
  BY <1>1, <1>2, <1>5 DEF vars, entry, IInv
<1> QED
  BY <1>1, <1>3, <1>4, <1>5, ValidateKeepsBudget, ExecuteKeepsBudget DEF Next, IInv

LEMMA InitIInv == Init => IInv
<1> SUFFICES ASSUME Init PROVE IInv
  OBVIOUS
<1>1. Sponsored = {} /\ \A a \in Account : SponsoredFor(a) = {}
  BY DEF Init, Sponsored, SponsoredFor
<1>2. BundleSize * MaxCost \in Nat /\ BundleSize \in Nat
      /\ {DailyBudget, GlobalBudget, PerAccountCap} \subseteq Nat \ {0}
  BY ProductNat, PaymasterAssumption
<1> QED
  BY <1>1, <1>2, InitType
  DEF Init, IInv, BudgetInv, FreeOpsInv, BudgetOvershootBounded, FreeOpsOvershootBounded

LEMMA IInvHolds == Spec => []IInv
  BY InitIInv, NextIInv, PTL DEF Spec

\* Whatever the bundles, the sponsored gas passes the daily and the global
\* budget by less than one full bundle.
THEOREM BudgetOvershoot == Spec => []BudgetOvershootBounded
<1>1. IInv => BudgetOvershootBounded
  BY DEF IInv
<1> QED
  BY <1>1, IInvHolds, PTL

\* No account is ever sponsored for more than its lifetime cap and the rest of
\* one bundle.
THEOREM FreeOpsOvershoot == Spec => []FreeOpsOvershootBounded
<1>1. IInv => FreeOpsOvershootBounded
  BY DEF IInv
<1> QED
  BY <1>1, IInvHolds, PTL

\* All of Mode B's limits together: none is hard, and each is overshot by less
\* than what one bundle of the largest size can add.
THEOREM ModeBOvershoot == Spec => []ModeBOvershootBounded
<1>1. BudgetOvershootBounded /\ FreeOpsOvershootBounded => ModeBOvershootBounded
  BY DEF ModeBOvershootBounded
<1> QED
  BY <1>1, BudgetOvershoot, FreeOpsOvershoot, PTL

-----------------------------------------------------------------------------
(* The QUSDC charged for gas *)

\* The only step that adds to the treasury is the postOp of a Mode A operation.
LEMMA TreasuryStep ==
  ASSUME TypeOK, [Next]_vars
  PROVE  \/ UNCHANGED <<treasury, collectedQUSDC>>
         \/ \E n \in Nat \ {0} : /\ n <= collectedQUSDC
                                /\ treasury' = treasury - n
                                /\ collectedQUSDC' = collectedQUSDC - n
         \/ /\ phase = "executing" /\ bundle # << >>
            /\ Head(bundle).op.mode = "A"
            /\ \E charge \in Nat :
                 /\ charge <= Head(bundle).quoted
                 /\ treasury' = treasury + charge
                 /\ collectedQUSDC' = collectedQUSDC + charge
                 /\ allowance' = [allowance EXCEPT ![Head(bundle).op.sender] = @ - charge]
<1> USE DEF token, charges
<1>1. ASSUME Execute, ExecuteModeA(Head(bundle)), Head(bundle).op.mode = "A"
      PROVE  /\ phase = "executing" /\ bundle # << >>
             /\ Head(bundle).op.mode = "A"
             /\ \E charge \in Nat :
                  /\ charge <= Head(bundle).quoted
                  /\ treasury' = treasury + charge
                  /\ collectedQUSDC' = collectedQUSDC + charge
                  /\ allowance' = [allowance EXCEPT ![Head(bundle).op.sender] = @ - charge]
  <2>1. phase = "executing" /\ bundle # << >> /\ Head(bundle) \in Pending
    BY <1>1 DEF Execute, TypeOK
  <2>2. PICK o \in Outcomes(Head(bundle).op) :
          /\ treasury' = treasury + ChargeOf(Head(bundle), o)
          /\ collectedQUSDC' = collectedQUSDC + ChargeOf(Head(bundle), o)
          /\ allowance' = [allowance EXCEPT ![Head(bundle).op.sender] =
                                         @ - ChargeOf(Head(bundle), o)]
    BY <1>1 DEF ExecuteModeA
  <2>3. ChargeOf(Head(bundle), o) \in Nat
    BY <2>1, OutcomeType
  <2>4. ChargeOf(Head(bundle), o) <= Head(bundle).quoted
    <3>1. Head(bundle).quoted \in Nat
      BY <2>1, PendingType
    <3>2. \/ ChargeOf(Head(bundle), o) = Head(bundle).quoted
          \/ /\ ChargeOf(Head(bundle), o) = QuoteAt(PairAfter(Head(bundle).op, o), o.cost)
             /\ ~ QuoteAt(PairAfter(Head(bundle).op, o), o.cost) > Head(bundle).quoted
      BY DEF ChargeOf
    <3> QED
      BY <2>3, <3>1, <3>2
  <2> QED
    BY <1>1, <2>1, <2>2, <2>3, <2>4
<1>2. ASSUME Execute, ~ (ExecuteModeA(Head(bundle)) /\ Head(bundle).op.mode = "A")
      PROVE  UNCHANGED <<treasury, collectedQUSDC>>
  BY <1>2 DEF Execute, ExecuteModeAUnpaid, ExecuteModeB
<1>3. ASSUME NEW n \in 1..Supply, WithdrawQUSDC(n)
      PROVE  n \in Nat \ {0} /\ n <= collectedQUSDC /\ treasury' = treasury - n
             /\ collectedQUSDC' = collectedQUSDC - n
  BY <1>3, PaymasterAssumption DEF WithdrawQUSDC
<1>4. CASE BetweenBundles
  BY <1>3, <1>4 DEF BetweenBundles, DepositToEntryPoint, WithdrawFromEntryPoint,
                    Configure, UserMoves, WorldMoves
<1>5. ASSUME NEW op \in Op, ValidateModeA(op) \/ ValidateModeB(op)
      PROVE  UNCHANGED <<treasury, collectedQUSDC>>
  BY <1>5 DEF ValidateModeA, ValidateModeB
<1>6. StartExecution \/ UNCHANGED vars => UNCHANGED <<treasury, collectedQUSDC>>
  BY DEF StartExecution, vars
<1> QED
  BY <1>1, <1>2, <1>4, <1>5, <1>6 DEF Next

\* The QUSDC the owner may withdraw is there.
THEOREM CollectedBacked == Spec => []CollectedIsBacked
<1>1. Init => TypeOK /\ CollectedIsBacked
  BY InitType DEF Init, CollectedIsBacked
<1>2. TypeOK /\ CollectedIsBacked /\ [Next]_vars => (TypeOK /\ CollectedIsBacked)'
  <2> SUFFICES ASSUME TypeOK, CollectedIsBacked, [Next]_vars
               PROVE  TypeOK' /\ CollectedIsBacked'
    OBVIOUS
  <2>1. TypeOK'
    BY NextType
  <2>2. treasury \in Nat /\ collectedQUSDC \in Nat /\ collectedQUSDC <= treasury
    BY DEF TypeOK, CollectedIsBacked
  <2>3. collectedQUSDC' <= treasury'
    BY <2>2, TreasuryStep
  <2> QED
    BY <2>1, <2>3 DEF CollectedIsBacked
<1> QED
  BY <1>1, <1>2, PTL DEF Spec

\* Gas never costs an account more QUSDC than its quote at validation, whatever
\* the price does until postOp.
THEOREM ChargesWithinQuote == Spec => ChargeWithinQuote
<1>1. TypeOK /\ [Next]_vars =>
        [treasury' > treasury =>
           LET pending == Head(bundle)
               charge == treasury' - treasury IN
           /\ pending.op.mode = "A"
           /\ charge <= pending.quoted
           /\ allowance' = [allowance EXCEPT ![pending.op.sender] = @ - charge]
           /\ collectedQUSDC' = collectedQUSDC + charge]_vars
  <2> SUFFICES ASSUME TypeOK, [Next]_vars, treasury' > treasury
               PROVE  LET pending == Head(bundle)
                          charge == treasury' - treasury IN
                      /\ pending.op.mode = "A"
                      /\ charge <= pending.quoted
                      /\ allowance' = [allowance EXCEPT ![pending.op.sender] = @ - charge]
                      /\ collectedQUSDC' = collectedQUSDC + charge
    OBVIOUS
  <2>1. treasury \in Nat
    BY DEF TypeOK
  <2>2. ASSUME NEW n \in Nat \ {0}, treasury' = treasury - n PROVE FALSE
    BY <2>1, <2>2
  <2>3. treasury' # treasury
    BY <2>1
  <2>4. PICK charge \in Nat :
          /\ Head(bundle).op.mode = "A"
          /\ charge <= Head(bundle).quoted
          /\ treasury' = treasury + charge
          /\ collectedQUSDC' = collectedQUSDC + charge
          /\ allowance' = [allowance EXCEPT ![Head(bundle).op.sender] = @ - charge]
    BY <2>2, <2>3, TreasuryStep
  <2>5. treasury' - treasury = charge
    BY <2>1, <2>4
  <2> QED
    BY <2>4, <2>5
<1> QED
  BY <1>1, PaymasterTypeOK, PTL DEF Spec, ChargeWithinQuote

-----------------------------------------------------------------------------
(* The counters of the budgets *)

\* A later time is not on an earlier day.
LEMMA QuotientMonotone ==
  ASSUME NEW m \in Nat, NEW n \in Nat, m <= n, NEW k \in Nat \ {0}
  PROVE  m \div k <= n \div k
<1>. DEFINE p == m \div k
            q == n \div k
<1>1. p \in Nat /\ q \in Nat /\ k * p <= m /\ n < k * q + k
  OBVIOUS
<1>. HIDE DEF p, q
<1>2. SUFFICES ASSUME p >= q + 1 PROVE FALSE
  BY <1>1 DEF p, q
<1>3. k * p >= k * (q + 1)
  BY <1>1, <1>2
<1>4. k * (q + 1) = k * q + k
  BY <1>1
<1>5. k * p \in Nat /\ k * q \in Nat
  BY <1>1
<1>. QED
  BY <1>1, <1>3, <1>4, <1>5

\* Every time falls on one of the days that are counted.
LEMMA DayInRange ==
  ASSUME NEW t \in Time
  PROVE  LastDay \in Nat /\ t \div DayLength \in 0..LastDay
<1>1. t \in Nat /\ MaxTime \in Nat /\ t <= MaxTime /\ DayLength \in Nat \ {0}
  BY PaymasterAssumption DEF Time
<1>. QED
  BY <1>1, QuotientMonotone, QuotientNat DEF LastDay

LEMMA TodayInRange ==
  ASSUME TypeOK
  PROVE  LastDay \in Nat /\ Today \in 0..LastDay
BY DayInRange DEF TypeOK, Today

\* The model's sum is the sum of SumTheorems.
LEMMA SumOfDaysIsTotal ==
  ASSUME NEW f, NEW S, NEW T, f \in [S -> T]
  PROVE  SumOfDays(f) = Total(f, S)
<1>1. DOMAIN f = S
  OBVIOUS
<1>2. SumOfDays(f) = Total(f, DOMAIN f)
  BY DEF SumOfDays, Total, FoldFunction
<1>. QED
  BY <1>1, <1>2

\* The day of the counter is never ahead of the clock: a day that is to come has
\* no spend, so it may start from zero.
TruthInv ==
  /\ TypeOK
  /\ dailyBudgetDay <= Today
  /\ BudgetsTellTheTruth

\* What the counter says of today is what was sponsored today, also when it was
\* last reset on an earlier day.
LEMMA TruthDay ==
  ASSUME TruthInv
  PROVE  /\ LastDay \in Nat /\ Today \in 0..LastDay /\ dailyBudgetDay \in 0..LastDay
         /\ DOMAIN sponsoredOn = 0..LastDay
         /\ \A d \in 0..LastDay : sponsoredOn[d] \in Nat
         /\ sponsoredOn[Today] = SpentToday
<1>1. LastDay \in Nat /\ Today \in 0..LastDay /\ dailyBudgetDay \in Nat /\ dailyBudgetDay <= Today
  BY TodayInRange DEF TruthInv, TypeOK
<1>2. dailyBudgetDay \in 0..LastDay
  BY <1>1
<1>3. DOMAIN sponsoredOn = 0..LastDay /\ \A d \in 0..LastDay : sponsoredOn[d] \in Nat
  BY DEF TruthInv, TypeOK
<1>4. sponsoredOn[Today] = SpentToday
  <2>1. CASE Today = dailyBudgetDay
    BY <2>1 DEF TruthInv, BudgetsTellTheTruth, SpentToday
  <2>2. CASE Today # dailyBudgetDay
    <3>1. Today > dailyBudgetDay
      BY <1>1, <2>2
    <3>. QED
      BY <1>1, <1>3, <2>2, <3>1 DEF TruthInv, BudgetsTellTheTruth, SpentToday
  <2>. QED
    BY <2>1, <2>2
<1>. QED
  BY <1>1, <1>2, <1>3, <1>4

LEMMA TruthInit == Init => TruthInv
<1>. SUFFICES ASSUME Init PROVE TruthInv
  OBVIOUS
<1>1. TypeOK
  BY InitType
<1>2. LastDay \in Nat /\ Today \in 0..LastDay /\ dailyBudgetDay = Today
  BY <1>1, TodayInRange DEF Init
<1>3. /\ sponsoredOn = [d \in 0..LastDay |-> 0]
      /\ dailyBudgetSpent = 0 /\ globalBudgetSpent = 0
  BY DEF Init
<1>4. SumOfDays(sponsoredOn) = 0
  <2>1. IsFiniteSet(0..LastDay)
    BY <1>2, FS_Interval
  <2>2. Total(sponsoredOn, 0..LastDay) = 0
    BY <1>3, <2>1, TotalZero
  <2>3. SumOfDays(sponsoredOn) = Total(sponsoredOn, 0..LastDay)
    BY <1>1, SumOfDaysIsTotal DEF TypeOK
  <2>. QED
    BY <2>2, <2>3
<1>5. BudgetsTellTheTruth
  BY <1>2, <1>3, <1>4 DEF BudgetsTellTheTruth
<1>. QED
  BY <1>1, <1>2, <1>5 DEF TruthInv

LEMMA TruthStep == TruthInv /\ [Next]_vars => TruthInv'
<1>. SUFFICES ASSUME TruthInv, [Next]_vars PROVE TruthInv'
  OBVIOUS
<1>1. TypeOK'
  BY NextType DEF TruthInv
<1>2. /\ LastDay \in Nat /\ Today \in 0..LastDay /\ dailyBudgetDay \in 0..LastDay
      /\ dailyBudgetDay <= Today
      /\ DOMAIN sponsoredOn = 0..LastDay
      /\ \A d \in 0..LastDay : sponsoredOn[d] \in Nat
      /\ sponsoredOn[Today] = SpentToday
  BY TruthDay DEF TruthInv
<1>3. Today' \in 0..LastDay
  BY <1>1, DayInRange DEF TypeOK, Today
<1>4. now' >= now => Today' >= Today
  <2>1. now \in Nat /\ now' \in Nat /\ DayLength \in Nat \ {0}
    BY <1>1, PaymasterAssumption DEF TruthInv, TypeOK, Time
  <2>. QED
    BY <2>1, QuotientMonotone DEF Today
<1>5. ASSUME UNCHANGED <<budget, sponsoredOn>>, now' >= now
      PROVE  TruthInv'
  BY <1>1, <1>2, <1>3, <1>4, <1>5 DEF TruthInv, BudgetsTellTheTruth, budget
<1>6. ASSUME NEW op \in Op, ValidateModeB(op)
      PROVE  TruthInv'
  <2>1. /\ dailyBudgetDay' = Today /\ dailyBudgetSpent' = SpentToday
        /\ Today' = Today
        /\ globalBudgetSpent' = globalBudgetSpent /\ sponsoredOn' = sponsoredOn
    BY <1>6 DEF ValidateModeB, chain, Today
  <2>2. \A d \in 0..LastDay : d > Today => sponsoredOn[d] = 0
    BY <1>2 DEF TruthInv, BudgetsTellTheTruth
  <2>3. SumOfDays(sponsoredOn) = globalBudgetSpent
    BY DEF TruthInv, BudgetsTellTheTruth
  <2>. QED
    BY <1>1, <1>2, <2>1, <2>2, <2>3 DEF TruthInv, BudgetsTellTheTruth
<1>7. ASSUME Execute, ExecuteModeB(Head(bundle))
      PROVE  TruthInv'
  <2>1. Head(bundle) \in Pending
    BY <1>7 DEF TruthInv, TypeOK, Execute
  <2>2. PICK cost \in 1..Head(bundle).op.maxCost :
          /\ dailyBudgetDay' = Today /\ dailyBudgetSpent' = SpentToday + cost
          /\ globalBudgetSpent' = globalBudgetSpent + cost
          /\ sponsoredOn' = [sponsoredOn EXCEPT ![Today] = @ + cost]
          /\ now' = now
    BY <1>7 DEF ExecuteModeB, Outcomes
  <2>3. cost \in Nat
    BY <2>1, <2>2 DEF Pending, OpType
  <2>4. Today' = Today
    BY <2>2 DEF Today
  <2>5. sponsoredOn'[Today] = sponsoredOn[Today] + cost
    BY <1>2, <2>2
  <2>6. \A d \in 0..LastDay : d # Today => sponsoredOn'[d] = sponsoredOn[d]
    BY <1>2, <2>2
  <2>7. SumOfDays(sponsoredOn)' = SumOfDays(sponsoredOn) + cost
    <3>1. IsFiniteSet(0..LastDay) /\ cost \in Int /\ \A d \in 0..LastDay : sponsoredOn[d] \in Int
      BY <1>2, <2>3, FS_Interval
    <3>2. Total(sponsoredOn', 0..LastDay) = Total(sponsoredOn, 0..LastDay) + cost
      <4>1. PICK f, g, t, S : f = sponsoredOn /\ g = sponsoredOn' /\ t = Today /\ S = 0..LastDay
        OBVIOUS
      <4>2. IsFiniteSet(S) /\ t \in S
        BY <1>2, <3>1, <4>1
      <4>3. /\ \A d \in S : f[d] \in Int
            /\ \A d \in S : d # t => g[d] = f[d]
            /\ g[t] = f[t] + cost
        BY <2>5, <2>6, <3>1, <4>1
      <4>4. Total(g, S) = Total(f, S) + cost
        BY <3>1, <4>2, <4>3, TotalRaised
      <4>. QED
        BY <4>1, <4>4
    <3>3. /\ SumOfDays(sponsoredOn) = Total(sponsoredOn, 0..LastDay)
          /\ SumOfDays(sponsoredOn') = Total(sponsoredOn', 0..LastDay)
      BY <1>1, SumOfDaysIsTotal DEF TruthInv, TypeOK
    <3>4. SumOfDays(sponsoredOn)' = SumOfDays(sponsoredOn')
      OBVIOUS
    <3>. QED
      BY <3>2, <3>3, <3>4
  <2>8. \A d \in 0..LastDay : d > Today => sponsoredOn'[d] = 0
    BY <1>2, <2>6, SMTT(30) DEF TruthInv, BudgetsTellTheTruth
  <2>9. DOMAIN sponsoredOn' = 0..LastDay
    BY <1>2, <2>2
  <2>10. SumOfDays(sponsoredOn)' = globalBudgetSpent'
    BY <2>2, <2>7 DEF TruthInv, BudgetsTellTheTruth
  <2>11. sponsoredOn'[dailyBudgetDay'] = dailyBudgetSpent'
    BY <1>2, <2>2, <2>5
  <2>12. (\A d \in DOMAIN sponsoredOn : d > dailyBudgetDay => sponsoredOn[d] = 0)'
    BY <2>2, <2>8, <2>9
  <2>13. dailyBudgetDay' <= Today'
    BY <1>2, <2>2, <2>4
  <2>. QED
    BY <1>1, <2>10, <2>11, <2>12, <2>13 DEF TruthInv, BudgetsTellTheTruth
<1>8. now \in Nat
  BY DEF TruthInv, TypeOK, Time
<1>9. CASE BetweenBundles
  <2>1. UNCHANGED <<budget, sponsoredOn>> /\ now' >= now
    BY <1>8, <1>9 DEF BetweenBundles, WorldMoves, chain
  <2>. QED
    BY <1>5, <2>1
<1>10. ASSUME NEW op \in Op, ValidateModeA(op)
       PROVE  TruthInv'
  BY <1>5, <1>8, <1>10 DEF ValidateModeA, chain
<1>11. ASSUME StartExecution PROVE TruthInv'
  BY <1>5, <1>8, <1>11 DEF StartExecution, chain
<1>12. ASSUME ExecuteModeA(Head(bundle)) \/ ExecuteModeAUnpaid(Head(bundle)) PROVE TruthInv'
  BY <1>5, <1>8, <1>12 DEF ExecuteModeA, ExecuteModeAUnpaid, chain
<1>13. CASE Execute
  BY <1>7, <1>12, <1>13 DEF Execute
<1>14. CASE UNCHANGED vars
  BY <1>5, <1>8, <1>14 DEF vars, chain
<1>. QED
  BY <1>6, <1>9, <1>10, <1>11, <1>13, <1>14 DEF Next

\* dailyBudgetSpent is the gas sponsored on the day it stands for, no later day
\* has any yet, and globalBudgetSpent is the gas of all days, whichever of
\* validation and postOp resets the day and however many days pass between them
\* (_refreshDailyBudget, _postOpModeB).
THEOREM BudgetsTrue == Spec => []BudgetsTellTheTruth
<1>1. TruthInv => BudgetsTellTheTruth
  BY DEF TruthInv
<1>. QED
  BY TruthInit, TruthStep, <1>1, PTL DEF Spec
-----------------------------------------------------------------------------
(***************************************************************************)
(* Routes.  The clients ask the paymaster for a quote of one cost; the     *)
(* price of gas in QUSDC grows with the cost, so what holds for the cost   *)
(* that was quoted holds for every smaller one.                            *)
(***************************************************************************)
LEMMA QuoteMonotone ==
  ASSUME TypeOK, NEW c \in Nat, NEW d \in Nat, c <= d
  PROVE  /\ QuoteQUSDC(c) \in Nat /\ QuoteQUSDC(d) \in Nat
         /\ QuoteQUSDC(c) <= QuoteQUSDC(d)
<1>1. pair \in [wqie : Nat, qusdc : Nat, lastUpdate : Time] /\ pair.wqie \in Nat /\ pair.qusdc \in Nat
  BY DEF TypeOK
<1>2. QuoteQUSDC(c) \in Nat /\ QuoteQUSDC(d) \in Nat
  BY <1>1, QuoteNat DEF QuoteQUSDC
<1>3. CASE pair.wqie = 0
  BY <1>2, <1>3 DEF QuoteQUSDC, QuoteAt
<1>4. CASE pair.wqie # 0
  <2>1. gasMarkupBps \in Nat /\ BpsDenominator \in Nat \ {0}
    BY PaymasterAssumption DEF TypeOK
  <2>2. PICK rate \in Nat : rate = BpsDenominator + gasMarkupBps
    BY <2>1
  <2>3. PICK depth \in Nat \ {0} : depth = pair.wqie * BpsDenominator
    BY <1>1, <1>4, <2>1, ProductNonzero
  <2>4. c * pair.qusdc \in Nat /\ d * pair.qusdc \in Nat /\ c * pair.qusdc <= d * pair.qusdc
    BY <1>1, ProductNat, ProductMonotone
  <2>5. PICK x \in Nat, y \in Nat : x = c * pair.qusdc /\ y = d * pair.qusdc /\ x <= y
    BY <2>4
  <2>6. x * rate \in Nat /\ y * rate \in Nat /\ x * rate <= y * rate
    BY <2>5, ProductNat, ProductMonotone
  <2>7. (x * rate) \div depth <= (y * rate) \div depth
    BY <2>6, QuotientMonotone
  <2>8. QuoteQUSDC(c) = (x * rate) \div depth /\ QuoteQUSDC(d) = (y * rate) \div depth
    BY <1>4, <2>2, <2>3, <2>5 DEF QuoteQUSDC, QuoteAt
  <2>. QED
    BY <1>2, <2>7, <2>8
<1>. QED
  BY <1>3, <1>4

LEMMA AvailableMonotone ==
  ASSUME TypeOK, NEW a \in Account, NEW c \in Nat, NEW d \in Nat, c <= d, QusdcGasAvailable(a, d)
  PROVE  QusdcGasAvailable(a, c)
<1>1. PICK m \in Nat, n \in Nat : m = QuoteQUSDC(c) /\ n = QuoteQUSDC(d) /\ m <= n
  BY QuoteMonotone
<1>2. balance[a] \in Nat /\ allowance[a] \in Nat /\ ChargedToday \in Nat
  BY ChargedTodayNat DEF TypeOK
<1>3. maxQusdcGasPerTx \in Nat /\ dailyQusdcGasCap \in Nat
  BY PaymasterAssumption DEF TypeOK
<1>4. WithinQusdcCaps(n)
  BY <1>1 DEF QusdcGasAvailable
<1>5. WithinQusdcCaps(m)
  BY <1>1, <1>2, <1>3, <1>4 DEF WithinQusdcCaps
<1>6. balance[a] >= n /\ allowance[a] >= n /\ qusdcGasEnabled /\ PriceUsable
  BY <1>1 DEF QusdcGasAvailable
<1>7. balance[a] >= m /\ allowance[a] >= m
  BY <1>1, <1>2, <1>6
<1>. QED
  BY <1>1, <1>5, <1>6, <1>7 DEF QusdcGasAvailable

\* Validation in Mode A asks what the view answers, for calls that are allowed.
LEMMA ModeAIsAvailability ==
  ASSUME NEW op, CallAllowed(op)
  PROVE  ModeAValid(op) <=> QusdcGasAvailable(op.sender, op.maxCost)
BY DEF ModeAValid, QusdcGasAvailable

LEMMA FreeOps ==
  ASSUME TypeOK, NEW a \in Account
  PROVE  /\ RemainingFreeOps(a) \in Nat
         /\ RemainingFreeOps(a) > 0 <=> sponsoredOpsCount[a] < PerAccountCap
<1>1. sponsoredOpsCount[a] \in Nat /\ PerAccountCap \in Nat
  BY PaymasterAssumption DEF TypeOK
<1>. QED
  BY <1>1 DEF RemainingFreeOps

\* A listed account gets a token the paymaster takes, and no other gets one.
LEMMA TokenOfListed ==
  ASSUME TypeOK, NEW a \in Account, NEW listed
  PROVE  /\ AllowlistToken(a, listed) # NoToken <=> a \in listed
         /\ a \in listed => /\ AllowlistToken(a, listed).expiry >= now
                            /\ AllowlistToken(a, listed).expiry <= now + MaxExpiryWindow
                            /\ AllowlistToken(a, listed).signer = ServiceKey
<1>1. now \in Nat
  BY PaymasterAssumption DEF TypeOK, Time
<1>2. TokenLife \in Nat \ {0} /\ MaxExpiryWindow \in Nat /\ TokenLife <= MaxExpiryWindow
  BY PaymasterAssumption, GasRouteAssumption DEF PaymasterAssumption, GasRouteAssumption
<1>3. PICK e \in Nat : e = now + TokenLife /\ e # 0 /\ e >= now /\ e <= now + MaxExpiryWindow
  BY <1>1, <1>2
<1>4. CASE a \in listed
  <2>1. AllowlistToken(a, listed) = [expiry |-> e, signer |-> ServiceKey]
    BY <1>3, <1>4 DEF AllowlistToken
  <2>2. AllowlistToken(a, listed).expiry = e /\ AllowlistToken(a, listed).signer = ServiceKey
    BY <2>1
  <2>3. NoToken.expiry = 0
    BY DEF NoToken
  <2>. QED
    BY <1>3, <1>4, <2>2, <2>3
<1>5. CASE a \notin listed
  BY <1>5 DEF AllowlistToken
<1>. QED
  BY <1>4, <1>5

\* Whatever the network's price, an operation is built for at least the cost
\* that account.quoteGas shows, and that one is at least the cost of the quote a
\* route is chosen by.
LEMMA BuiltCostBounds ==
  ASSUME NEW gasPrice \in GasPrice
  PROVE  /\ BuiltCost(GasUnits, gasPrice) \in Nat
         /\ GasUnits * FeeFloor \in Nat
         /\ QuoteCost \in Nat
         /\ QuoteCost <= GasUnits * FeeFloor
         /\ GasUnits * FeeFloor <= BuiltCost(GasUnits, gasPrice)
<1>1. /\ gasPrice \in Nat /\ FeeFloor \in Nat /\ GasUnits \in Nat /\ QuoteCost \in Nat
      /\ QuoteCost <= GasUnits * FeeFloor
  BY GasRouteAssumption DEF GasRouteAssumption
<1>2. gasPrice \div 4 \in Nat
  BY <1>1
<1>3. PICK fee \in Nat : fee = MaxFee(gasPrice) /\ FeeFloor <= fee
  BY <1>1, <1>2 DEF MaxFee
<1>4. /\ FeeFloor * GasUnits \in Nat /\ fee * GasUnits \in Nat
      /\ FeeFloor * GasUnits <= fee * GasUnits
  BY <1>1, <1>3, ProductNat, ProductMonotone
<1>5. FeeFloor * GasUnits = GasUnits * FeeFloor /\ fee * GasUnits = GasUnits * fee
  BY <1>1, <1>3
<1>6. BuiltCost(GasUnits, gasPrice) = GasUnits * fee
  BY <1>3 DEF BuiltCost
<1>. QED
  BY <1>1, <1>4, <1>5, <1>6

\* The view answers for the switches and for what the account can pay.
LEMMA AvailableIsPayable ==
  ASSUME NEW a, NEW cost
  PROVE  QusdcGasAvailable(a, cost) <=>
           qusdcGasEnabled /\ PriceUsable /\ CanPay(a, QuoteQUSDC(cost))
BY DEF QusdcGasAvailable, CanPay

LEMMA QuoteAnswers ==
  ASSUME NEW a, NEW readable \in BOOLEAN
  PROVE  QusdcQuote(a, readable).available <=> readable /\ QusdcGasAvailable(a, QuoteCost)
BY Zenon DEF QusdcQuote

LEMMA StatusAnswers ==
  ASSUME TypeOK, NEW a \in Account, NEW readable \in BOOLEAN
  PROVE  SponsoredStatus(a, readable).remaining > 0 <=> readable /\ RemainingFreeOps(a) > 0
<1>1. SponsoredStatus(a, readable).remaining = IF readable THEN RemainingFreeOps(a) ELSE 0
  BY DEF SponsoredStatus
<1>. QED
  BY <1>1

\* What the app announces when its reads are answered.
Announced(a, listed) == GaslessParams(a, listed, TRUE)

LEMMA RouteOf ==
  ASSUME NEW a, NEW listed, NEW route, route = Announced(a, listed)
  PROVE  /\ RemainingFreeOps(a) > 0 /\ AllowlistToken(a, listed) # NoToken =>
              route.ui = "SPONSORED_ONBOARDING"
         /\ ~ (RemainingFreeOps(a) > 0 /\ AllowlistToken(a, listed) # NoToken) =>
              /\ QusdcGasAvailable(a, QuoteCost) => route.ui = "QUSDC_GAS"
              /\ ~ QusdcGasAvailable(a, QuoteCost) => route.ui = "NEEDS_QUSDC"
<1>1. QusdcQuote(a, TRUE).available <=> QusdcGasAvailable(a, QuoteCost)
  BY QuoteAnswers, TRUE \in BOOLEAN
<1>2. CASE RemainingFreeOps(a) > 0 /\ AllowlistToken(a, listed) # NoToken
  <2>1. route = [mode |-> "sponsored", ui |-> "SPONSORED_ONBOARDING"]
    BY <1>2, Zenon DEF GaslessParams, Announced
  <2>2. route.ui = "SPONSORED_ONBOARDING"
    BY <2>1
  <2>. QED
    BY <1>2, <2>2
<1>3. CASE ~ (RemainingFreeOps(a) > 0 /\ AllowlistToken(a, listed) # NoToken)
  <2>1. route = [mode |-> "qusdc", ui |-> IF QusdcQuote(a, TRUE).available THEN "QUSDC_GAS" ELSE "NEEDS_QUSDC"]
    BY <1>3, Zenon DEF GaslessParams, Announced
  <2>2. CASE QusdcGasAvailable(a, QuoteCost)
    <3>1. route = [mode |-> "qusdc", ui |-> "QUSDC_GAS"]
      BY <1>1, <2>1, <2>2, Zenon
    <3>2. route.ui = "QUSDC_GAS"
      BY <3>1
    <3>. QED
      BY <1>3, <2>2, <3>2
  <2>3. CASE ~ QusdcGasAvailable(a, QuoteCost)
    <3>1. route = [mode |-> "qusdc", ui |-> "NEEDS_QUSDC"]
      BY <1>1, <2>1, <2>3, Zenon
    <3>2. route.ui = "NEEDS_QUSDC"
      BY <3>1
    <3>. QED
      BY <1>3, <2>3, <3>2
  <2>. QED
    BY <2>2, <2>3
<1>. QED
  BY <1>2, <1>3

\* Validation of the operation a route leads to, in the state of the reads.
LEMMA AcceptedInMode ==
  ASSUME TypeOK, NEW a \in Account, NEW listed, NEW mode, NEW gasPrice \in GasPrice,
         NEW op, op = RouteOp(a, mode, listed, allowedTargets, BuiltCost(GasUnits, gasPrice))
  PROVE  /\ a \in listed /\ RemainingFreeOps(a) > 0 /\ BudgetLeft /\ trustedSigner = ServiceKey =>
              ModeBValid(op)
         /\ ModeAValid(op) => CanPay(a, AccountQuoteGas("qusdc"))
         /\ /\ QusdcGasAvailable(a, QuoteCost)
            /\ MaxFee(gasPrice) = FeeFloor
            /\ CanPay(a, AccountQuoteGas("qusdc"))
            => ModeAValid(op)
         /\ ~ QusdcGasAvailable(a, QuoteCost) => ~ ModeAValid(op)
<1>1. PICK cost \in Nat, shown \in Nat :
        /\ cost = BuiltCost(GasUnits, gasPrice) /\ shown = GasUnits * FeeFloor
        /\ QuoteCost \in Nat /\ QuoteCost <= shown /\ shown <= cost
  BY BuiltCostBounds
<1>2. /\ op.sender = a /\ op.targets = allowedTargets /\ op.maxCost = cost
      /\ op.expiry = AllowlistToken(a, listed).expiry /\ op.signer = AllowlistToken(a, listed).signer
  BY <1>1 DEF RouteOp
<1>3. CallAllowed(op)
  BY <1>2 DEF CallAllowed
<1>4. ASSUME a \in listed, RemainingFreeOps(a) > 0, BudgetLeft, trustedSigner = ServiceKey PROVE ModeBValid(op)
  BY <1>2, <1>3, <1>4, FreeOps, TokenOfListed DEF ModeBValid, BudgetLeft
<1>5. ModeAValid(op) <=> QusdcGasAvailable(a, cost)
  BY <1>2, <1>3, ModeAIsAvailability
<1>6. QusdcGasAvailable(a, cost) => QusdcGasAvailable(a, shown)
  BY <1>1, AvailableMonotone
<1>7. QusdcGasAvailable(a, cost) => QusdcGasAvailable(a, QuoteCost)
  BY <1>1, AvailableMonotone
<1>8. AccountQuoteGas("qusdc") = QuoteQUSDC(shown)
  BY <1>1 DEF AccountQuoteGas
<1>9. ModeAValid(op) => CanPay(a, AccountQuoteGas("qusdc"))
  BY <1>5, <1>6, <1>8, AvailableIsPayable
<1>10. ASSUME QusdcGasAvailable(a, QuoteCost), MaxFee(gasPrice) = FeeFloor,
              CanPay(a, AccountQuoteGas("qusdc"))
       PROVE  ModeAValid(op)
  <2>1. cost = shown
    BY <1>1, <1>10 DEF BuiltCost
  <2>2. qusdcGasEnabled /\ PriceUsable
    BY <1>10 DEF QusdcGasAvailable
  <2>3. CanPay(a, QuoteQUSDC(cost))
    BY <1>8, <1>10, <2>1
  <2>4. QusdcGasAvailable(a, cost)
    BY <2>2, <2>3, AvailableIsPayable
  <2>. QED
    BY <1>5, <2>4
<1>. QED
  BY <1>4, <1>5, <1>7, <1>9, <1>10

LEMMA RouteAccepted ==
  ASSUME TypeOK
  PROVE  RouteIsAccepted
<1>. SUFFICES ASSUME NEW a \in Account, NEW gasPrice \in GasPrice,
                     NEW listed \in IF RemainingFreeOps(a) = 0 THEN {{}} ELSE {{}, {a}}
              PROVE  LET route == GaslessParams(a, listed, TRUE)
                         op == RouteOp(a, route.mode, listed, allowedTargets, BuiltCost(GasUnits, gasPrice)) IN
                     CASE route.ui = "SPONSORED_ONBOARDING" ->
                            BudgetLeft /\ trustedSigner = ServiceKey => ModeBValid(op)
                       [] route.ui = "QUSDC_GAS" ->
                            /\ ModeAValid(op) => CanPay(a, AccountQuoteGas("qusdc"))
                            /\ MaxFee(gasPrice) = FeeFloor =>
                                 (CanPay(a, AccountQuoteGas("qusdc")) => ModeAValid(op))
                       [] route.ui = "NEEDS_QUSDC" -> ~ModeAValid(op)
  BY DEF RouteIsAccepted
<1>1. PICK route : route = Announced(a, listed)
  OBVIOUS
<1>2. PICK op : op = RouteOp(a, route.mode, listed, allowedTargets, BuiltCost(GasUnits, gasPrice))
  OBVIOUS
<1>3. PICK free \in BOOLEAN : free <=> RemainingFreeOps(a) > 0 /\ AllowlistToken(a, listed) # NoToken
  OBVIOUS
<1>4. /\ free => route.ui = "SPONSORED_ONBOARDING"
      /\ ~ free /\ QusdcGasAvailable(a, QuoteCost) => route.ui = "QUSDC_GAS"
      /\ ~ free /\ ~ QusdcGasAvailable(a, QuoteCost) => route.ui = "NEEDS_QUSDC"
  BY <1>1, <1>3, RouteOf
<1>5. free => (BudgetLeft /\ trustedSigner = ServiceKey => ModeBValid(op))
  <2>1. free => a \in listed /\ RemainingFreeOps(a) > 0
    BY <1>3, TokenOfListed
  <2>. QED
    BY <1>2, <2>1, AcceptedInMode
<1>6. /\ ModeAValid(op) => CanPay(a, AccountQuoteGas("qusdc"))
      /\ QusdcGasAvailable(a, QuoteCost) /\ MaxFee(gasPrice) = FeeFloor =>
           (CanPay(a, AccountQuoteGas("qusdc")) => ModeAValid(op))
      /\ ~ QusdcGasAvailable(a, QuoteCost) => ~ ModeAValid(op)
  BY <1>2, AcceptedInMode
<1>7. (CASE route.ui = "SPONSORED_ONBOARDING" -> BudgetLeft /\ trustedSigner = ServiceKey => ModeBValid(op)
         [] route.ui = "QUSDC_GAS" ->
              /\ ModeAValid(op) => CanPay(a, AccountQuoteGas("qusdc"))
              /\ MaxFee(gasPrice) = FeeFloor =>
                   (CanPay(a, AccountQuoteGas("qusdc")) => ModeAValid(op))
         [] route.ui = "NEEDS_QUSDC" -> ~ModeAValid(op))
  BY <1>3, <1>4, <1>5, <1>6
<1>. QED
  BY <1>1, <1>2, <1>7, Zenon DEF Announced

\* Each of the three chooses by the same two answers.
Sponsors(a, readable) == readable /\ RemainingFreeOps(a) > 0
Charges(a, readable) == readable /\ QusdcGasAvailable(a, QuoteCost)

LEMMA ResolvesBy ==
  ASSUME TypeOK, NEW a \in Account, NEW prefs \in PrefsType, NEW readable \in BOOLEAN
  PROVE  ResolveGasMode(a, prefs, readable) =
           IF prefs.sponsored /\ Sponsors(a, readable) THEN "SPONSORED_ONBOARDING"
           ELSE IF prefs.qusdc /\ Charges(a, readable) THEN "QUSDC_GAS"
           ELSE IF prefs.native THEN "NATIVE_QIE" ELSE "PAUSED"
BY StatusAnswers, QuoteAnswers DEF ResolveGasMode, Sponsors, Charges

LEMMA RoutesAgree ==
  ASSUME TypeOK
  PROVE  RoutesAgreeWhenListed
<1>. SUFFICES ASSUME NEW a \in Account, NEW readable \in BOOLEAN,
                     NEW listed \in IF RemainingFreeOps(a) = 0 THEN {{}} ELSE {{a}}
              PROVE  LET mode == SessionGasMode(a, AppPrefs, listed, readable)
                         route == GaslessParams(a, listed, readable)
                         label == PreviewGasLabel(a, "USER_WALLET", AppPrefs, readable) IN
                     /\ \A prefs \in Prefs :
                          ToBuilderGasMode(PreviewGasLabel(a, "AUTOPILOT", prefs, readable))
                            = SessionGasMode(a, prefs, listed, readable)
                     /\ IF mode = "none" THEN route.ui = "NEEDS_QUSDC" ELSE route.mode = mode
                     /\ (mode = "none") <=> (GasModeOptions(a, readable) = {})
                     /\ (mode = "none") <=> (label = "NATIVE_QIE")
  BY DEF RoutesAgreeWhenListed
<1>. DEFINE mode == SessionGasMode(a, AppPrefs, listed, readable)
            route == GaslessParams(a, listed, readable)
            label == PreviewGasLabel(a, "USER_WALLET", AppPrefs, readable)
<1>1. RemainingFreeOps(a) > 0 => AllowlistToken(a, listed) # NoToken
  <2>1. RemainingFreeOps(a) > 0 => a \in listed
    BY FreeOps
  <2>. QED
    BY <2>1, TokenOfListed
<1>2. \A prefs \in PrefsType :
        SessionGasMode(a, prefs, listed, readable) =
          IF prefs.sponsored /\ Sponsors(a, readable) THEN "sponsored"
          ELSE IF prefs.qusdc /\ Charges(a, readable) THEN "qusdc"
          ELSE IF prefs.native THEN "self" ELSE "none"
  BY <1>1 DEF SessionGasMode, Sponsors, Charges, PrefsType
<1>3. AppPrefs \in PrefsType /\ [AppPrefs EXCEPT !.native = TRUE] \in PrefsType
  BY DEF AppPrefs, PrefsType
<1>4. ASSUME NEW prefs \in Prefs
      PROVE  ToBuilderGasMode(PreviewGasLabel(a, "AUTOPILOT", prefs, readable))
               = SessionGasMode(a, prefs, listed, readable)
  <2>1. prefs \in PrefsType
    BY PrefsAssumption DEF PrefsAssumption
  <2>2. PreviewGasLabel(a, "AUTOPILOT", prefs, readable) = ResolveGasMode(a, prefs, readable)
    BY DEF PreviewGasLabel
  <2>3. CASE prefs.sponsored /\ Sponsors(a, readable)
    BY <1>2, <2>1, <2>2, <2>3, ResolvesBy DEF ToBuilderGasMode
  <2>4. CASE ~ (prefs.sponsored /\ Sponsors(a, readable))
    BY <1>2, <2>1, <2>2, <2>4, ResolvesBy DEF ToBuilderGasMode
  <2>. QED
    BY <2>3, <2>4
<1>5. mode = IF Sponsors(a, readable) THEN "sponsored"
             ELSE IF Charges(a, readable) THEN "qusdc" ELSE "none"
  BY <1>2, <1>3 DEF AppPrefs
<1>6. label = IF Sponsors(a, readable) THEN "SPONSORED_ONBOARDING"
              ELSE IF Charges(a, readable) THEN "QUSDC_GAS" ELSE "NATIVE_QIE"
  <2>1. label = ResolveGasMode(a, [AppPrefs EXCEPT !.native = TRUE], readable)
    BY DEF PreviewGasLabel
  <2>2. PICK p : p = [AppPrefs EXCEPT !.native = TRUE]
    OBVIOUS
  <2>3. p.sponsored = TRUE /\ p.qusdc = TRUE /\ p.native = TRUE /\ p \in PrefsType
    BY <1>3, <2>2 DEF AppPrefs
  <2>. QED
    BY <2>1, <2>2, <2>3, ResolvesBy
<1>7. route = IF Sponsors(a, readable) THEN [mode |-> "sponsored", ui |-> "SPONSORED_ONBOARDING"]
              ELSE [mode |-> "qusdc", ui |-> IF Charges(a, readable) THEN "QUSDC_GAS" ELSE "NEEDS_QUSDC"]
  BY <1>1, QuoteAnswers DEF GaslessParams, Sponsors, Charges
<1>8. /\ "SPONSORED_ONBOARDING" \in GasModeOptions(a, readable) <=> Sponsors(a, readable)
      /\ "QUSDC_GAS" \in GasModeOptions(a, readable) <=> Charges(a, readable)
      /\ GasModeOptions(a, readable) \subseteq {"SPONSORED_ONBOARDING", "QUSDC_GAS"}
  BY StatusAnswers, QuoteAnswers DEF GasModeOptions, Sponsors, Charges
<1>9. IF mode = "none" THEN route.ui = "NEEDS_QUSDC" ELSE route.mode = mode
  <2>1. CASE Sponsors(a, readable)
    BY <1>5, <1>7, <2>1
  <2>2. CASE ~ Sponsors(a, readable) /\ Charges(a, readable)
    BY <1>5, <1>7, <2>2
  <2>3. CASE ~ Sponsors(a, readable) /\ ~ Charges(a, readable)
    BY <1>5, <1>7, <2>3
  <2>. QED
    BY <2>1, <2>2, <2>3
<1>10. (mode = "none") <=> (GasModeOptions(a, readable) = {})
  BY <1>5, <1>8
<1>11. (mode = "none") <=> (label = "NATIVE_QIE")
  BY <1>5, <1>6
<1>. QED
  BY <1>4, <1>9, <1>10, <1>11

\* Whatever the caps, the price, the listed accounts and the preferences, what
\* the app announces is what the paymaster's validation says in that state to
\* the operation that is built with the default gas limits: a sponsored one is
\* taken, one that needs QUSDC is not, and one that pays in QUSDC is taken if
\* the account can pay what quoteGas shows.  App, preview and executor choose the
\* same route for an account that gets a token (gas.ts, gasless.ts,
\* resolveSessionGasMode).
THEOREM RoutesAreTaken == Spec => []RoutesHold
<1>1. TypeOK => RoutesHold
  BY RouteAccepted, RoutesAgree DEF RoutesHold
<1>. QED
  BY <1>1, PaymasterTypeOK, PTL
==============================================================================
