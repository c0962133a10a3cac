------------------------------- MODULE Paymaster -------------------------------
(***************************************************************************)
(* QeviePaymaster.sol under EntryPoint.handleOps.                          *)
(*                                                                         *)
(* Mode A fronts native gas from the paymaster's EntryPoint deposit and    *)
(* takes QUSDC from the sender in postOp; Mode B sponsors the gas within a *)
(* per-account cap and daily and global budgets.  Both modes check their   *)
(* limits in validatePaymasterUserOp and move their counters in postOp.    *)
(* handleOps validates a whole bundle first and then executes it, so other *)
(* operations of the bundle stand between the check and the count.         *)
(*                                                                         *)
(* The EntryPoint v0.7 is external: it sets maxCost aside when it          *)
(* validates, gives back what was not used after postOp, and when postOp   *)
(* reverts undoes the operation and keeps the cost.                        *)
(***************************************************************************)
EXTENDS Integers, Sequences, Functions

CONSTANTS
  Account,            \* smart accounts that send operations
  Holder,             \* the accounts that come to hold QUSDC
  Address,            \* candidates for owner and trusted signer
  Target,             \* contracts operations may call
  Op,                 \* the operations that are tried
  Pool,               \* reserves of the WQIE/QUSDC pair that are tried
  Markup,             \* values of gasMarkupBps that are tried
  Cap,                \* values of the two QUSDC gas caps that are tried
  BpsDenominator,     \* 10000
  PerAccountCap,      \* 3
  DailyBudget,        \* DAILY_BUDGET_WEI
  GlobalBudget,       \* GLOBAL_BUDGET_WEI
  MinWqieReserve,     \* MIN_WQIE_RESERVE
  StalenessLimit,     \* PRICE_STALENESS_LIMIT
  MaxExpiryWindow,    \* MAX_EXPIRY_WINDOW
  DayLength,          \* 86400
  MaxTime,            \* bound on block.timestamp
  MaxCost,            \* largest maxCost of an operation
  BundleSize,         \* most operations in a bundle
  MaxDeposit,         \* bound on the EntryPoint deposit
  Supply              \* bound on the QUSDC that reaches the accounts

ASSUME PaymasterAssumption ==
  /\ PerAccountCap \in Nat \ {0}
  /\ DailyBudget \in Nat \ {0}
  /\ GlobalBudget \in Nat \ {0}
  /\ BpsDenominator \in Nat \ {0}
  /\ DayLength \in Nat \ {0}
  /\ {MinWqieReserve, StalenessLimit, MaxExpiryWindow, MaxTime, MaxDeposit,
      Supply} \subseteq Nat
  /\ Holder \subseteq Account
  /\ MaxCost \in Nat \ {0}
  /\ BundleSize \in Nat \ {0}
  /\ Markup \subseteq 0..BpsDenominator
  /\ Cap \subseteq Nat /\ 0 \in Cap     \* 0: no cap
  /\ Pool \subseteq [wqie : Nat, qusdc : Nat]

\* sender and targets of the call; spend is the QUSDC the call itself sends
\* away, trades says that it swaps on the pair; expiry and signer are Mode B's
\* allowlist token.
OpType ==
  [mode : {"A", "B"}, sender : Account, targets : SUBSET Target,
   maxCost : 1..MaxCost, spend : Nat, trades : BOOLEAN,
   expiry : Nat, signer : Address]

ASSUME OpAssumption == Op \subseteq OpType

Time == 0..MaxTime

VARIABLES
  owner, trustedSigner, paused, allowedTargets,
  qusdcGasEnabled, gasMarkupBps, maxQusdcGasPerTx, dailyQusdcGasCap,
  sponsoredOpsCount, dailyBudgetDay, dailyBudgetSpent, globalBudgetSpent,
  collectedQUSDC, qusdcGasDay, qusdcGasSpentToday,
  balance,          \* QUSDC of each account
  allowance,        \* QUSDC each account lets the paymaster take
  treasury,         \* QUSDC of the paymaster
  outside,          \* QUSDC of other wallets that may still reach the accounts
  deposit,          \* native deposit of the paymaster in the EntryPoint
  pair,             \* [wqie, qusdc, lastUpdate] of the dex pair
  now,              \* block.timestamp
  phase,            \* of handleOps: "idle", "validating", "executing"
  bundle,           \* validated operations with their postOp context
  sponsoredOn       \* history: day -> native gas sponsored in Mode B

config == <<owner, trustedSigner, paused, allowedTargets, qusdcGasEnabled,
            gasMarkupBps, maxQusdcGasPerTx, dailyQusdcGasCap>>
budget == <<sponsoredOpsCount, dailyBudgetDay, dailyBudgetSpent, globalBudgetSpent>>
charges == <<collectedQUSDC, qusdcGasDay, qusdcGasSpentToday>>
token == <<balance, allowance, treasury, outside>>
chain == <<pair, now>>
entry == <<deposit, phase, bundle>>
vars == <<config, budget, charges, token, chain, entry, sponsoredOn>>

Today == now \div DayLength
LastDay == MaxTime \div DayLength

\* A validated operation: the context is its quote in Mode A (0 in Mode B).
Pending == [op : Op, quoted : Nat]

TypeOK ==
  /\ owner \in Address /\ trustedSigner \in Address
  /\ paused \in BOOLEAN /\ qusdcGasEnabled \in BOOLEAN
  /\ allowedTargets \in SUBSET Target
  /\ gasMarkupBps \in Markup
  /\ maxQusdcGasPerTx \in Cap /\ dailyQusdcGasCap \in Cap
  /\ sponsoredOpsCount \in [Account -> Nat]
  /\ {dailyBudgetDay, dailyBudgetSpent, globalBudgetSpent} \subseteq Nat
  /\ {collectedQUSDC, qusdcGasDay, qusdcGasSpentToday} \subseteq Nat
  /\ balance \in [Account -> Nat]
  /\ allowance \in [Account -> Nat]
  /\ treasury \in Nat /\ outside \in Nat /\ deposit \in Nat
  /\ pair \in [wqie : Nat, qusdc : Nat, lastUpdate : Time]
  /\ now \in Time
  /\ phase \in {"idle", "validating", "executing"}
  /\ bundle \in Seq(Pending) /\ Len(bundle) <= BundleSize
  /\ phase = "idle" => bundle = << >>
  /\ sponsoredOn \in [0..LastDay -> Nat]

PairOf(p) == [wqie |-> p.wqie, qusdc |-> p.qusdc, lastUpdate |-> now]

Init ==
  /\ owner \in Address /\ trustedSigner \in Address
  /\ paused = FALSE
  /\ allowedTargets = {}
  /\ qusdcGasEnabled = TRUE
  /\ gasMarkupBps \in Markup
  /\ maxQusdcGasPerTx = 0 /\ dailyQusdcGasCap = 0
  /\ sponsoredOpsCount = [a \in Account |-> 0]
  /\ dailyBudgetSpent = 0 /\ globalBudgetSpent = 0
  /\ collectedQUSDC = 0 /\ qusdcGasSpentToday = 0
  /\ balance = [a \in Account |-> 0]
  /\ allowance = [a \in Account |-> 0]
  /\ treasury = 0 /\ outside = Supply /\ deposit = 0
  /\ now = 0
  /\ dailyBudgetDay = Today /\ qusdcGasDay = Today
  /\ \E p \in Pool : pair = PairOf(p)
  /\ phase = "idle" /\ bundle = << >>
  /\ sponsoredOn = [d \in 0..LastDay |-> 0]

-----------------------------------------------------------------------------
(* Pricing and gates *)

\* _quoteQUSDC: spot price plus markup, rounded down.
QuoteAt(p, cost) ==
  IF p.wqie = 0 THEN 0
  ELSE (cost * p.qusdc * (BpsDenominator + gasMarkupBps))
         \div (p.wqie * BpsDenominator)

QuoteQUSDC(cost) == QuoteAt(pair, cost)

PriceUsable ==
  /\ now <= pair.lastUpdate + StalenessLimit
  /\ pair.wqie >= MinWqieReserve

ChargedToday == IF Today = qusdcGasDay THEN qusdcGasSpentToday ELSE 0

WithinQusdcCaps(quoted) ==
  /\ maxQusdcGasPerTx # 0 => quoted <= maxQusdcGasPerTx
  /\ dailyQusdcGasCap # 0 => ChargedToday + quoted <= dailyQusdcGasCap

\* qusdcGasAvailable, the view the off-chain services ask.
QusdcGasAvailable(account, cost) ==
  /\ qusdcGasEnabled
  /\ PriceUsable
  /\ WithinQusdcCaps(QuoteQUSDC(cost))
  /\ balance[account] >= QuoteQUSDC(cost)
  /\ allowance[account] >= QuoteQUSDC(cost)

\* remainingFreeOps
RemainingFreeOps(account) ==
  IF sponsoredOpsCount[account] >= PerAccountCap THEN 0
  ELSE PerAccountCap - sponsoredOpsCount[account]

\* _requireCallAllowed: every target of the call is allow-listed.
CallAllowed(op) == op.targets \subseteq allowedTargets

\* _validateModeA
ModeAValid(op) ==
  /\ qusdcGasEnabled
  /\ PriceUsable
  /\ WithinQusdcCaps(QuoteQUSDC(op.maxCost))
  /\ CallAllowed(op)
  /\ balance[op.sender] >= QuoteQUSDC(op.maxCost)
  /\ allowance[op.sender] >= QuoteQUSDC(op.maxCost)

\* Mutant: the day's counter is reset on the wrong day.
SpentBefore == IF Today = dailyBudgetDay THEN 0 ELSE dailyBudgetSpent

SpentToday == IF Today = dailyBudgetDay THEN dailyBudgetSpent ELSE 0

\* Mutant: the budgets are not checked.
ModeBValidNoBudget(op) ==
  /\ op.expiry >= now /\ op.expiry <= now + MaxExpiryWindow
  /\ op.signer = trustedSigner
  /\ sponsoredOpsCount[op.sender] < PerAccountCap
  /\ CallAllowed(op)

\* _validateModeB
ModeBValid(op) ==
  /\ op.expiry >= now
  /\ op.expiry <= now + MaxExpiryWindow
  /\ op.signer = trustedSigner
  /\ sponsoredOpsCount[op.sender] < PerAccountCap
  /\ SpentToday < DailyBudget
  /\ globalBudgetSpent < GlobalBudget
  /\ CallAllowed(op)

-----------------------------------------------------------------------------
(* handleOps *)

\* One turn of the validation loop: the EntryPoint sets maxCost aside, the
\* paymaster accepts.  A refusal reverts the bundle, so only operations that
\* are accepted are collected.
Accept(op, quoted) ==
  /\ phase # "executing"
  /\ Len(bundle) < BundleSize
  /\ deposit >= op.maxCost
  /\ ~paused
  /\ deposit' = deposit - op.maxCost
  /\ phase' = "validating"
  /\ bundle' = Append(bundle, [op |-> op, quoted |-> quoted])

ValidateModeA(op) ==
  /\ op.mode = "A"
  /\ ModeAValid(op)
  /\ Accept(op, QuoteQUSDC(op.maxCost))
  /\ UNCHANGED <<config, budget, charges, token, chain, sponsoredOn>>

\* _refreshDailyBudget runs in validation too.
ValidateModeB(op) ==
  /\ op.mode = "B"
  /\ ModeBValid(op)
  /\ Accept(op, 0)
  /\ dailyBudgetDay' = Today
  /\ dailyBudgetSpent' = SpentToday
  /\ UNCHANGED <<config, sponsoredOpsCount, globalBudgetSpent, charges, token,
                 chain, sponsoredOn>>

StartExecution ==
  /\ phase = "validating"
  /\ phase' = "executing"
  /\ UNCHANGED <<config, budget, charges, token, chain, deposit, bundle,
                 sponsoredOn>>

\* The head operation is over and cost: the rest of what was set aside goes
\* back to the deposit.
Settle(op, cost) ==
  /\ deposit' = deposit + op.maxCost - cost
  /\ bundle' = Tail(bundle)
  /\ phase' = IF Len(bundle) = 1 THEN "idle" ELSE "executing"

\* How an operation may turn out: what its gas costs, whether its call
\* succeeds, and where a trade it makes leaves the pair.
Outcomes(op) ==
  {o \in [cost : 1..op.maxCost, ok : BOOLEAN, pool : Pool] :
     o.ok => balance[op.sender] >= op.spend}

PairAfter(op, o) == IF o.ok /\ op.trades THEN PairOf(o.pool) ELSE pair
SpentBy(op, o) == IF o.ok THEN op.spend ELSE 0
LeftAfter(op, o) == balance[op.sender] - SpentBy(op, o)

\* Mutant: the quote of the validation is not a ceiling.
ChargeAtNewPrice(pending, o) == QuoteAt(PairAfter(pending.op, o), o.cost)

\* What _postOpModeA takes: the actual cost at the price of that moment, at
\* most the quote of the validation.
ChargeOf(pending, o) ==
  LET actual == QuoteAt(PairAfter(pending.op, o), o.cost) IN
  IF actual > pending.quoted THEN pending.quoted ELSE actual

\* transferFrom can take the charge from what the call left.
Collectable(pending, o) ==
  LET charge == ChargeOf(pending, o) IN
  charge = 0 \/ /\ LeftAfter(pending.op, o) >= charge
                /\ allowance[pending.op.sender] >= charge

\* A Mode A operation runs and _postOpModeA collects the charge.
ExecuteModeA(pending) ==
  LET op == pending.op IN
  \E o \in Outcomes(op) :
    LET charge == ChargeOf(pending, o) IN
    /\ Collectable(pending, o)
    /\ balance' = [balance EXCEPT ![op.sender] = LeftAfter(op, o) - charge]
    /\ allowance' = [allowance EXCEPT ![op.sender] = @ - charge]
    /\ treasury' = treasury + charge
    /\ outside' = outside + SpentBy(op, o)
    /\ collectedQUSDC' = collectedQUSDC + charge
    /\ qusdcGasDay' = IF charge = 0 THEN qusdcGasDay ELSE Today
    /\ qusdcGasSpentToday' = IF charge = 0 THEN qusdcGasSpentToday
                                           ELSE ChargedToday + charge
    /\ pair' = PairAfter(op, o)
    /\ Settle(op, o.cost)
    /\ UNCHANGED <<config, budget, now, sponsoredOn>>

\* transferFrom fails because this operation, or an earlier one of the bundle,
\* spent the QUSDC: postOp reverts, the operation is undone, and the deposit
\* pays for gas nobody is charged for.
ExecuteModeAUnpaid(pending) ==
  \E o \in Outcomes(pending.op) :
    /\ ~Collectable(pending, o)
    /\ Settle(pending.op, o.cost)
    /\ UNCHANGED <<config, budget, charges, token, chain, sponsoredOn>>

\* A Mode B operation runs and _postOpModeB counts it.
ExecuteModeB(pending) ==
  LET op == pending.op IN
  \E o \in Outcomes(op) :
    /\ balance' = [balance EXCEPT ![op.sender] = LeftAfter(op, o)]
    /\ outside' = outside + SpentBy(op, o)
    /\ pair' = PairAfter(op, o)
    /\ sponsoredOpsCount' = [sponsoredOpsCount EXCEPT ![op.sender] = @ + 1]
    /\ dailyBudgetDay' = Today
    /\ dailyBudgetSpent' = SpentToday + o.cost
    /\ globalBudgetSpent' = globalBudgetSpent + o.cost
    /\ sponsoredOn' = [sponsoredOn EXCEPT ![Today] = @ + o.cost]
    /\ Settle(op, o.cost)
    /\ UNCHANGED <<config, charges, allowance, treasury, now>>

Execute ==
  /\ phase = "executing" /\ bundle # << >>
  /\ LET pending == Head(bundle) IN
     \/ pending.op.mode = "A" /\ (ExecuteModeA(pending) \/ ExecuteModeAUnpaid(pending))
     \/ pending.op.mode = "B" /\ ExecuteModeB(pending)

-----------------------------------------------------------------------------
(* Transactions between bundles *)

\* depositToEntryPoint and withdrawFromEntryPoint
DepositToEntryPoint(amount) ==
  /\ deposit + amount <= MaxDeposit
  /\ deposit' = deposit + amount
  /\ UNCHANGED <<config, charges, token>>

WithdrawFromEntryPoint(amount) ==
  /\ amount <= deposit
  /\ deposit' = deposit - amount
  /\ UNCHANGED <<config, charges, token>>

\* Mutant: collectedQUSDC is not reduced.
WithdrawUncounted(amount) ==
  /\ amount <= collectedQUSDC
  /\ amount <= treasury
  /\ treasury' = treasury - amount
  /\ UNCHANGED <<config, deposit, charges, balance, allowance, outside>>

\* withdrawQUSDC: collectedQUSDC -= amount is checked, then the token moves to
\* the owner, who keeps it.
WithdrawQUSDC(amount) ==
  /\ amount <= collectedQUSDC
  /\ amount <= treasury
  /\ collectedQUSDC' = collectedQUSDC - amount
  /\ treasury' = treasury - amount
  /\ UNCHANGED <<config, deposit, qusdcGasDay, qusdcGasSpentToday, balance,
                 allowance, outside>>

\* setAllowedTarget, setQusdcGasEnabled, setGasMarkupBps, setQusdcGasCaps,
\* setTrustedSigner, transferOwnership, pause and unpause.
SetAllowedTarget ==
  /\ \E t \in Target : allowedTargets' \in {allowedTargets \cup {t}, allowedTargets \ {t}}
  /\ UNCHANGED <<owner, trustedSigner, paused, qusdcGasEnabled, gasMarkupBps,
                 maxQusdcGasPerTx, dailyQusdcGasCap>>

SetQusdcGas ==
  /\ qusdcGasEnabled' \in BOOLEAN
  /\ gasMarkupBps' \in Markup
  /\ maxQusdcGasPerTx' \in Cap
  /\ dailyQusdcGasCap' \in Cap
  /\ UNCHANGED <<owner, trustedSigner, paused, allowedTargets>>

SetRoles ==
  /\ owner' \in Address
  /\ trustedSigner' \in Address
  /\ UNCHANGED <<paused, allowedTargets, qusdcGasEnabled, gasMarkupBps,
                 maxQusdcGasPerTx, dailyQusdcGasCap>>

SetPaused ==
  /\ paused' \in BOOLEAN
  /\ UNCHANGED <<owner, trustedSigner, allowedTargets, qusdcGasEnabled,
                 gasMarkupBps, maxQusdcGasPerTx, dailyQusdcGasCap>>

Configure ==
  /\ SetAllowedTarget \/ SetQusdcGas \/ SetRoles \/ SetPaused
  /\ UNCHANGED <<charges, token, deposit>>

\* A user receives or sends QUSDC, or approves the paymaster.
UserMoves(a) ==
  /\ \/ \E n \in 0..(balance[a] + outside) :
          /\ balance' = [balance EXCEPT ![a] = n]
          /\ outside' = outside + balance[a] - n
        /\ UNCHANGED allowance
     \/ /\ \E n \in 0..Supply : allowance' = [allowance EXCEPT ![a] = n]
        /\ UNCHANGED <<balance, outside>>
  /\ UNCHANGED <<config, charges, deposit, treasury>>

\* The pair is traded on, or time passes.
WorldMoves ==
  /\ \/ (\E p \in Pool : pair' = PairOf(p)) /\ UNCHANGED now
     \/ now < MaxTime /\ now' = now + 1 /\ UNCHANGED pair
  /\ UNCHANGED <<config, charges, token, deposit>>

BetweenBundles ==
  /\ phase = "idle"
  /\ \/ /\ \/ \E n \in 1..MaxDeposit :
                DepositToEntryPoint(n) \/ WithdrawFromEntryPoint(n)
           \/ \E n \in 1..Supply : WithdrawQUSDC(n)
           \/ Configure
           \/ \E a \in Holder : UserMoves(a)
        /\ UNCHANGED chain
     \/ WorldMoves
  /\ UNCHANGED <<budget, phase, bundle, sponsoredOn>>

Next ==
  \/ \E op \in Op : ValidateModeA(op) \/ ValidateModeB(op)
  \/ StartExecution
  \/ Execute
  \/ BetweenBundles

Spec == Init /\ [][Next]_vars

-----------------------------------------------------------------------------
(* Properties *)

SumOfDays(f) == FoldFunction(LAMBDA x, y : x + y, 0, f)

\* The budgets are compared in validatePaymasterUserOp and charged in postOp, so
\* each operation of one bundle may be the last one accepted: a budget is
\* overshot by the rest of one bundle, and never by more.
BudgetOvershootBounded ==
  /\ dailyBudgetSpent < DailyBudget + BundleSize * MaxCost
  /\ globalBudgetSpent < GlobalBudget + BundleSize * MaxCost

\* The same of the lifetime cap of an account (sponsoredOpsCount).
FreeOpsOvershootBounded ==
  \A a \in Account : sponsoredOpsCount[a] < PerAccountCap + BundleSize

\* QeviePaymaster.sol:33 calls the caps of Mode B hard.  What they are: overshot
\* by less than one bundle.
ModeBOvershootBounded == BudgetOvershootBounded /\ FreeOpsOvershootBounded

\* The counters say what was really sponsored: dailyBudgetSpent is the gas of
\* the day it was last reset for, a later day has none yet, and
\* globalBudgetSpent is the gas of all days (_refreshDailyBudget runs in both
\* validation and postOp).
BudgetsTellTheTruth ==
  /\ sponsoredOn[dailyBudgetDay] = dailyBudgetSpent
  /\ \A d \in DOMAIN sponsoredOn : d > dailyBudgetDay => sponsoredOn[d] = 0
  /\ SumOfDays(sponsoredOn) = globalBudgetSpent

\* What withdrawQUSDC may pay out is there: the QUSDC counted as collected is
\* held by the paymaster.
CollectedIsBacked == collectedQUSDC <= treasury

\* Gas takes QUSDC only from the sender of the operation that is running, at
\* most its quote at validation and at most what it then holds and has
\* approved, even when an earlier operation of the bundle moved the price.
ChargeWithinQuote ==
  [][treasury' > treasury =>
       LET pending == Head(bundle)
           charge == treasury' - treasury IN
       /\ pending.op.mode = "A"
       /\ charge <= pending.quoted
       /\ allowance' = [allowance EXCEPT ![pending.op.sender] = @ - charge]
       /\ collectedQUSDC' = collectedQUSDC + charge]_vars

=============================================================================
