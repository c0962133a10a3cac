-------------------------- MODULE AgentPolicyManager --------------------------
(***************************************************************************)
(* The contract AgentPolicyManager.sol: on-chain spending policies that    *)
(* bound what a delegated session key may do with a smart account.         *)
(*                                                                         *)
(* Each external function is one action with its msg.sender as first       *)
(* parameter.  Any caller may call any function at any time, so this is    *)
(* the contract under its most general client; SessionExecution restricts  *)
(* the calls to those a QevieSmartAccount and the EntryPoint make.         *)
(* The one view the contract takes of other contracts, the account's       *)
(* owner(), is the variable accountOwner.                                  *)
(***************************************************************************)
EXTENDS Integers, Sequences, Functions

CONSTANTS
  Account,      \* smart accounts
  Address,      \* every msg.sender: smart accounts and external wallets
  NewOwner,     \* the addresses ownership is transferred to
  Recipient,    \* addresses that are paid
  Key,          \* session keys
  Target,       \* contracts a session call may be sent to
  Params,       \* the creation parameters that are tried
  Call,         \* the inner calls that are tried
  Batch,        \* the executeSessionBatch call lists that are tried
  MaxUint,      \* largest uint256
  Day, Week,    \* 1 days and 7 days
  MaxTime,      \* bound on block.timestamp
  MaxNonce      \* bound on the policies of one account

ASSUME UintAssumption == MaxUint \in Nat
ASSUME TimeAssumption == /\ Day \in Nat \ {0}
                         /\ Week \in Nat \ {0}
                         /\ MaxTime \in Nat
                         /\ MaxNonce \in Nat
ASSUME AddressAssumption == Account \subseteq Address /\ NewOwner \subseteq Address

Uint == 0..MaxUint
Time == 0..MaxTime
Rail == {"single", "batch", "request", "subscription"}
Selector == {"transfer", "batchPay", "createRequest", "payRequest", "subscribe"}

\* CreateAgentPolicyParams.  allow holds the four allowXxx rail flags, gas the
\* four gas-route flags.
ParamType ==
  [smartAccount : Account, sessionKey : Key, guardian : Address, token : Target,
   maxPerTx : Uint, dailyLimit : Uint, weeklyLimit : Uint, totalLimit : Uint,
   validAfter : Nat, validUntil : Nat, recipients : SUBSET Recipient,
   allow : SUBSET Rail, gas : SUBSET {"sponsored", "qusdc", "native", "pause"}]

ASSUME ParamAssumption == Params \subseteq ParamType
ASSUME BatchAssumption == Batch \subseteq Seq(Call)

\* keccak256(chainid, account, key, owner, nonce): the nonce is unique per
\* account, so account and nonce name the policy.
PolicyId == Account \X (0..MaxNonce)

\* AgentPolicy: terms is the part createPolicy copies from its parameters and
\* no function changes.  The QUSDC-gas counters are left out: the contract
\* stores and zeroes them and never compares them with anything.
Policy ==
  [terms : Params, owner : Address,
   spentToday : Uint, spentThisWeek : Uint, spentTotal : Uint,
   dayWindowStart : Time, weekWindowStart : Time,
   active : BOOLEAN, guardianRevoked : BOOLEAN]

VARIABLES
  contractOwner,      \* owner of the manager contract
  policies,           \* policy id -> AgentPolicy, for the ids created so far
  allowedRecipients,  \* policy id -> set of allow-listed recipients
  allowedTargets,     \* contracts a session call may reach
  policyNonce,        \* account -> number of policies created
  accountOwner,       \* account -> its owner()
  now                 \* block.timestamp

policyVars == <<policies, allowedRecipients, policyNonce>>
vars == <<contractOwner, policies, allowedRecipients, allowedTargets,
          policyNonce, accountOwner, now>>

TypeOK ==
  /\ contractOwner \in Address
  /\ DOMAIN policies \subseteq PolicyId
  /\ policies \in [DOMAIN policies -> Policy]
  /\ allowedRecipients \in [DOMAIN policies -> SUBSET Recipient]
  /\ allowedTargets \in SUBSET Target
  /\ policyNonce \in [Account -> 0..MaxNonce]
  /\ accountOwner \in [Account -> Address]
  /\ now \in Time

Init ==
  /\ contractOwner \in NewOwner
  /\ policies = << >>
  /\ allowedRecipients = << >>
  /\ allowedTargets = {}
  /\ policyNonce = [a \in Account |-> 0]
  /\ accountOwner \in [Account -> NewOwner]
  /\ now = 0

-----------------------------------------------------------------------------
(* What a call spends and which calls a policy allows.                       *)
(* A call is a record: target, selector, value, payer (of a payment request),*)
(* times (maxPayments of a subscription, else 1) and pays, the amount for    *)
(* each recipient of the call.                                               *)

TotalPaid(c) == c.times * FoldFunction(LAMBDA x, y : x + y, 0, c.pays)

EffectiveToday(p) ==
  IF now >= p.dayWindowStart + Day THEN 0 ELSE p.spentToday

EffectiveWeek(p) ==
  IF now >= p.weekWindowStart + Week THEN 0 ELSE p.spentThisWeek

\* Mutant: the weekly limit is not compared.
WithinCapsNoWeekly(p, amount) ==
  /\ EffectiveToday(p) + amount <= p.terms.dailyLimit
  /\ p.spentTotal + amount <= p.terms.totalLimit

\* Mutant: the daily limit is not compared.
WithinCapsNoDaily(p, amount) ==
  /\ EffectiveWeek(p) + amount <= p.terms.weeklyLimit
  /\ p.spentTotal + amount <= p.terms.totalLimit

WithinCaps(p, amount) ==
  /\ EffectiveToday(p) + amount <= p.terms.dailyLimit
  /\ EffectiveWeek(p) + amount <= p.terms.weeklyLimit
  /\ p.spentTotal + amount <= p.terms.totalLimit

\* _validateAggregateSpend; a sum that leaves uint256 reverts.
SpendAllowed(p, c, amount) ==
  /\ amount \in Uint \ {0}
  /\ c.selector # "batchPay" => amount <= p.terms.maxPerTx
  /\ WithinCaps(p, amount)

RailOf(selector) ==
  CASE selector = "transfer" -> "single"
    [] selector = "batchPay" -> "batch"
    [] selector \in {"createRequest", "payRequest"} -> "request"
    [] selector = "subscribe" -> "subscription"

\* Mutant: recipients are not compared with the allow-list.
CallAllowedAnyRecipient(id, c) ==
  /\ c.value = 0
  /\ c.target \in allowedTargets
  /\ RailOf(c.selector) \in policies[id].terms.allow
  /\ SpendAllowed(policies[id], c, TotalPaid(c))

\* _validateSingleChecked
CallAllowed(id, c) ==
  LET p == policies[id] IN
  /\ c.value = 0
  /\ c.target \in allowedTargets
  /\ c.selector \in Selector
  /\ c.selector = "transfer" => c.target = p.terms.token
  /\ RailOf(c.selector) \in p.terms.allow
  /\ c.selector = "batchPay" =>
       DOMAIN c.pays # {} /\ \A r \in DOMAIN c.pays : c.pays[r] # 0
  /\ c.selector \in {"createRequest", "payRequest"} =>
       c.payer \in {"anyone", p.terms.smartAccount}
  /\ c.selector = "subscribe" => c.times # 0
  /\ c.selector # "createRequest" => DOMAIN c.pays \subseteq allowedRecipients[id]
  /\ SpendAllowed(p, c, TotalPaid(c))

BatchTotal(calls) == FoldFunction(LAMBDA c, sum : TotalPaid(c) + sum, 0, calls)

\* _validateBatchChecked: every call alone, then the sum of all of them.
BatchAllowed(id, calls) ==
  LET p == policies[id] IN
  /\ calls # << >>
  /\ \A i \in DOMAIN calls : CallAllowed(id, calls[i])
  /\ BatchTotal(calls) \in Uint
  /\ Len(calls) = 1 => BatchTotal(calls) <= p.terms.maxPerTx
  /\ WithinCaps(p, BatchTotal(calls))

\* _basePolicyChecks
PolicyLive(id, account, key) ==
  /\ id \in DOMAIN policies
  /\ policies[id].active
  /\ ~policies[id].guardianRevoked
  /\ now >= policies[id].terms.validAfter
  /\ now <= policies[id].terms.validUntil
  /\ policies[id].terms.smartAccount = account
  /\ policies[id].terms.sessionKey = key

\* validateSessionCall and validateSessionBatchCall
SessionCallValid(id, account, key, c) ==
  PolicyLive(id, account, key) /\ CallAllowed(id, c)
SessionBatchValid(id, account, key, calls) ==
  PolicyLive(id, account, key) /\ BatchAllowed(id, calls)

-----------------------------------------------------------------------------
TransferOwnership(caller, newOwner) ==
  /\ caller = contractOwner
  /\ contractOwner' = newOwner
  /\ UNCHANGED <<policyVars, allowedTargets, accountOwner, now>>

SetAllowedTarget(caller, target, allowed) ==
  /\ caller = contractOwner
  /\ allowedTargets' = IF allowed THEN allowedTargets \cup {target}
                                  ELSE allowedTargets \ {target}
  /\ UNCHANGED <<contractOwner, policyVars, accountOwner, now>>

NewPolicy(p) ==
  [terms |-> p, owner |-> accountOwner[p.smartAccount],
   spentToday |-> 0, spentThisWeek |-> 0, spentTotal |-> 0,
   dayWindowStart |-> now, weekWindowStart |-> now,
   active |-> TRUE, guardianRevoked |-> FALSE]

ValidParams(p) ==
  /\ 0 \notin {p.maxPerTx, p.dailyLimit, p.weeklyLimit, p.totalLimit}
  /\ p.validUntil > now
  /\ p.validUntil > p.validAfter
  /\ p.recipients # {}
  /\ p.allow # {}
  /\ p.gas # {}

\* Mutant: the nonce is not taken, so the next policy gets the same id.
CreatePolicySameNonce(caller, p) ==
  LET id == <<p.smartAccount, policyNonce[p.smartAccount]>> IN
  /\ ValidParams(p)
  /\ caller \in {accountOwner[p.smartAccount], p.smartAccount}
  /\ policies' = [i \in DOMAIN policies \cup {id} |->
                    IF i = id THEN NewPolicy(p) ELSE policies[i]]
  /\ allowedRecipients' = [i \in DOMAIN policies \cup {id} |->
                    IF i = id THEN p.recipients ELSE allowedRecipients[i]]
  /\ UNCHANGED <<contractOwner, allowedTargets, policyNonce, accountOwner, now>>

CreatePolicy(caller, p) ==
  LET id == <<p.smartAccount, policyNonce[p.smartAccount]>> IN
  /\ ValidParams(p)
  /\ caller \in {accountOwner[p.smartAccount], p.smartAccount}
  /\ policyNonce[p.smartAccount] < MaxNonce
  /\ policyNonce' = [policyNonce EXCEPT ![p.smartAccount] = @ + 1]
  /\ policies' = [i \in DOMAIN policies \cup {id} |->
                    IF i = id THEN NewPolicy(p) ELSE policies[i]]
  /\ allowedRecipients' = [i \in DOMAIN policies \cup {id} |->
                    IF i = id THEN p.recipients ELSE allowedRecipients[i]]
  /\ UNCHANGED <<contractOwner, allowedTargets, accountOwner, now>>

MayManage(caller, id) ==
  /\ id \in DOMAIN policies
  /\ caller \in {policies[id].owner, policies[id].terms.smartAccount}

RevokePolicy(caller, id) ==
  /\ MayManage(caller, id)
  /\ policies' = [policies EXCEPT ![id].active = FALSE]
  /\ UNCHANGED <<contractOwner, allowedRecipients, allowedTargets, policyNonce,
                 accountOwner, now>>

GuardianRevoke(caller, id) ==
  /\ id \in DOMAIN policies
  /\ caller = policies[id].terms.guardian
  /\ policies' = [policies EXCEPT ![id].guardianRevoked = TRUE,
                                  ![id].active = FALSE]
  /\ UNCHANGED <<contractOwner, allowedRecipients, allowedTargets, policyNonce,
                 accountOwner, now>>

SetRecipients(caller, id, recipients, allowed) ==
  /\ MayManage(caller, id)
  /\ recipients # {}
  /\ allowedRecipients' =
       [allowedRecipients EXCEPT ![id] = IF allowed THEN @ \cup recipients
                                                    ELSE @ \ recipients]
  /\ UNCHANGED <<contractOwner, policies, allowedTargets, policyNonce,
                 accountOwner, now>>

\* _refreshWindows
RefreshWindows(p) ==
  [p EXCEPT
     !.dayWindowStart = IF now >= p.dayWindowStart + Day THEN now ELSE @,
     !.spentToday = EffectiveToday(p),
     !.weekWindowStart = IF now >= p.weekWindowStart + Week THEN now ELSE @,
     !.spentThisWeek = EffectiveWeek(p)]

\* Mutant: the week's counter is forgotten.
AddSpendNoWeek(p, amount) ==
  [RefreshWindows(p) EXCEPT !.spentToday = @ + amount, !.spentTotal = @ + amount]

AddSpend(p, amount) ==
  LET q == RefreshWindows(p) IN
  [q EXCEPT !.spentToday = @ + amount,
            !.spentThisWeek = @ + amount,
            !.spentTotal = @ + amount]

\* recordSessionCall.  The base checks are not repeated here.
RecordSessionCall(caller, id, c) ==
  /\ id \in DOMAIN policies
  /\ caller = policies[id].terms.smartAccount
  /\ CallAllowed(id, c)
  /\ policies' = [policies EXCEPT ![id] = AddSpend(@, TotalPaid(c))]
  /\ UNCHANGED <<contractOwner, allowedRecipients, allowedTargets, policyNonce,
                 accountOwner, now>>

RecordSessionBatchCall(caller, id, calls) ==
  /\ id \in DOMAIN policies
  /\ caller = policies[id].terms.smartAccount
  /\ BatchAllowed(id, calls)
  /\ policies' = [policies EXCEPT ![id] = AddSpend(@, BatchTotal(calls))]
  /\ UNCHANGED <<contractOwner, allowedRecipients, allowedTargets, policyNonce,
                 accountOwner, now>>

\* QevieSmartAccount.updateOwner
UpdateOwner(caller, account, newOwner) ==
  /\ caller \in {accountOwner[account], account}
  /\ accountOwner' = [accountOwner EXCEPT ![account] = newOwner]
  /\ UNCHANGED <<contractOwner, policyVars, allowedTargets, now>>

Tick ==
  /\ now < MaxTime
  /\ now' = now + 1
  /\ UNCHANGED <<contractOwner, policyVars, allowedTargets, accountOwner>>

\* The functions that manage the contract and its policies.
Manage(caller) ==
  \/ \E a \in NewOwner : TransferOwnership(caller, a)
  \/ \E t \in Target, b \in BOOLEAN : SetAllowedTarget(caller, t, b)
  \/ \E p \in Params : CreatePolicy(caller, p)
  \/ \E id \in DOMAIN policies :
       \/ RevokePolicy(caller, id)
       \/ GuardianRevoke(caller, id)
       \/ \E R \in SUBSET Recipient, b \in BOOLEAN : SetRecipients(caller, id, R, b)
  \/ \E a \in Account, o \in NewOwner : UpdateOwner(caller, a, o)

Record(caller) ==
  \E id \in DOMAIN policies :
    \/ \E c \in Call : RecordSessionCall(caller, id, c)
    \/ \E calls \in Batch : RecordSessionBatchCall(caller, id, calls)

Next ==
  \/ \E caller \in Address : Manage(caller) \/ Record(caller)
  \/ Tick

Spec == Init /\ [][Next]_vars

-----------------------------------------------------------------------------
(* Properties *)

\* No counter of a policy ever passes its limit, whoever calls the contract
\* and whatever day or week windows have opened and closed in between
\* (recordSessionCall, recordSessionBatchCall, _refreshWindows).
CountersWithinCaps ==
  \A id \in DOMAIN policies :
    LET p == policies[id] IN
    /\ p.spentToday <= p.terms.dailyLimit
    /\ p.spentThisWeek <= p.terms.weeklyLimit
    /\ p.spentTotal <= p.terms.totalLimit

\* A policy never comes back: once revoked it stays revoked, a guardian's veto
\* is never lifted, its terms never change, and what it has spent in total
\* never goes down; no sequence of calls re-creates it under the same id.
RevocationIsFinal ==
  [][\A id \in DOMAIN policies :
       /\ id \in DOMAIN policies'
       /\ ~policies[id].active => ~policies'[id].active
       /\ policies[id].guardianRevoked => policies'[id].guardianRevoked
       /\ policies'[id].terms = policies[id].terms
       /\ policies'[id].spentTotal >= policies[id].spentTotal]_vars
=============================================================================
