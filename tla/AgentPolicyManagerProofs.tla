----------------------- MODULE AgentPolicyManagerProofs -----------------------
(***************************************************************************)
(* Proofs about AgentPolicyManager for every set of accounts, keys,        *)
(* recipients, parameters and calls and every length of day and week, and  *)
(* about the preview of a file of rows (PolicyMirror) against the manager. *)
(***************************************************************************)
EXTENDS PolicyMirror, SumTheorems

\* What a recorded spend does to the policy: it stays a policy and within its
\* caps.  The premise is what CallAllowed and BatchAllowed establish.
LEMMA AddSpendFits ==
  ASSUME NEW p \in Policy, now \in Time,
         NEW amount \in Uint, WithinCaps(p, amount)
  PROVE  /\ AddSpend(p, amount) \in Policy
         /\ AddSpend(p, amount).spentToday <= p.terms.dailyLimit
         /\ AddSpend(p, amount).spentThisWeek <= p.terms.weeklyLimit
         /\ AddSpend(p, amount).spentTotal <= p.terms.totalLimit
         /\ AddSpend(p, amount).terms = p.terms
         /\ AddSpend(p, amount).active = p.active
         /\ AddSpend(p, amount).guardianRevoked = p.guardianRevoked
         /\ AddSpend(p, amount).spentTotal >= p.spentTotal
<1>1. /\ p.terms \in ParamType
      /\ p.spentToday \in Nat /\ p.spentThisWeek \in Nat /\ p.spentTotal \in Nat
  BY ParamAssumption, UintAssumption DEF Policy, Uint
<1>2. /\ p.terms.dailyLimit \in Uint
      /\ p.terms.weeklyLimit \in Uint
      /\ p.terms.totalLimit \in Uint
  BY <1>1 DEF ParamType
<1>3. /\ EffectiveToday(p) \in Nat
      /\ EffectiveWeek(p) \in Nat
  BY <1>1 DEF EffectiveToday, EffectiveWeek
<1>4. /\ AddSpend(p, amount).spentToday = EffectiveToday(p) + amount
      /\ AddSpend(p, amount).spentThisWeek = EffectiveWeek(p) + amount
      /\ AddSpend(p, amount).spentTotal = p.spentTotal + amount
      /\ AddSpend(p, amount).terms = p.terms
      /\ AddSpend(p, amount).owner = p.owner
      /\ AddSpend(p, amount).active = p.active
      /\ AddSpend(p, amount).guardianRevoked = p.guardianRevoked
  BY DEF AddSpend, RefreshWindows, Policy
<1>5. AddSpend(p, amount) \in Policy
  <2>1. /\ EffectiveToday(p) \in Uint
        /\ EffectiveWeek(p) \in Uint
    BY UintAssumption DEF EffectiveToday, EffectiveWeek, Policy, Uint
  <2>2. RefreshWindows(p) \in Policy
    BY <2>1 DEF RefreshWindows, Policy
  <2>3. /\ EffectiveToday(p) + amount \in Uint
        /\ EffectiveWeek(p) + amount \in Uint
        /\ p.spentTotal + amount \in Uint
    BY <1>1, <1>2, <1>3, UintAssumption DEF WithinCaps, Uint
  <2>4. /\ RefreshWindows(p).spentToday = EffectiveToday(p)
        /\ RefreshWindows(p).spentThisWeek = EffectiveWeek(p)
        /\ RefreshWindows(p).spentTotal = p.spentTotal
    BY DEF RefreshWindows, Policy
  <2>. QED
    BY <2>2, <2>3, <2>4 DEF AddSpend, Policy
<1>. QED
  BY <1>1, <1>2, <1>3, <1>4, <1>5, UintAssumption DEF WithinCaps, Uint

-----------------------------------------------------------------------------
(* The inductive invariant: types and caps need each other, because a counter
   within its cap is what keeps it a uint256.                                *)

IInv == TypeOK /\ CountersWithinCaps

LEMMA InitIInv == Init => IInv
<1>. SUFFICES ASSUME Init PROVE IInv
  OBVIOUS
<1>1. DOMAIN policies = {} /\ DOMAIN allowedRecipients = {}
  BY DEF Init
<1>2. TypeOK
  BY <1>1, AddressAssumption, TimeAssumption DEF Init, TypeOK, Time
<1>3. CountersWithinCaps
  BY <1>1 DEF CountersWithinCaps
<1>. QED
  BY <1>2, <1>3 DEF IInv

\* A step that replaces one policy by one of the same terms and within caps.
LEMMA PolicyUpdate ==
  ASSUME IInv, NEW id \in DOMAIN policies, NEW q \in Policy,
         q.spentToday <= q.terms.dailyLimit,
         q.spentThisWeek <= q.terms.weeklyLimit,
         q.spentTotal <= q.terms.totalLimit,
         policies' = [policies EXCEPT ![id] = q],
         UNCHANGED <<contractOwner, allowedRecipients, allowedTargets,
                     policyNonce, accountOwner, now>>
  PROVE  IInv'
<1>1. DOMAIN policies' = DOMAIN policies
  BY DEF IInv, TypeOK
<1>2. \A i \in DOMAIN policies : policies'[i] = IF i = id THEN q ELSE policies[i]
  BY DEF IInv, TypeOK
<1>3. policies' \in [DOMAIN policies' -> Policy]
  BY <1>1, <1>2 DEF IInv, TypeOK
<1>4. TypeOK'
  BY <1>1, <1>3 DEF IInv, TypeOK
<1>5. CountersWithinCaps'
  BY <1>1, <1>2 DEF IInv, CountersWithinCaps
<1>. QED
  BY <1>4, <1>5 DEF IInv

LEMMA CreatePolicyIInv ==
  ASSUME IInv, NEW caller, NEW p \in Params, CreatePolicy(caller, p)
  PROVE  IInv'
<1>. DEFINE id == <<p.smartAccount, policyNonce[p.smartAccount]>>
<1>1. /\ p \in ParamType
      /\ p.smartAccount \in Account
      /\ p.recipients \in SUBSET Recipient
  BY ParamAssumption DEF ParamType
<1>2. policyNonce[p.smartAccount] \in 0..MaxNonce
  BY <1>1 DEF IInv, TypeOK
<1>3. id \in PolicyId
  BY <1>1, <1>2 DEF PolicyId
<1>4. NewPolicy(p) \in Policy
  BY <1>1, UintAssumption DEF NewPolicy, Policy, IInv, TypeOK, Uint
<1>5. /\ DOMAIN policies' = DOMAIN policies \cup {id}
      /\ \A i \in DOMAIN policies' :
           policies'[i] = IF i = id THEN NewPolicy(p) ELSE policies[i]
      /\ policies' \in [DOMAIN policies' -> Policy]
  BY <1>4 DEF CreatePolicy, IInv, TypeOK
<1>6. allowedRecipients' \in [DOMAIN policies' -> SUBSET Recipient]
  BY <1>1, <1>5 DEF CreatePolicy, IInv, TypeOK
<1>7. policyNonce' \in [Account -> 0..MaxNonce]
  BY <1>1, <1>2, TimeAssumption DEF CreatePolicy, IInv, TypeOK
<1>8. TypeOK'
  BY <1>3, <1>5, <1>6, <1>7 DEF CreatePolicy, IInv, TypeOK
<1>9. /\ p.dailyLimit \in Nat
      /\ p.weeklyLimit \in Nat
      /\ p.totalLimit \in Nat
  BY <1>1, UintAssumption DEF ParamType, Uint
<1>10. CountersWithinCaps'
  BY <1>5, <1>9 DEF IInv, CountersWithinCaps, NewPolicy
<1>. QED
  BY <1>8, <1>10 DEF IInv

LEMMA RecordIInv ==
  ASSUME IInv, NEW caller, Record(caller)
  PROVE  IInv'
<1>1. PICK id \in DOMAIN policies, amount \in Uint :
        /\ WithinCaps(policies[id], amount)
        /\ policies' = [policies EXCEPT ![id] = AddSpend(policies[id], amount)]
        /\ UNCHANGED <<contractOwner, allowedRecipients, allowedTargets,
                       policyNonce, accountOwner, now>>
  BY DEF Record, RecordSessionCall, RecordSessionBatchCall, CallAllowed,
         BatchAllowed, SpendAllowed
<1>2. policies[id] \in Policy /\ now \in Time
  BY DEF IInv, TypeOK
<1>3. AddSpend(policies[id], amount).terms = policies[id].terms
  BY <1>1, <1>2, AddSpendFits
<1>. QED
  BY <1>1, <1>2, <1>3, AddSpendFits, PolicyUpdate

LEMMA RevokeIInv ==
  ASSUME IInv, NEW caller, NEW id \in DOMAIN policies,
         RevokePolicy(caller, id) \/ GuardianRevoke(caller, id)
  PROVE  IInv'
<1>. DEFINE p == policies[id]
<1>1. p \in Policy
  BY DEF IInv, TypeOK
<1>2. PICK q \in Policy :
        /\ q.terms = p.terms
        /\ q.spentToday = p.spentToday
        /\ q.spentThisWeek = p.spentThisWeek
        /\ q.spentTotal = p.spentTotal
        /\ policies' = [policies EXCEPT ![id] = q]
  <2>1. CASE RevokePolicy(caller, id)
    <3>. DEFINE q == [p EXCEPT !.active = FALSE]
    <3>1. q \in Policy
      BY <1>1 DEF Policy
    <3>. QED
      BY <1>1, <2>1, <3>1 DEF RevokePolicy, Policy
  <2>2. CASE GuardianRevoke(caller, id)
    <3>. DEFINE q == [p EXCEPT !.guardianRevoked = TRUE, !.active = FALSE]
    <3>1. q \in Policy
      BY <1>1 DEF Policy
    <3>. QED
      BY <1>1, <2>2, <3>1 DEF GuardianRevoke, Policy
  <2>. QED BY <2>1, <2>2
<1>3. /\ q.spentToday <= q.terms.dailyLimit
      /\ q.spentThisWeek <= q.terms.weeklyLimit
      /\ q.spentTotal <= q.terms.totalLimit
  BY <1>2 DEF IInv, CountersWithinCaps
<1>4. UNCHANGED <<contractOwner, allowedRecipients, allowedTargets,
                  policyNonce, accountOwner, now>>
  BY DEF RevokePolicy, GuardianRevoke
<1>. QED
  BY <1>2, <1>3, <1>4, PolicyUpdate

\* The remaining functions leave policies alone.
LEMMA ListsIInv ==
  ASSUME IInv, UNCHANGED policies, TypeOK'
  PROVE  IInv'
BY DEF IInv, CountersWithinCaps

LEMMA NextIInv == IInv /\ [Next]_vars => IInv'
<1>. SUFFICES ASSUME IInv, [Next]_vars PROVE IInv'
  OBVIOUS
<1>1. ASSUME NEW caller \in Address, Manage(caller) PROVE IInv'
  <2>1. ASSUME NEW a \in NewOwner, TransferOwnership(caller, a) PROVE IInv'
    BY <2>1, ListsIInv, AddressAssumption
       DEF TransferOwnership, policyVars, IInv, TypeOK
  <2>2. ASSUME NEW t \in Target, NEW b \in BOOLEAN, SetAllowedTarget(caller, t, b)
        PROVE IInv'
    BY <2>2, ListsIInv DEF SetAllowedTarget, policyVars, IInv, TypeOK
  <2>3. ASSUME NEW p \in Params, CreatePolicy(caller, p) PROVE IInv'
    BY <2>3, CreatePolicyIInv
  <2>4. ASSUME NEW id \in DOMAIN policies,
               RevokePolicy(caller, id) \/ GuardianRevoke(caller, id)
        PROVE IInv'
    BY <2>4, RevokeIInv
  <2>5. ASSUME NEW id \in DOMAIN policies, NEW R \in SUBSET Recipient,
               NEW b \in BOOLEAN, SetRecipients(caller, id, R, b)
        PROVE IInv'
    <3>1. allowedRecipients' \in [DOMAIN policies -> SUBSET Recipient]
      BY <2>5 DEF SetRecipients, IInv, TypeOK
    <3>. QED
      BY <2>5, <3>1, ListsIInv DEF SetRecipients, IInv, TypeOK
  <2>6. ASSUME NEW a \in Account, NEW o \in NewOwner, UpdateOwner(caller, a, o)
        PROVE IInv'
    <3>1. accountOwner' \in [Account -> Address]
      BY <2>6, AddressAssumption DEF UpdateOwner, IInv, TypeOK
    <3>. QED
      BY <2>6, <3>1, ListsIInv DEF UpdateOwner, policyVars, IInv, TypeOK
  <2>. QED
    BY <1>1, <2>1, <2>2, <2>3, <2>4, <2>5, <2>6 DEF Manage
<1>2. ASSUME NEW caller \in Address, Record(caller) PROVE IInv'
  BY <1>2, RecordIInv
<1>3. CASE Tick
  BY <1>3, ListsIInv, TimeAssumption DEF Tick, policyVars, IInv, TypeOK, Time
<1>4. CASE UNCHANGED vars
  BY <1>4, ListsIInv DEF vars, IInv, TypeOK
<1>. QED
  BY <1>1, <1>2, <1>3, <1>4 DEF Next

\* The types of the contract's state in every reachable state.
THEOREM ManagerTypeOK == Spec => []TypeOK
<1>1. IInv => TypeOK
  BY DEF IInv
<1>. QED
  BY InitIInv, NextIInv, <1>1, PTL DEF Spec

\* No counter of a policy passes its limit under any client: whatever order
\* wallets, accounts and the clock act in (recordSessionCall,
\* recordSessionBatchCall, _validateAggregateSpend, _refreshWindows).
THEOREM ManagerWithinCaps == Spec => []CountersWithinCaps
<1>1. IInv => CountersWithinCaps
  BY DEF IInv
<1>. QED
  BY InitIInv, NextIInv, <1>1, PTL DEF Spec
-----------------------------------------------------------------------------
(* Revocation is final.  Creation is the one step that could bring a policy
   back: it must never meet an id that already exists.  That needs the nonce of
   an account to be above that of all its policies.                          *)

NoncesAreFresh ==
  \A id \in DOMAIN policies : id[2] < policyNonce[id[1]]

LEMMA NoncesStayFresh == IInv /\ NoncesAreFresh /\ [Next]_vars => NoncesAreFresh'
<1>. SUFFICES ASSUME IInv, NoncesAreFresh, [Next]_vars PROVE NoncesAreFresh'
  OBVIOUS
<1>1. ASSUME DOMAIN policies' = DOMAIN policies, UNCHANGED policyNonce
      PROVE  NoncesAreFresh'
  BY <1>1 DEF NoncesAreFresh
<1>2. ASSUME NEW caller \in Address, NEW p \in Params, CreatePolicy(caller, p)
      PROVE  NoncesAreFresh'
  <2>1. p.smartAccount \in Account
    BY ParamAssumption DEF ParamType
  <2>2. DOMAIN policies' =
          DOMAIN policies \cup {<<p.smartAccount, policyNonce[p.smartAccount]>>}
    BY <1>2 DEF CreatePolicy
  <2>3. \A a \in Account : /\ policyNonce[a] \in Nat
                           /\ policyNonce'[a] =
                                IF a = p.smartAccount THEN policyNonce[a] + 1
                                                      ELSE policyNonce[a]
    BY <1>2, TimeAssumption DEF CreatePolicy, IInv, TypeOK
  <2>4. \A id \in DOMAIN policies : id[1] \in Account /\ id[2] \in Nat
    BY TimeAssumption DEF IInv, TypeOK, PolicyId
  <2>. QED
    BY <2>1, <2>2, <2>3, <2>4 DEF NoncesAreFresh
<1>3. ASSUME NEW caller \in Address, Manage(caller) PROVE NoncesAreFresh'
  BY <1>1, <1>2, <1>3
     DEF Manage, TransferOwnership, SetAllowedTarget, RevokePolicy,
         GuardianRevoke, SetRecipients, UpdateOwner, policyVars, IInv, TypeOK
<1>4. ASSUME NEW caller \in Address, Record(caller) PROVE NoncesAreFresh'
  BY <1>1, <1>4
     DEF Record, RecordSessionCall, RecordSessionBatchCall, IInv, TypeOK
<1>5. CASE Tick
  BY <1>1, <1>5 DEF Tick, policyVars
<1>6. CASE UNCHANGED vars
  BY <1>1, <1>6 DEF vars
<1>. QED
  BY <1>3, <1>4, <1>5, <1>6 DEF Next

\* One step of one policy.
PolicyGoesForward(id) ==
  /\ id \in DOMAIN policies'
  /\ ~policies[id].active => ~policies'[id].active
  /\ policies[id].guardianRevoked => policies'[id].guardianRevoked
  /\ policies'[id].terms = policies[id].terms
  /\ policies'[id].spentTotal >= policies[id].spentTotal

LEMMA PoliciesGoForward ==
  ASSUME IInv, NoncesAreFresh, [Next]_vars, NEW id \in DOMAIN policies
  PROVE  PolicyGoesForward(id)
<1>1. /\ policies[id] \in Policy
      /\ policies[id].spentTotal \in Nat
      /\ now \in Time
  BY UintAssumption DEF IInv, TypeOK, Policy, Uint
<1>2. ASSUME policies' = policies PROVE PolicyGoesForward(id)
  BY <1>1, <1>2 DEF PolicyGoesForward
<1>3. ASSUME NEW caller \in Address, Manage(caller) PROVE PolicyGoesForward(id)
  <2>1. ASSUME NEW p \in Params, CreatePolicy(caller, p)
        PROVE  PolicyGoesForward(id)
    <3>1. /\ id[1] \in Account /\ id[2] \in Nat
          /\ id = <<id[1], id[2]>>
      BY TimeAssumption DEF IInv, TypeOK, PolicyId
    <3>2. id # <<p.smartAccount, policyNonce[p.smartAccount]>>
      BY <3>1 DEF NoncesAreFresh
    <3>3. policies'[id] = policies[id] /\ id \in DOMAIN policies'
      BY <2>1, <3>2 DEF CreatePolicy
    <3>. QED
      BY <1>1, <3>3 DEF PolicyGoesForward
  <2>2. ASSUME NEW i \in DOMAIN policies,
               RevokePolicy(caller, i) \/ GuardianRevoke(caller, i)
        PROVE  PolicyGoesForward(id)
    BY <1>1, <2>2, SMTT(30)
       DEF RevokePolicy, GuardianRevoke, PolicyGoesForward, IInv, TypeOK, Policy
  <2>. QED
    BY <1>2, <1>3, <2>1, <2>2
       DEF Manage, TransferOwnership, SetAllowedTarget, SetRecipients,
           UpdateOwner, policyVars
<1>4. ASSUME NEW caller \in Address, Record(caller) PROVE PolicyGoesForward(id)
  <2>1. PICK i \in DOMAIN policies, amount \in Uint :
          /\ WithinCaps(policies[i], amount)
          /\ policies' = [policies EXCEPT ![i] = AddSpend(policies[i], amount)]
    BY <1>4 DEF Record, RecordSessionCall, RecordSessionBatchCall, CallAllowed,
                BatchAllowed, SpendAllowed
  <2>2. policies[i] \in Policy
    BY DEF IInv, TypeOK
  <2>3. /\ AddSpend(policies[i], amount).terms = policies[i].terms
        /\ AddSpend(policies[i], amount).active = policies[i].active
        /\ AddSpend(policies[i], amount).guardianRevoked
             = policies[i].guardianRevoked
        /\ AddSpend(policies[i], amount).spentTotal >= policies[i].spentTotal
    BY <1>1, <2>1, <2>2, AddSpendFits
  <2>. QED
    BY <1>1, <2>1, <2>3 DEF PolicyGoesForward, IInv, TypeOK
<1>. QED
  BY <1>2, <1>3, <1>4 DEF Next, Tick, vars, policyVars

\* A revoked policy stays revoked, keeps its terms and never forgets what it
\* has spent, for every client and every number of policies per account
\* (revokePolicy, guardianRevoke, createPolicy's policyNonce).
THEOREM ManagerRevocationIsFinal == Spec => RevocationIsFinal
<1>1. Init => NoncesAreFresh
  BY DEF Init, NoncesAreFresh
<1>2. IInv /\ NoncesAreFresh /\ [Next]_vars =>
        [\A id \in DOMAIN policies :
           /\ id \in DOMAIN policies'
           /\ ~policies[id].active => ~policies'[id].active
           /\ policies[id].guardianRevoked => policies'[id].guardianRevoked
           /\ policies'[id].terms = policies[id].terms
           /\ policies'[id].spentTotal >= policies[id].spentTotal]_vars
  BY PoliciesGoForward DEF PolicyGoesForward
<1>. QED
  BY <1>1, <1>2, InitIInv, NextIInv, NoncesStayFresh, PTL
     DEF Spec, RevocationIsFinal
-----------------------------------------------------------------------------
(***************************************************************************)
(* The preview of a file.  The rows before a row have accrued at least     *)
(* what the valid ones among them spend, and a counter read from storage   *)
(* is at least the one that is compared, because a window that is over     *)
(* counts from zero.                                                       *)
(***************************************************************************)

\* Policies are created with limits, and with an end.
TermsAreLimits ==
  \A id \in DOMAIN policies : LET terms == policies[id].terms IN
    /\ 0 \notin {terms.maxPerTx, terms.dailyLimit, terms.weeklyLimit, terms.totalLimit}
    /\ terms.validUntil # 0

LEMMA TermsStayLimits == IInv /\ NoncesAreFresh /\ TermsAreLimits /\ [Next]_vars => TermsAreLimits'
<1>. SUFFICES ASSUME IInv, NoncesAreFresh, TermsAreLimits, [Next]_vars, NEW id \in DOMAIN policies'
              PROVE  /\ 0 \notin {policies'[id].terms.maxPerTx, policies'[id].terms.dailyLimit,
                                  policies'[id].terms.weeklyLimit, policies'[id].terms.totalLimit}
                     /\ policies'[id].terms.validUntil # 0
  BY DEF TermsAreLimits
<1>1. CASE id \in DOMAIN policies
  <2>1. policies'[id].terms = policies[id].terms
    BY <1>1, PoliciesGoForward DEF PolicyGoesForward
  <2>. QED
    BY <1>1, <2>1 DEF TermsAreLimits
<1>2. CASE id \notin DOMAIN policies
  <2>1. ASSUME NEW caller \in Address, NEW p \in Params, CreatePolicy(caller, p)
        PROVE  policies'[id].terms = p /\ ValidParams(p)
    <3>1. policies'[id] = NewPolicy(p)
      BY <1>2, <2>1 DEF CreatePolicy
    <3>. QED
      BY <2>1, <3>1 DEF CreatePolicy, NewPolicy
  <2>2. ASSUME NEW p \in Params, ValidParams(p), policies'[id].terms = p
        PROVE  /\ 0 \notin {policies'[id].terms.maxPerTx, policies'[id].terms.dailyLimit,
                            policies'[id].terms.weeklyLimit, policies'[id].terms.totalLimit}
               /\ policies'[id].terms.validUntil # 0
    <3>1. now \in Nat /\ p.validUntil \in Nat
      BY ParamAssumption, TimeAssumption DEF IInv, TypeOK, Time, ParamType
    <3>. QED
      BY <2>2, <3>1 DEF ValidParams
  <2>3. ASSUME NEW caller \in Address, Record(caller) PROVE DOMAIN policies' = DOMAIN policies
    BY <2>3 DEF Record, RecordSessionCall, RecordSessionBatchCall
  <2>4. ASSUME NEW caller \in Address, NEW i \in DOMAIN policies,
               RevokePolicy(caller, i) \/ GuardianRevoke(caller, i)
        PROVE  DOMAIN policies' = DOMAIN policies
    BY <2>4 DEF RevokePolicy, GuardianRevoke
  <2>5. CASE UNCHANGED policies
    BY <1>2, <2>5
  <2>. QED
    BY <1>2, <2>1, <2>2, <2>3, <2>4, <2>5
       DEF Next, Manage, Tick, TransferOwnership, SetAllowedTarget, SetRecipients, UpdateOwner,
           vars, policyVars
<1>. QED
  BY <1>1, <1>2

\* A policy whose counters are any numbers, as a preview counts.
Counted ==
  [terms : Params, owner : Address, spentToday : Nat, spentThisWeek : Nat, spentTotal : Nat,
   dayWindowStart : Time, weekWindowStart : Time, active : BOOLEAN, guardianRevoked : BOOLEAN]

LEMMA SpendCounts ==
  ASSUME now \in Time, NEW p \in Counted, NEW amount \in Nat
  PROVE  /\ AddSpend(p, amount) \in Counted
         /\ AddSpend(p, amount).terms = p.terms
         /\ EffectiveToday(AddSpend(p, amount)) = EffectiveToday(p) + amount
         /\ EffectiveWeek(AddSpend(p, amount)) = EffectiveWeek(p) + amount
         /\ AddSpend(p, amount).spentTotal = p.spentTotal + amount
<1>1. /\ now \in Nat /\ Day \in Nat \ {0} /\ Week \in Nat \ {0}
      /\ p.dayWindowStart \in Nat /\ p.weekWindowStart \in Nat
      /\ p.spentToday \in Nat /\ p.spentThisWeek \in Nat /\ p.spentTotal \in Nat
  BY TimeAssumption DEF Counted, Time
<1>2. PICK d \in Nat, w \in Nat : d = EffectiveToday(p) /\ w = EffectiveWeek(p)
  BY <1>1 DEF EffectiveToday, EffectiveWeek
<1>3. PICK ds \in Time, ws \in Time :
        /\ ds = IF now >= p.dayWindowStart + Day THEN now ELSE p.dayWindowStart
        /\ ws = IF now >= p.weekWindowStart + Week THEN now ELSE p.weekWindowStart
  BY DEF Counted
<1>4. ~ now >= ds + Day /\ ~ now >= ws + Week
  BY <1>1, <1>3
<1>5. PICK q : q = [p EXCEPT !.dayWindowStart = ds, !.spentToday = d + amount,
                             !.weekWindowStart = ws, !.spentThisWeek = w + amount,
                             !.spentTotal = p.spentTotal + amount]
  OBVIOUS
<1>6. d + amount \in Nat /\ w + amount \in Nat /\ p.spentTotal + amount \in Nat
  BY <1>1, <1>2
<1>7. /\ q \in Counted /\ q.terms = p.terms /\ q.spentTotal = p.spentTotal + amount
      /\ q.dayWindowStart = ds /\ q.weekWindowStart = ws
      /\ q.spentToday = d + amount /\ q.spentThisWeek = w + amount
  BY <1>5, <1>6 DEF Counted
<1>8. AddSpend(p, amount) = q
  BY <1>2, <1>3, <1>5 DEF AddSpend, RefreshWindows, Counted
<1>9. EffectiveToday(q) = d + amount /\ EffectiveWeek(q) = w + amount
  BY <1>4, <1>7 DEF EffectiveToday, EffectiveWeek
<1>. QED
  BY <1>2, <1>7, <1>8, <1>9

RowType == [type : {"pay", "request", "subscription"}, recipient : Recipient, amount : Uint \ {0}]

LEMMA RowIsTyped ==
  ASSUME NEW rows \in RowLists, NEW i \in DOMAIN rows
  PROVE  /\ rows[i].amount \in Nat \ {0} /\ rows[i].amount \in Uint
         /\ rows[i].recipient \in Recipient
         /\ rows[i].type \in {"pay", "request", "subscription"}
         /\ Len(rows) \in Nat /\ DOMAIN rows = 1..Len(rows)
<1>1. rows \in Seq(RowType)
  BY RowListsAssumption DEF RowListsAssumption, RowType
<1>2. rows[i] \in RowType /\ Len(rows) \in Nat /\ DOMAIN rows = 1..Len(rows)
  BY <1>1
<1>. QED
  BY <1>2, UintAssumption DEF RowType, Uint

\* The function that is chosen, and the equation it is chosen by.
Accrues(g, id, rows) ==
  g = [i \in 0..Len(rows) |->
         IF i = 0 THEN 0
         ELSE g[i - 1] + (IF PolicyStatus(id, rows[i], g[i - 1]) = "blocked" THEN 0 ELSE rows[i].amount)]

LEMMA RowsAreTyped ==
  ASSUME NEW rows \in RowLists
  PROVE  /\ Len(rows) \in Nat /\ DOMAIN rows = 1..Len(rows)
         /\ \A i \in 1..Len(rows) : rows[i].amount \in Nat
<1>1. rows \in Seq(RowType)
  BY RowListsAssumption DEF RowListsAssumption, RowType
<1>. QED
  BY <1>1, RowIsTyped

LEMMA AccruedSteps ==
  ASSUME NEW id, NEW rows \in RowLists
  PROVE  /\ Accrued(id, rows) \in [0..Len(rows) -> Nat]
         /\ Accrued(id, rows)[0] = 0
         /\ \A i \in 1..Len(rows) :
              Accrued(id, rows)[i] =
                Accrued(id, rows)[i - 1]
                  + (IF PolicyStatus(id, rows[i], Accrued(id, rows)[i - 1]) = "blocked" THEN 0
                     ELSE rows[i].amount)
<1>1. Len(rows) \in Nat /\ \A i \in 1..Len(rows) : rows[i].amount \in Nat
  BY RowsAreTyped
<1>2. PICK step : step = [i \in 1..Len(rows) |-> [v \in Nat |->
        v + (IF PolicyStatus(id, rows[i], v) = "blocked" THEN 0 ELSE rows[i].amount)]]
  OBVIOUS
<1>3. step \in [1..Len(rows) -> [Nat -> Nat]]
  BY <1>1, <1>2
<1>4. PICK f \in [0..Len(rows) -> Nat] : IsChain(f, Len(rows), 0, step)
  BY <1>1, <1>3, ChainExists
<1>5. Accrues(f, id, rows)
  <2>1. \A i \in 0..Len(rows) : f[i] = IF i = 0 THEN 0 ELSE step[i][f[i - 1]]
    BY <1>4 DEF IsChain
  <2>2. ASSUME NEW i \in 0..Len(rows)
        PROVE  f[i] = IF i = 0 THEN 0
                      ELSE f[i - 1] + (IF PolicyStatus(id, rows[i], f[i - 1]) = "blocked" THEN 0
                                       ELSE rows[i].amount)
    <3>1. CASE i = 0
      BY <2>1, <3>1
    <3>2. CASE i # 0
      <4>1. i \in 1..Len(rows) /\ i - 1 \in 0..Len(rows)
        BY <1>1, <3>2
      <4>2. f[i - 1] \in Nat
        BY <4>1
      <4>. QED
        BY <1>2, <2>1, <3>2, <4>1, <4>2
    <3>. QED
      BY <3>1, <3>2
  <2>3. f = [i \in 0..Len(rows) |-> f[i]]
    OBVIOUS
  <2>. QED
    BY <2>2, <2>3 DEF Accrues
<1>6. PICK g : g = Accrued(id, rows)
  OBVIOUS
<1>7. Accrues(g, id, rows)
  <2>1. g = CHOOSE h : Accrues(h, id, rows)
    BY <1>6 DEF Accrued, Accrues
  <2>. QED
    BY <1>5, <2>1
<1>8. g[0] = 0
  BY <1>1, <1>7 DEF Accrues
<1>9. \A i \in 1..Len(rows) :
        g[i] = g[i - 1] + (IF PolicyStatus(id, rows[i], g[i - 1]) = "blocked" THEN 0 ELSE rows[i].amount)
  <2>1. ASSUME NEW i \in 1..Len(rows)
        PROVE  g[i] = g[i - 1] + (IF PolicyStatus(id, rows[i], g[i - 1]) = "blocked" THEN 0 ELSE rows[i].amount)
    <3>1. i \in 0..Len(rows) /\ i # 0
      BY <1>1
    <3>. QED
      BY <1>7, <3>1, Zenon DEF Accrues
  <2>. QED
    BY <2>1
<1>10. \A i \in 0..Len(rows) : g[i] \in Nat
  <2>. DEFINE A == {i \in 0..Len(rows) : g[i] \in Nat}
  <2>1. 0 \in A
    BY <1>1, <1>8
  <2>2. ASSUME NEW i \in 1..Len(rows), i - 1 \in A PROVE i \in A
    <3>1. g[i - 1] \in Nat /\ rows[i].amount \in Nat /\ i \in 0..Len(rows)
      BY <1>1, <2>2
    <3>. QED
      BY <1>9, <3>1
  <2>. HIDE DEF A
  <2>3. \A i \in 0..Len(rows) : i \in A
    BY <1>1, <2>1, <2>2, UpToInduction
  <2>. QED
    BY <2>3 DEF A
<1>11. g \in [0..Len(rows) -> Nat]
  BY <1>7, <1>10 DEF Accrues
<1>. QED
  BY <1>6, <1>8, <1>9, <1>11

\* The same of the policy's counters as the valid rows run.
Follows(g, id, rows, status) ==
  g = [i \in 0..Len(rows) |->
         IF i = 0 THEN policies[id]
         ELSE IF status[i] = "valid" THEN AddSpend(g[i - 1], rows[i].amount) ELSE g[i - 1]]

LEMMA AfterSteps ==
  ASSUME now \in Time, NEW id, policies[id] \in Counted, NEW rows \in RowLists, NEW status
  PROVE  /\ PolicyAfter(id, rows, status)[0] = policies[id]
         /\ \A i \in 1..Len(rows) :
              PolicyAfter(id, rows, status)[i] =
                IF status[i] = "valid" THEN AddSpend(PolicyAfter(id, rows, status)[i - 1], rows[i].amount)
                ELSE PolicyAfter(id, rows, status)[i - 1]
<1>1. Len(rows) \in Nat /\ \A i \in 1..Len(rows) : rows[i].amount \in Nat
  BY RowsAreTyped
<1>2. PICK step : step = [i \in 1..Len(rows) |-> [v \in Counted |->
        IF status[i] = "valid" THEN AddSpend(v, rows[i].amount) ELSE v]]
  OBVIOUS
<1>3. step \in [1..Len(rows) -> [Counted -> Counted]]
  BY <1>1, <1>2, SpendCounts
<1>4. PICK f \in [0..Len(rows) -> Counted] : IsChain(f, Len(rows), policies[id], step)
  BY <1>1, <1>3, ChainExists
<1>5. Follows(f, id, rows, status)
  <2>1. \A i \in 0..Len(rows) : f[i] = IF i = 0 THEN policies[id] ELSE step[i][f[i - 1]]
    BY <1>4 DEF IsChain
  <2>2. ASSUME NEW i \in 0..Len(rows)
        PROVE  f[i] = IF i = 0 THEN policies[id]
                      ELSE IF status[i] = "valid" THEN AddSpend(f[i - 1], rows[i].amount) ELSE f[i - 1]
    <3>1. CASE i = 0
      BY <2>1, <3>1
    <3>2. CASE i # 0
      <4>1. i \in 1..Len(rows) /\ i - 1 \in 0..Len(rows)
        BY <1>1, <3>2
      <4>2. f[i - 1] \in Counted
        BY <4>1
      <4>. QED
        BY <1>2, <2>1, <3>2, <4>1, <4>2
    <3>. QED
      BY <3>1, <3>2
  <2>3. f = [i \in 0..Len(rows) |-> f[i]]
    OBVIOUS
  <2>. QED
    BY <2>2, <2>3 DEF Follows
<1>6. PICK g : g = PolicyAfter(id, rows, status)
  OBVIOUS
<1>7. Follows(g, id, rows, status)
  <2>1. g = CHOOSE h : Follows(h, id, rows, status)
    BY <1>6 DEF PolicyAfter, Follows
  <2>. QED
    BY <1>5, <2>1
<1>8. g[0] = policies[id]
  BY <1>1, <1>7 DEF Follows
<1>9. \A i \in 1..Len(rows) :
        g[i] = IF status[i] = "valid" THEN AddSpend(g[i - 1], rows[i].amount) ELSE g[i - 1]
  <2>1. ASSUME NEW i \in 1..Len(rows)
        PROVE  g[i] = IF status[i] = "valid" THEN AddSpend(g[i - 1], rows[i].amount) ELSE g[i - 1]
    <3>1. i \in 0..Len(rows) /\ i # 0
      BY <1>1
    <3>. QED
      BY <1>7, <3>1, Zenon DEF Follows
  <2>. QED
    BY <2>1
<1>. QED
  BY <1>6, <1>8, <1>9

\* What a transfer of the executor pays.
LEMMA TransferPays ==
  ASSUME NEW id, NEW row, row.amount \in Nat
  PROVE  TotalPaid(TransferOf(id, row)) = row.amount
<1>1. PICK f : f = [r \in {row.recipient} |-> row.amount]
  OBVIOUS
<1>2. DOMAIN f = {row.recipient} /\ f[row.recipient] = row.amount
  BY <1>1
<1>3. FoldFunction(LAMBDA x, y : x + y, 0, f) = Total(f, {row.recipient})
  BY <1>2 DEF FoldFunction, Total
<1>4. Total(f, {} \cup {row.recipient}) = f[row.recipient] + Total(f, {})
  BY <1>2, FS_EmptySet, TotalAdd
<1>5. Total(f, {row.recipient}) = row.amount
  <2>1. {} \cup {row.recipient} = {row.recipient}
    OBVIOUS
  <2>. QED
    BY <1>2, <1>4, <2>1, TotalEmpty
<1>6. TransferOf(id, row).times = 1 /\ TransferOf(id, row).pays = f
  BY <1>1 DEF TransferOf
<1>7. TotalPaid(TransferOf(id, row)) = 1 * FoldFunction(LAMBDA x, y : x + y, 0, f)
  BY <1>6, Zenon DEF TotalPaid
<1>8. 1 * row.amount = row.amount
  OBVIOUS
<1>. QED
  BY <1>3, <1>5, <1>7, <1>8, Zenon

LEMMA BoundGrows ==
  ASSUME NEW used \in Nat, NEW stored \in Nat, NEW n \in Nat, NEW more \in Nat, NEW m,
         used <= stored + n, m = n + more
  PROVE  used + more <= stored + m
OBVIOUS

LEMMA BoundStays ==
  ASSUME NEW used \in Nat, NEW stored \in Nat, NEW n \in Nat, NEW m \in Nat,
         used <= stored + n, m >= n
  PROVE  used <= stored + m
OBVIOUS

\* The counters the chain compares after the valid rows are at most those the
\* preview compares.
LEMMA PreviewCountsMore ==
  ASSUME IInv, NEW id \in DOMAIN policies, NEW rows \in RowLists, NEW i \in 0..Len(rows)
  PROVE  LET p == policies[id]
             q == PolicyAfter(id, rows, RowStatuses(id, rows))[i]
             n == Accrued(id, rows)[i]
         IN /\ q \in Counted /\ q.terms = p.terms /\ n \in Nat
            /\ EffectiveToday(q) <= p.spentToday + n
            /\ EffectiveWeek(q) <= p.spentThisWeek + n
            /\ q.spentTotal <= p.spentTotal + n
<1>1. PICK status : status = RowStatuses(id, rows)
  OBVIOUS
<1>2. PICK after, acc : after = PolicyAfter(id, rows, status) /\ acc = Accrued(id, rows)
  OBVIOUS
<1>3. PICK p : p = policies[id]
  OBVIOUS
<1>4. p \in Counted /\ now \in Time /\ p.spentToday \in Nat /\ p.spentThisWeek \in Nat /\ p.spentTotal \in Nat
  <2>1. p \in Policy /\ now \in Time
    BY <1>3 DEF IInv, TypeOK
  <2>. QED
    BY <2>1, UintAssumption DEF Policy, Counted, Uint
<1>5. Len(rows) \in Nat /\ DOMAIN rows = 1..Len(rows)
  BY RowsAreTyped
<1>6. after[0] = p /\ acc[0] = 0
  BY <1>2, <1>3, <1>4, AfterSteps, AccruedSteps
<1>. DEFINE A == {k \in 0..Len(rows) :
                    /\ after[k] \in Counted /\ after[k].terms = p.terms /\ acc[k] \in Nat
                    /\ EffectiveToday(after[k]) <= p.spentToday + acc[k]
                    /\ EffectiveWeek(after[k]) <= p.spentThisWeek + acc[k]
                    /\ after[k].spentTotal <= p.spentTotal + acc[k]}
<1>7. 0 \in A
  <2>1. EffectiveToday(p) <= p.spentToday /\ EffectiveWeek(p) <= p.spentThisWeek
    BY <1>4 DEF EffectiveToday, EffectiveWeek
  <2>2. p.spentToday + 0 = p.spentToday /\ p.spentThisWeek + 0 = p.spentThisWeek /\ p.spentTotal + 0 = p.spentTotal
    BY <1>4
  <2>3. p.spentTotal <= p.spentTotal /\ 0 \in 0..Len(rows)
    BY <1>4, <1>5
  <2>. QED
    BY <1>4, <1>6, <2>1, <2>2, <2>3
<1>8. ASSUME NEW k \in 1..Len(rows), k - 1 \in A PROVE k \in A
  <2>1. PICK q, n : q = after[k - 1] /\ n = acc[k - 1]
    OBVIOUS
  <2>2. /\ q \in Counted /\ q.terms = p.terms /\ n \in Nat
        /\ EffectiveToday(q) <= p.spentToday + n
        /\ EffectiveWeek(q) <= p.spentThisWeek + n
        /\ q.spentTotal <= p.spentTotal + n
    BY <1>8, <2>1
  <2>3. PICK amount \in Nat : amount = rows[k].amount
    BY RowsAreTyped
  <2>4. after[k] = IF status[k] = "valid" THEN AddSpend(q, amount) ELSE q
    BY <1>2, <1>3, <1>4, <2>1, <2>3, AfterSteps
  <2>5. acc[k] = n + (IF PolicyStatus(id, rows[k], n) = "blocked" THEN 0 ELSE amount)
    BY <1>2, <2>1, <2>3, AccruedSteps
  <2>6. status[k] = "valid" => PolicyStatus(id, rows[k], n) = "valid"
    BY <1>1, <1>2, <1>5, <2>1 DEF RowStatuses, PreviewRows
  <2>7. /\ EffectiveToday(q) \in Nat /\ EffectiveWeek(q) \in Nat /\ q.spentTotal \in Nat
    BY <2>2 DEF EffectiveToday, EffectiveWeek, Counted
  <2>8. k \in 0..Len(rows)
    BY <1>5
  <2>9. CASE status[k] = "valid"
    <3>1. acc[k] = n + amount /\ after[k] = AddSpend(q, amount)
      BY <2>4, <2>5, <2>6, <2>9
    <3>2. /\ after[k] \in Counted /\ after[k].terms = q.terms
          /\ EffectiveToday(after[k]) = EffectiveToday(q) + amount
          /\ EffectiveWeek(after[k]) = EffectiveWeek(q) + amount
          /\ after[k].spentTotal = q.spentTotal + amount
      <4>1. now \in Time /\ q \in Counted /\ amount \in Nat
        BY <1>4, <2>2, <2>3
      <4>2. /\ AddSpend(q, amount) \in Counted /\ AddSpend(q, amount).terms = q.terms
            /\ EffectiveToday(AddSpend(q, amount)) = EffectiveToday(q) + amount
            /\ EffectiveWeek(AddSpend(q, amount)) = EffectiveWeek(q) + amount
            /\ AddSpend(q, amount).spentTotal = q.spentTotal + amount
        BY <4>1, SpendCounts
      <4>. QED
        BY <3>1, <4>2, Zenon
    <3>3. /\ acc[k] \in Nat
          /\ EffectiveToday(after[k]) <= p.spentToday + acc[k]
          /\ EffectiveWeek(after[k]) <= p.spentThisWeek + acc[k]
          /\ after[k].spentTotal <= p.spentTotal + acc[k]
      <4>1. EffectiveToday(q) + amount <= p.spentToday + acc[k]
        BY <1>4, <2>2, <2>3, <2>7, <3>1, BoundGrows
      <4>2. EffectiveWeek(q) + amount <= p.spentThisWeek + acc[k]
        BY <1>4, <2>2, <2>3, <2>7, <3>1, BoundGrows
      <4>3. q.spentTotal + amount <= p.spentTotal + acc[k]
        BY <1>4, <2>2, <2>3, <2>7, <3>1, BoundGrows
      <4>. QED
        BY <2>2, <2>3, <3>1, <3>2, <4>1, <4>2, <4>3
    <3>. QED
      BY <2>2, <2>8, <3>2, <3>3
  <2>10. CASE status[k] # "valid"
    <3>1. acc[k] \in Nat /\ acc[k] >= n /\ after[k] = q
      BY <2>2, <2>3, <2>4, <2>5, <2>10
    <3>2. /\ EffectiveToday(q) <= p.spentToday + acc[k]
          /\ EffectiveWeek(q) <= p.spentThisWeek + acc[k]
          /\ q.spentTotal <= p.spentTotal + acc[k]
      BY <1>4, <2>2, <2>7, <3>1, BoundStays
    <3>. QED
      BY <2>2, <2>8, <3>1, <3>2
  <2>. QED
    BY <2>9, <2>10
<1>. HIDE DEF A
<1>9. \A k \in 0..Len(rows) : k \in A
  BY <1>5, <1>7, <1>8, UpToInduction
<1>. QED
  BY <1>1, <1>2, <1>3, <1>9 DEF A

\* A row without a violation is one the manager lets through.
LEMMA ValidRowRuns ==
  ASSUME IInv, TermsAreLimits, NEW id \in DOMAIN policies, policies[id].terms.token \in allowedTargets,
         NEW row \in RowType, row.type = "pay", NEW n \in Nat, PolicyStatus(id, row, n) = "valid",
         NEW q \in Counted, q.terms = policies[id].terms,
         EffectiveToday(q) <= policies[id].spentToday + n,
         EffectiveWeek(q) <= policies[id].spentThisWeek + n,
         q.spentTotal <= policies[id].spentTotal + n
  PROVE  RunsUnder(id, row, q)
<1>1. PICK p : p = policies[id]
  OBVIOUS
<1>2. p \in Policy /\ p.terms \in ParamType /\ now \in Nat
  BY <1>1, ParamAssumption, TimeAssumption DEF IInv, TypeOK, Policy, Time
<1>3. /\ p.spentToday \in Nat /\ p.spentThisWeek \in Nat /\ p.spentTotal \in Nat
      /\ p.terms.maxPerTx \in Nat \ {0} /\ p.terms.dailyLimit \in Nat \ {0}
      /\ p.terms.weeklyLimit \in Nat \ {0} /\ p.terms.totalLimit \in Nat \ {0}
      /\ p.terms.validAfter \in Nat /\ p.terms.validUntil \in Nat \ {0}
  BY <1>1, <1>2, UintAssumption DEF Policy, ParamType, Uint, TermsAreLimits
<1>4. PICK amount \in Uint \ {0} : amount = row.amount /\ amount \in Nat
  BY UintAssumption DEF RowType, Uint
<1>5. PICK c : c = TransferOf(id, row)
  OBVIOUS
<1>6. /\ c.selector = "transfer" /\ c.target = p.terms.token /\ c.value = 0 /\ c.times = 1
      /\ DOMAIN c.pays = {row.recipient} /\ TotalPaid(c) = amount
  BY <1>1, <1>4, <1>5, TransferPays DEF TransferOf
<1>7. ~ HardViolation(id, row, n) /\ ~ SoftViolation(id, row, n)
  BY DEF PolicyStatus
<1>8. /\ p.active /\ ~ p.guardianRevoked /\ now >= p.terms.validAfter /\ now <= p.terms.validUntil
      /\ "single" \in p.terms.allow /\ row.recipient \in allowedRecipients[id]
      /\ amount <= p.terms.maxPerTx
  BY <1>1, <1>2, <1>3, <1>4, <1>7 DEF HardViolation, RailAllowed, Exceeds
<1>9. /\ p.spentTotal + n + amount <= p.terms.totalLimit
      /\ p.spentToday + n + amount <= p.terms.dailyLimit
      /\ p.spentThisWeek + n + amount <= p.terms.weeklyLimit
  BY <1>1, <1>3, <1>4, <1>7 DEF HardViolation, SoftViolation, Exceeds
<1>10. EffectiveToday(q) \in Nat /\ EffectiveWeek(q) \in Nat /\ q.spentTotal \in Nat
  BY DEF EffectiveToday, EffectiveWeek, Counted
<1>11. SpendAllowed(q, c, amount)
  BY <1>1, <1>3, <1>4, <1>6, <1>8, <1>9, <1>10 DEF SpendAllowed, WithinCaps
<1>12. SpendAllowed(p, c, amount)
  <2>1. /\ EffectiveToday(p) \in Nat /\ EffectiveToday(p) <= p.spentToday
        /\ EffectiveWeek(p) \in Nat /\ EffectiveWeek(p) <= p.spentThisWeek
    BY <1>3 DEF EffectiveToday, EffectiveWeek
  <2>. QED
    BY <1>3, <1>4, <1>6, <1>8, <1>9, <2>1 DEF SpendAllowed, WithinCaps
<1>13. CallAllowed(id, c)
  BY <1>1, <1>6, <1>8, <1>12 DEF CallAllowed, RailOf, Selector
<1>14. PolicyLive(id, p.terms.smartAccount, p.terms.sessionKey)
  BY <1>1, <1>8 DEF PolicyLive
<1>. QED
  BY <1>1, <1>4, <1>5, <1>11, <1>13, <1>14 DEF RunsUnder, SessionCallValid

\* A first row with a violation is one the manager refuses.
LEMMA BlockedRowIsRefused ==
  ASSUME IInv, NEW id \in DOMAIN policies, NEW row \in RowType, row.type = "pay",
         PolicyStatus(id, row, 0) = "blocked", now # policies[id].terms.validUntil
  PROVE  ~ RunsUnder(id, row, policies[id])
<1>. SUFFICES ASSUME RunsUnder(id, row, policies[id]) PROVE FALSE
  OBVIOUS
<1>1. PICK p : p = policies[id]
  OBVIOUS
<1>2. p \in Policy /\ p.terms \in ParamType /\ now \in Nat
  BY <1>1, ParamAssumption, TimeAssumption DEF IInv, TypeOK, Policy, Time
<1>3. /\ p.spentTotal \in Nat /\ p.terms.maxPerTx \in Nat /\ p.terms.totalLimit \in Nat
      /\ p.terms.validAfter \in Nat /\ p.terms.validUntil \in Nat
  BY <1>2, UintAssumption DEF Policy, ParamType, Uint
<1>4. PICK amount \in Nat : amount = row.amount
  BY UintAssumption DEF RowType, Uint
<1>5. PICK c : c = TransferOf(id, row)
  OBVIOUS
<1>6. c.selector = "transfer" /\ DOMAIN c.pays = {row.recipient}
  BY <1>5 DEF TransferOf
<1>7. /\ PolicyLive(id, p.terms.smartAccount, p.terms.sessionKey) /\ CallAllowed(id, c)
      /\ SpendAllowed(p, c, amount)
  BY <1>1, <1>4, <1>5 DEF RunsUnder, SessionCallValid
<1>8. /\ p.active /\ ~ p.guardianRevoked /\ now >= p.terms.validAfter /\ now <= p.terms.validUntil
  BY <1>1, <1>7 DEF PolicyLive
<1>9. "single" \in p.terms.allow /\ row.recipient \in allowedRecipients[id]
  BY <1>1, <1>6, <1>7 DEF CallAllowed, RailOf
<1>10. amount <= p.terms.maxPerTx /\ p.spentTotal + amount <= p.terms.totalLimit
  BY <1>6, <1>7 DEF SpendAllowed, WithinCaps
<1>11. ~ Exceeds(amount, p.terms.maxPerTx, 0) /\ ~ Exceeds(amount, p.terms.totalLimit, p.spentTotal + 0)
  BY <1>3, <1>4, <1>10 DEF Exceeds
<1>12. ~ p.terms.validUntil <= now /\ ~ p.terms.validAfter > now
  BY <1>1, <1>2, <1>3, <1>8
<1>13. ~ HardViolation(id, row, 0)
  BY <1>1, <1>4, <1>8, <1>9, <1>11, <1>12 DEF HardViolation, RailAllowed
<1>. QED
  BY <1>13 DEF PolicyStatus

LEMMA PreviewIsRight ==
  ASSUME IInv, TermsAreLimits
  PROVE  PreviewedRowsWouldRun
<1>. SUFFICES ASSUME NEW id \in DOMAIN policies, NEW rows \in RowLists,
                     policies[id].terms.token \in allowedTargets
              PROVE  LET status == RowStatuses(id, rows)
                         after == PolicyAfter(id, rows, status)
                     IN /\ \A i \in DOMAIN rows :
                             status[i] = "valid" => RunsUnder(id, rows[i], after[i - 1])
                        /\ rows # << >> /\ rows[1].type = "pay" /\ status[1] = "blocked"
                             /\ now # policies[id].terms.validUntil => ~RunsUnder(id, rows[1], policies[id])
  BY DEF PreviewedRowsWouldRun
<1>1. rows \in Seq(RowType) /\ Len(rows) \in Nat /\ DOMAIN rows = 1..Len(rows)
  BY RowListsAssumption, RowsAreTyped DEF RowListsAssumption, RowType
<1>2. PICK status : status = RowStatuses(id, rows)
  OBVIOUS
<1>3. PICK acc : acc = Accrued(id, rows)
  OBVIOUS
<1>4. \A i \in 1..Len(rows) :
        status[i] = IF rows[i].type = "pay" THEN PolicyStatus(id, rows[i], acc[i - 1]) ELSE "blocked"
  BY <1>1, <1>2, <1>3 DEF RowStatuses, PreviewRows
<1>5. ASSUME NEW i \in DOMAIN rows, status[i] = "valid"
      PROVE  RunsUnder(id, rows[i], PolicyAfter(id, rows, status)[i - 1])
  <2>1. i - 1 \in 0..Len(rows) /\ rows[i] \in RowType
    BY <1>1
  <2>2. rows[i].type = "pay" /\ PolicyStatus(id, rows[i], acc[i - 1]) = "valid"
    BY <1>1, <1>4, <1>5
  <2>3. PICK q, n : q = PolicyAfter(id, rows, status)[i - 1] /\ n = acc[i - 1]
    OBVIOUS
  <2>4. /\ q \in Counted /\ q.terms = policies[id].terms /\ n \in Nat
        /\ EffectiveToday(q) <= policies[id].spentToday + n
        /\ EffectiveWeek(q) <= policies[id].spentThisWeek + n
        /\ q.spentTotal <= policies[id].spentTotal + n
    BY <1>2, <1>3, <2>1, <2>3, PreviewCountsMore
  <2>5. RunsUnder(id, rows[i], q)
    BY <2>1, <2>2, <2>3, <2>4, ValidRowRuns
  <2>. QED
    BY <2>3, <2>5
<1>6. ASSUME rows # << >>, rows[1].type = "pay", status[1] = "blocked", now # policies[id].terms.validUntil
      PROVE  ~ RunsUnder(id, rows[1], policies[id])
  <2>1. 1 \in 1..Len(rows) /\ rows[1] \in RowType /\ 1 - 1 = 0
    BY <1>1, <1>6
  <2>2. acc[0] = 0
    BY <1>3, AccruedSteps
  <2>3. PolicyStatus(id, rows[1], 0) = "blocked"
    BY <1>4, <1>6, <2>1, <2>2
  <2>. QED
    BY <1>6, <2>1, <2>3, BlockedRowIsRefused
<1>. QED
  BY <1>2, <1>5, <1>6

\* Whatever windows have passed since the counters were stored and whatever was
\* vetoed or spent before: the valid rows of a preview run one after the other,
\* and a first row it blocks is refused, but in the policy's last second
\* (previewPolicyForRows, createJob, _validateSingleChecked).
THEOREM PreviewsWouldRun == Spec => []PreviewedRowsWouldRun
<1>1. Init => NoncesAreFresh /\ TermsAreLimits
  BY DEF Init, NoncesAreFresh, TermsAreLimits
<1>2. IInv /\ TermsAreLimits => PreviewedRowsWouldRun
  BY PreviewIsRight
<1>. QED
  BY InitIInv, NextIInv, NoncesStayFresh, TermsStayLimits, <1>1, <1>2, PTL DEF Spec
===============================================================================
