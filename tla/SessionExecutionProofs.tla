----------------------- MODULE SessionExecutionProofs -----------------------
(***************************************************************************)
(* Proofs about session operations under EntryPoint.handleOps, for every   *)
(* bundle size and every set of operations.                                *)
(***************************************************************************)
EXTENDS SessionExecution, AgentPolicyManagerProofs, SumTheorems

\* The account and the EntryPoint change the manager only by calls it allows.
LEMMA SessionStepIsManagerStep == [SessionNext]_sessionVars => [Next]_vars
<1>. SUFFICES ASSUME [SessionNext]_sessionVars PROVE [Next]_vars
  OBVIOUS
<1>1. ASSUME NEW op \in SessionOp \cup OwnerOp, Validate(op) PROVE [Next]_vars
  BY <1>1 DEF Validate
<1>2. CASE StartExecution
  BY <1>2 DEF StartExecution
<1>3. CASE RunSessionOp
  <2>. DEFINE op == Head(bundle)
  <2>1. op.sender \in Address
    BY <1>3, SessionOpAssumption, AddressAssumption DEF RunSessionOp
  <2>2. CASE ExecuteSession(op)
    <3>1. op.policy \in DOMAIN policies /\ op.calls[1] \in Call
      BY <1>3, <2>2, SessionOpAssumption
         DEF RunSessionOp, ExecuteSession, RecordSessionCall
    <3>. QED
      BY <2>1, <2>2, <3>1 DEF ExecuteSession, Record, Next
  <2>3. CASE ExecuteSessionBatch(op)
    <3>1. op.policy \in DOMAIN policies /\ op.calls \in Batch
      BY <1>3, <2>3, SessionOpAssumption
         DEF RunSessionOp, ExecuteSessionBatch, RecordSessionBatchCall
    <3>. QED
      BY <2>1, <2>3, <3>1 DEF ExecuteSessionBatch, Record, Next
  <2>. QED
    BY <1>3, <2>2, <2>3 DEF RunSessionOp
<1>4. CASE RunOwnerOp
  BY <1>4, AddressAssumption DEF RunOwnerOp, OwnerOp, Next
<1>5. CASE RunWithoutEffect
  BY <1>5 DEF RunWithoutEffect
<1>6. CASE Direct
  BY <1>6 DEF Direct, Next
<1>7. CASE UNCHANGED sessionVars
  BY <1>7 DEF sessionVars
<1>. QED
  BY <1>1, <1>2, <1>3, <1>4, <1>5, <1>6, <1>7 DEF SessionNext

\* The caps hold through two-phase bundles, where an operation is executed in a
\* later state than the one it was validated in (handleOps, executeSession).
THEOREM SessionWithinCaps == SessionSpec => []CountersWithinCaps
<1>1. SessionInit => Init
  BY DEF SessionInit
<1>2. SessionSpec => Spec
  BY <1>1, SessionStepIsManagerStep, PTL DEF SessionSpec, Spec
<1>. QED
  BY <1>2, ManagerWithinCaps, PTL

-----------------------------------------------------------------------------
(* What validation still guarantees when the operation is executed.  Between
   the two loops policies may be revoked and lists edited; who signed for which
   policy and account, and that the policy was live when the bundle began,
   stay true of every operation still to run.                               *)

AuthorisedOp(op) ==
  op \in SessionOp =>
    /\ op.policy \in liveAtStart
    /\ op.policy \in DOMAIN policies
    /\ op.key = policies[op.policy].terms.sessionKey
    /\ op.sender = policies[op.policy].terms.smartAccount

BundleInv ==
  /\ bundle \in Seq(SessionOp \cup OwnerOp)
  /\ phase \in {"idle", "validating", "executing"}
  /\ phase = "idle" => bundle = << >>
  /\ phase = "validating" => liveAtStart = LivePolicies
  /\ \A i \in DOMAIN bundle : AuthorisedOp(bundle[i])

\* The ledger is a function on the policy ids.
LedgerInv == ledger = [id \in PolicyId |-> ledger[id]]

\* A manager step keeps the terms of the policies that exist.
TermsKept ==
  \A id \in DOMAIN policies :
    id \in DOMAIN policies' /\ policies'[id].terms = policies[id].terms

LEMMA NextOpKeepsBundle ==
  ASSUME BundleInv, TermsKept, bundle # << >>, NextOp
  PROVE  BundleInv'
<1>1. /\ bundle' \in Seq(SessionOp \cup OwnerOp)
      /\ Len(bundle') = Len(bundle) - 1
      /\ \A i \in DOMAIN bundle' : i + 1 \in DOMAIN bundle /\ bundle'[i] = bundle[i + 1]
  BY DEF NextOp, BundleInv
<1>2. phase' \in {"idle", "executing"} /\ (phase' = "idle" => bundle' = << >>)
  BY <1>1 DEF NextOp, BundleInv
<1>3. liveAtStart' = liveAtStart
  BY DEF NextOp
<1>4. \A i \in DOMAIN bundle' : AuthorisedOp(bundle[i])'
  <2>. SUFFICES ASSUME NEW i \in DOMAIN bundle', bundle'[i] \in SessionOp
                PROVE  AuthorisedOp(bundle[i])'
    BY DEF AuthorisedOp
  <2>1. AuthorisedOp(bundle[i + 1]) /\ bundle'[i] = bundle[i + 1]
    BY <1>1 DEF BundleInv
  <2>. QED
    BY <1>3, <2>1 DEF TermsKept, AuthorisedOp
<1>. QED
  BY <1>1, <1>2, <1>4 DEF BundleInv

LEMMA ManagerKeepsTerms ==
  ASSUME IInv, NoncesAreFresh, [Next]_vars
  PROVE  TermsKept
BY PoliciesGoForward DEF PolicyGoesForward, TermsKept

LEMMA ValidateKeepsBundle ==
  ASSUME TypeOK, BundleInv, NEW op \in SessionOp \cup OwnerOp, Validate(op)
  PROVE  BundleInv'
<1>. PICK n \in Nat : n = Len(bundle)
  BY DEF BundleInv
<1>1. /\ bundle' = Append(bundle, op)
      /\ bundle' \in Seq(SessionOp \cup OwnerOp)
      /\ DOMAIN bundle' = 1..(n + 1)
      /\ \A i \in DOMAIN bundle' :
           bundle'[i] = IF i = n + 1 THEN op ELSE bundle[i]
  BY DEF Validate, BundleInv
<1>2. UNCHANGED <<policies, now>> /\ phase' = "validating"
      /\ liveAtStart' = LivePolicies
  BY DEF Validate, vars
<1>3. LivePolicies' = LivePolicies
  BY <1>2 DEF LivePolicies, Revoked
<1>4. op \in SessionOp =>
        /\ op.policy \in LivePolicies
        /\ op.policy \in DOMAIN policies
        /\ op.key = policies[op.policy].terms.sessionKey
        /\ op.sender = policies[op.policy].terms.smartAccount
  BY DEF Validate, SessionOpValid, SessionBatchValid, SessionCallValid,
         PolicyLive, LivePolicies, Revoked
<1>5. ASSUME NEW i \in DOMAIN bundle PROVE AuthorisedOp(bundle[i])'
  <2>1. AuthorisedOp(bundle[i]) /\ bundle'[i] = bundle[i]
    BY <1>1, <1>5 DEF BundleInv
  <2>2. phase = "validating"
    BY <1>5 DEF BundleInv, Validate
  <2>. QED
    BY <1>2, <2>1, <2>2 DEF AuthorisedOp, BundleInv
<1>6. AuthorisedOp(bundle[n + 1])'
  BY <1>1, <1>2, <1>4 DEF AuthorisedOp, BundleInv
<1>7. \A i \in DOMAIN bundle' : AuthorisedOp(bundle[i])'
  BY <1>1, <1>5, <1>6 DEF BundleInv
<1>. QED
  BY <1>1, <1>2, <1>3, <1>7 DEF BundleInv

LEMMA NextKeepsBundle ==
  ASSUME IInv, NoncesAreFresh, BundleInv, [SessionNext]_sessionVars
  PROVE  BundleInv'
<1>1. TermsKept
  BY SessionStepIsManagerStep, ManagerKeepsTerms
<1>2. ASSUME NEW op \in SessionOp \cup OwnerOp, Validate(op) PROVE BundleInv'
  BY <1>2, ValidateKeepsBundle DEF IInv
<1>3. CASE StartExecution
  BY <1>3 DEF StartExecution, BundleInv, AuthorisedOp, vars
<1>4. CASE RunSessionOp \/ RunOwnerOp \/ RunWithoutEffect
  BY <1>1, <1>4, NextOpKeepsBundle
     DEF RunSessionOp, RunOwnerOp, RunWithoutEffect
<1>5. CASE Direct
  <2>1. phase = "idle" /\ phase' = "idle" /\ bundle' = << >>
    BY <1>5 DEF Direct, entryVars, BundleInv
  <2>. QED
    BY <2>1 DEF BundleInv
<1>6. CASE UNCHANGED sessionVars
  BY <1>6 DEF sessionVars, vars, entryVars, BundleInv, AuthorisedOp,
              LivePolicies, Revoked
<1>. QED
  BY <1>2, <1>3, <1>4, <1>5, <1>6 DEF SessionNext

SessionInv == IInv /\ NoncesAreFresh /\ BundleInv /\ LedgerInv

LEMMA SessionInvHolds == SessionSpec => []SessionInv
<1>1. SessionInit => SessionInv
  <2>. SUFFICES ASSUME SessionInit PROVE SessionInv
    OBVIOUS
  <2>1. IInv
    BY InitIInv DEF SessionInit
  <2>2. NoncesAreFresh
    BY DEF SessionInit, Init, NoncesAreFresh
  <2>3. BundleInv
    BY DEF SessionInit, BundleInv
  <2>4. LedgerInv
    BY DEF SessionInit, LedgerInv
  <2>. QED
    BY <2>1, <2>2, <2>3, <2>4 DEF SessionInv
<1>2. LedgerInv /\ [SessionNext]_sessionVars => LedgerInv'
  <2>. SUFFICES ASSUME LedgerInv, [SessionNext]_sessionVars PROVE LedgerInv'
    OBVIOUS
  <2>1. CASE RunSessionOp
    BY <2>1 DEF RunSessionOp, ExecuteSession, ExecuteSessionBatch, Enter, LedgerInv
  <2>2. CASE UNCHANGED ledger
    BY <2>2 DEF LedgerInv
  <2>. QED
    BY <2>1, <2>2 DEF SessionNext, Validate, StartExecution, RunOwnerOp,
                      RunWithoutEffect, Direct, sessionVars, entryVars
<1>3. SessionInv /\ [SessionNext]_sessionVars => SessionInv'
  BY <1>2, SessionStepIsManagerStep, NextIInv, NoncesStayFresh, NextKeepsBundle
     DEF SessionInv
<1>. QED
  BY <1>1, <1>3, PTL DEF SessionSpec

\* A step that spends is the execution of the head of the bundle, under the
\* policy the operation names.
LEMMA SpendIsByHead ==
  ASSUME LedgerInv, [SessionNext]_sessionVars, NEW id \in PolicyId, Spends(id)
  PROVE  /\ bundle # << >> /\ Head(bundle) \in SessionOp
         /\ Head(bundle).policy = id
         /\ ExecuteSession(Head(bundle)) \/ ExecuteSessionBatch(Head(bundle))
<1>1. RunSessionOp
  BY DEF SessionNext, Validate, StartExecution, RunOwnerOp, RunWithoutEffect,
         Direct, sessionVars, entryVars, Spends
<1>2. Head(bundle).policy = id
  BY <1>1 DEF RunSessionOp, ExecuteSession, ExecuteSessionBatch, Enter,
             LedgerInv, Spends
<1>. QED
  BY <1>1, <1>2 DEF RunSessionOp

\* A spend is of a policy that was live (not revoked, within its validity)
\* when the handleOps transaction that carries it began: a revoked or expired
\* policy can start nothing (validateUserOp, _basePolicyChecks).
THEOREM SpendsStartLive == SessionSpec => SpendsWereLiveAtStart
<1>1. SessionInv /\ [SessionNext]_sessionVars =>
        [\A id \in PolicyId : Spends(id) => id \in liveAtStart]_sessionVars
  <2>. SUFFICES ASSUME SessionInv, [SessionNext]_sessionVars,
                       NEW id \in PolicyId, Spends(id)
                PROVE  id \in liveAtStart
    OBVIOUS
  <2>1. bundle # << >> /\ Head(bundle) \in SessionOp /\ Head(bundle).policy = id
    BY SpendIsByHead DEF SessionInv
  <2>2. AuthorisedOp(Head(bundle))
    BY <2>1 DEF SessionInv, BundleInv
  <2>. QED
    BY <2>1, <2>2 DEF AuthorisedOp
<1>. QED
  BY <1>1, SessionInvHolds, PTL DEF SessionSpec, SpendsWereLiveAtStart
LEMMA SingleCall ==
  ASSUME NEW op \in SessionOp, Len(op.calls) = 1
  PROVE  \A i \in DOMAIN op.calls : i = 1
BY SessionOpAssumption, BatchAssumption

\* Money moves only for an operation of the policy's own account and key, and
\* the target and recipient lists it obeys are those of the moment it moves,
\* not those it was validated against (recordSessionCall repeats
\* _validateSingleChecked).
THEOREM SpendsObeyLists == SessionSpec => SpendsObeyCurrentLists
<1>. DEFINE Obeys(id) ==
       LET op == Head(bundle) IN
       /\ op.policy = id
       /\ op.key = policies[id].terms.sessionKey
       /\ op.sender = policies[id].terms.smartAccount
       /\ \A i \in DOMAIN op.calls :
            /\ op.calls[i].target \in allowedTargets
            /\ op.calls[i].selector # "createRequest" =>
                 DOMAIN op.calls[i].pays \subseteq allowedRecipients[id]
<1>1. SessionInv /\ [SessionNext]_sessionVars =>
        [\A id \in PolicyId : Spends(id) => Obeys(id)]_sessionVars
  <2>. SUFFICES ASSUME SessionInv, [SessionNext]_sessionVars,
                       NEW id \in PolicyId, Spends(id)
                PROVE  Obeys(id)
    OBVIOUS
  <2>. DEFINE op == Head(bundle)
  <2>1. /\ bundle # << >> /\ op \in SessionOp /\ op.policy = id
        /\ ExecuteSession(op) \/ ExecuteSessionBatch(op)
    BY SpendIsByHead DEF SessionInv
  <2>2. AuthorisedOp(op)
    BY <2>1 DEF SessionInv, BundleInv
  <2>3. \A i \in DOMAIN op.calls : CallAllowed(id, op.calls[i])
    <3>1. CASE ExecuteSession(op)
      <4>1. Len(op.calls) = 1 /\ CallAllowed(id, op.calls[1])
        BY <2>1, <3>1, SessionOpAssumption DEF ExecuteSession, RecordSessionCall
      <4>. QED
        BY <2>1, <4>1, SingleCall
    <3>2. CASE ExecuteSessionBatch(op)
      BY <2>1, <3>2 DEF ExecuteSessionBatch, RecordSessionBatchCall, BatchAllowed
    <3>. QED
      BY <2>1, <3>1, <3>2
  <2>. QED
    BY <2>1, <2>2, <2>3 DEF AuthorisedOp, CallAllowed
<1>. QED
  BY <1>1, SessionInvHolds, PTL DEF SessionSpec, SpendsObeyCurrentLists

\* Both together: what a policy permits, in full.
THEOREM SpendsAuthorized == SessionSpec => SpendsAreAuthorized
BY SpendsStartLive, SpendsObeyLists, PTL DEF SpendsAreAuthorized

-----------------------------------------------------------------------------
(* The counters and the money.  The counters are numbers, the money is a
   history of amounts by time: what ties them is, for each window, that nothing
   moved after its end without restarting it, and that the time just before its
   start, up to one length back, is inside the window before.              *)

\* A spend of m at n entered in an account of money moved.
Entered(l, k, n, m) ==
  /\ k \in [Time -> Nat]
  /\ k[n] = l[n] + m
  /\ \A t \in Time : t # n => k[t] = l[t]

\* What one window of a policy shows at time n of the money moved.
Window(l, n, start, length, spent, limit) ==
  /\ start \in 0..n
  /\ \A t \in Time : l[t] # 0 => t < start + length
  /\ Total(l, start..n) <= spent
  /\ \A a \in Time : a + length > start => Total(l, a..(start - 1)) <= limit

\* A stretch of time is a finite set of times, and what moved in it is a natural
\* number.
LEMMA StretchOfTime ==
  ASSUME NEW l \in [Time -> Nat], NEW a \in Nat, NEW b \in Int, b <= MaxTime
  PROVE  /\ IsFiniteSet(a..b)
         /\ a..b \subseteq Time
         /\ \A t \in a..b : t \in Time /\ l[t] \in Nat /\ l[t] \in Int
         /\ Total(l, a..b) \in Nat
<1>1. a..b \subseteq Time
  BY TimeAssumption DEF Time
<1>2. \A t \in a..b : t \in Time /\ l[t] \in Nat /\ l[t] \in Int
  BY <1>1
<1>3. IsFiniteSet(a..b)
  BY FS_Interval
<1>4. Total(l, a..b) \in Nat
  <2>. DEFINE S == a..b
  <2>. HIDE DEF S
  <2>. QED
    BY <1>2, <1>3, TotalNat DEF S
<1>. QED
  BY <1>1, <1>2, <1>3, <1>4

\* Of a shorter stretch of time less is summed up.
LEMMA ShorterStretch ==
  ASSUME NEW l \in [Time -> Nat], NEW a \in Nat, NEW b \in Int, b <= MaxTime,
         NEW c \in Nat, NEW d \in Int, a <= c, d <= b
  PROVE  Total(l, c..d) <= Total(l, a..b)
<1>. DEFINE S == a..b
            T == c..d
<1>1. T \subseteq S
  OBVIOUS
<1>2. IsFiniteSet(S) /\ \A t \in S : l[t] \in Nat /\ l[t] \in Nat
  BY StretchOfTime
<1>3. \A t \in T : l[t] <= l[t]
  BY <1>1, <1>2
<1>. HIDE DEF S, T
<1>4. Total(l, T) <= Total(l, S)
  BY <1>1, <1>2, <1>3, TotalLess
<1>. QED
  BY <1>4 DEF S, T

\* Two stretches that meet.
LEMMA JoinedStretches ==
  ASSUME NEW l \in [Time -> Nat], NEW a \in Nat, NEW b \in Nat, NEW c \in Int, c <= MaxTime,
         a <= b, b <= c + 1
  PROVE  Total(l, a..c) = Total(l, a..(b - 1)) + Total(l, b..c)
<1>. DEFINE S == a..(b - 1)
            T == b..c
            R == a..c
<1>1. S \cup T = R /\ S \cap T = {}
  OBVIOUS
<1>2. IsFiniteSet(S) /\ IsFiniteSet(T) /\ \A t \in R : l[t] \in Int
  <2>1. b - 1 \in Int
    OBVIOUS
  <2>2. IsFiniteSet(S) /\ IsFiniteSet(T)
    BY <2>1, FS_Interval
  <2>3. \A t \in a..c : l[t] \in Int
    BY StretchOfTime
  <2>. QED
    BY <2>2, <2>3
<1>. HIDE DEF S, T, R
<1>3. \A t \in S \cup T : l[t] \in Int
  BY <1>1, <1>2
<1>4. Total(l, S \cup T) = Total(l, S) + Total(l, T)
  BY <1>1, <1>2, <1>3, TotalUnion
<1>. QED
  BY <1>1, <1>4 DEF S, T, R

\* A spend after the stretch does not change what moved in it.
LEMMA StretchWithout ==
  ASSUME NEW l \in [Time -> Nat], NEW k, NEW n \in Time, NEW m \in Nat, Entered(l, k, n, m),
         NEW a \in Nat, NEW b \in Int, b < n
  PROVE  Total(k, a..b) = Total(l, a..b)
<1>. DEFINE S == a..b
<1>1. b <= MaxTime
  BY TimeAssumption DEF Time
<1>2. IsFiniteSet(S) /\ \A t \in S : l[t] \in Int /\ l[t] = k[t]
  BY <1>1, StretchOfTime, SMTT(30) DEF Entered
<1>. HIDE DEF S
<1>3. Total(l, S) = Total(k, S)
  BY <1>2, TotalSame
<1>. QED
  BY <1>3 DEF S

\* A spend at the end of the stretch adds to what moved in it.
LEMMA StretchWith ==
  ASSUME NEW l \in [Time -> Nat], NEW k, NEW n \in Time, NEW m \in Nat, Entered(l, k, n, m),
         NEW a \in 0..n
  PROVE  Total(k, a..n) = Total(l, a..n) + m
<1>1. n <= MaxTime /\ n \in a..n /\ a \in Nat /\ n \in Int
  BY TimeAssumption DEF Time
<1>2. PICK f, g, x, j, S : f = l /\ g = k /\ x = n /\ j = m /\ S = a..n
  OBVIOUS
<1>3. IsFiniteSet(S) /\ x \in S /\ j \in Int
  BY <1>1, <1>2, FS_Interval
<1>4. \A t \in S : f[t] \in Int
  BY <1>1, <1>2, StretchOfTime
<1>5. (\A t \in S : t # x => g[t] = f[t]) /\ g[x] = f[x] + j
  BY <1>1, <1>2, StretchOfTime DEF Entered
<1>6. Total(g, S) = Total(f, S) + j
  BY <1>3, <1>4, <1>5, TotalRaised
<1>. QED
  BY <1>2, <1>6, Zenon

\* _refreshWindows and the spend after it: the window stays true, and at most
\* one full window lies just before the one that is opened.
LEMMA WindowSpend ==
  ASSUME NEW l \in [Time -> Nat], NEW k, NEW n \in Time, NEW m \in Nat, Entered(l, k, n, m),
         \A t \in Time : t > n => l[t] = 0,
         NEW start, NEW length \in Nat \ {0}, NEW spent \in Nat, NEW limit \in Nat,
         Window(l, n, start, length, spent, limit), spent <= limit,
         NEW amount \in Nat, m <= amount
  PROVE  Window(k, n, IF n >= start + length THEN n ELSE start, length,
                (IF n >= start + length THEN 0 ELSE spent) + amount, limit)
<1>1. start \in 0..n /\ start \in Nat /\ n \in Nat /\ n \in Int /\ n <= MaxTime
  BY TimeAssumption DEF Window, Time
<1>2. \A t \in Time : l[t] # 0 => t < start + length
  BY DEF Window
<1>3. Total(l, start..n) <= spent /\ Total(l, start..n) \in Nat
  BY <1>1, StretchOfTime DEF Window
<1>4. CASE n < start + length
  <2>1. \A t \in Time : k[t] # 0 => t < start + length
    BY <1>2, <1>4 DEF Entered
  <2>2. Total(k, start..n) <= spent + amount
    BY <1>1, <1>3, StretchWith
  <2>3. ASSUME NEW a \in Time, a + length > start
        PROVE  Total(k, a..(start - 1)) <= limit
    <3>1. Total(l, a..(start - 1)) <= limit
      BY <2>3 DEF Window
    <3>2. Total(k, a..(start - 1)) = Total(l, a..(start - 1))
      <4>1. a \in Nat /\ start - 1 \in Int /\ start - 1 < n
        BY <1>1 DEF Time
      <4>. QED
        BY <4>1, StretchWithout
    <3>. QED
      BY <3>1, <3>2
  <2>4. (IF n >= start + length THEN n ELSE start) = start
        /\ (IF n >= start + length THEN 0 ELSE spent) = spent
    BY <1>1, <1>4
  <2>. QED
    BY <1>1, <2>1, <2>2, <2>3, <2>4 DEF Window
<1>5. CASE n >= start + length
  <2>1. \A t \in Time : k[t] # 0 => t < n + length
    <3>1. \A t \in Time : t > n => k[t] = 0
      BY <1>1 DEF Entered
    <3>. QED
      BY <1>1, <3>1 DEF Time
  <2>2. Total(k, n..n) <= 0 + amount
    <3>1. l[n] = 0 /\ k[n] = m
      BY <1>1, <1>2, <1>5 DEF Entered
    <3>2. n..n = {} \cup {n}
      BY <1>1
    <3>3. Total(k, {} \cup {n}) = k[n] + Total(k, {})
      <4>1. IsFiniteSet({}) /\ k[n] \in Int /\ (\A y \in {} : k[y] \in Int) /\ n \notin {}
        BY <3>1, FS_EmptySet
      <4>. QED
        BY <4>1, TotalAdd
    <3>4. Total(k, n..n) = m
      BY <3>1, <3>2, <3>3, TotalEmpty
    <3>. QED
      BY <3>4
  <2>3. ASSUME NEW a \in Time, a + length > n
        PROVE  Total(k, a..(n - 1)) <= limit
    <3>1. a \in Nat /\ n - 1 \in Int /\ n - 1 < n /\ n - 1 <= n /\ start <= a /\ start \in Nat
      BY <1>1, <1>5, <2>3 DEF Time
    <3>2. Total(k, a..(n - 1)) = Total(l, a..(n - 1))
      BY <3>1, StretchWithout
    <3>3. Total(l, a..(n - 1)) <= Total(l, start..n)
      BY <1>1, <3>1, ShorterStretch
    <3>4. Total(l, a..(n - 1)) \in Nat
      <4>1. n - 1 <= MaxTime
        BY <1>1, TimeAssumption
      <4>. QED
        BY <3>1, <4>1, StretchOfTime
    <3>. QED
      BY <1>3, <3>2, <3>3, <3>4
  <2>4. (IF n >= start + length THEN n ELSE start) = n
        /\ (IF n >= start + length THEN 0 ELSE spent) = 0
    BY <1>5
  <2>5. n \in 0..n
    BY <1>1
  <2>6. Window(k, n, n, length, 0 + amount, limit)
    BY <2>1, <2>2, <2>3, <2>5 DEF Window
  <2>. QED
    BY <2>4, <2>6, Zenon
<1>. QED
  BY <1>1, <1>4, <1>5

\* Nothing moves while time passes.
LEMMA WindowTick ==
  ASSUME NEW l \in [Time -> Nat], NEW n \in Time, n + 1 \in Time,
         \A t \in Time : t > n => l[t] = 0,
         NEW start, NEW length, NEW spent, NEW limit,
         Window(l, n, start, length, spent, limit)
  PROVE  Window(l, n + 1, start, length, spent, limit)
<1>1. /\ start \in 0..n /\ start \in Nat /\ n \in Nat /\ n \in Int /\ n <= MaxTime
      /\ n + 1 \in Nat /\ n + 1 \in Int /\ n + 1 <= MaxTime /\ start <= n + 1
      /\ n + 1 <= (n + 1) + 1
  BY TimeAssumption DEF Window, Time
<1>2. Total(l, start..(n + 1)) = Total(l, start..n)
  <2>1. Total(l, start..(n + 1)) = Total(l, start..((n + 1) - 1)) + Total(l, (n + 1)..(n + 1))
    BY <1>1, JoinedStretches
  <2>2. Total(l, (n + 1)..(n + 1)) = 0
    <3>1. IsFiniteSet((n + 1)..(n + 1))
      BY <1>1, FS_Interval
    <3>2. \A t \in (n + 1)..(n + 1) : l[t] = 0
      BY <1>1 DEF Time
    <3>. QED
      BY <3>1, <3>2, TotalZero
  <2>3. Total(l, start..n) \in Nat
    BY <1>1, StretchOfTime
  <2>4. (n + 1) - 1 = n
    BY <1>1
  <2>. QED
    BY <2>1, <2>2, <2>3, <2>4
<1>. QED
  BY <1>1, <1>2 DEF Window

\* Any stretch of the window's length sees at most two windows.
LEMMA WindowTwice ==
  ASSUME NEW l \in [Time -> Nat], NEW n \in Time,
         NEW start, NEW length \in Nat \ {0}, NEW spent \in Nat, NEW limit \in Nat,
         Window(l, n, start, length, spent, limit), spent <= limit
  PROVE  Total(l, (IF n >= length THEN n - length + 1 ELSE 0)..n) <= 2 * limit
<1>1. start \in 0..n /\ start \in Nat /\ n \in Nat /\ n \in Int /\ n <= MaxTime
  BY TimeAssumption DEF Window, Time
<1>2. Total(l, start..n) <= spent /\ Total(l, start..n) \in Nat
  BY <1>1, StretchOfTime DEF Window
<1>3. PICK a : a = IF n >= length THEN n - length + 1 ELSE 0
  OBVIOUS
<1>4. a \in 0..n /\ a \in Nat /\ a + length > n
  BY <1>1, <1>3
<1>5. CASE a >= start
  <2>1. Total(l, a..n) <= Total(l, start..n)
    BY <1>1, <1>4, <1>5, ShorterStretch
  <2>2. Total(l, a..n) \in Nat
    BY <1>1, <1>4, StretchOfTime
  <2>. QED
    BY <1>2, <1>3, <2>1, <2>2
<1>6. CASE a < start
  <2>1. Total(l, a..n) = Total(l, a..(start - 1)) + Total(l, start..n)
    BY <1>1, <1>4, <1>6, JoinedStretches
  <2>2. Total(l, a..(start - 1)) <= limit
    <3>1. a \in Time /\ a + length > start
      BY <1>1, <1>4, TimeAssumption DEF Time
    <3>. QED
      BY <3>1 DEF Window
  <2>3. Total(l, a..(start - 1)) \in Nat
    <3>1. start - 1 \in Int /\ start - 1 <= MaxTime
      BY <1>1, TimeAssumption
    <3>. QED
      BY <1>4, <3>1, StretchOfTime
  <2>. QED
    BY <1>2, <1>3, <2>1, <2>2, <2>3
<1>. QED
  BY <1>1, <1>4, <1>5, <1>6

\* The recorded total of a batch is the sum over its calls.
LEMMA BatchTotalIsTotal ==
  ASSUME NEW calls, IsFiniteSet(DOMAIN calls), \A i \in DOMAIN calls : TotalPaid(calls[i]) \in Nat
  PROVE  BatchTotal(calls) = Total([i \in DOMAIN calls |-> TotalPaid(calls[i])], DOMAIN calls)
<1>. DEFINE S == DOMAIN calls
            f == [i \in S |-> TotalPaid(calls[i])]
            P(g) == g = [s \in SUBSET S |->
                           IF s = {} THEN 0 ELSE TotalPaid(calls[Some(s)]) + g[s \ {Some(s)}]]
            h == CHOOSE g : P(g)
            t == CHOOSE g : SumsUp(g, f, SUBSET S)
<1>1. BatchTotal(calls) = h[S]
  BY DEF BatchTotal, FoldFunction, FoldFunctionOnSet, MapThenFoldSet, Some
<1>2. \A s \in SUBSET S : s # {} => f[Some(s)] = TotalPaid(calls[Some(s)])
  BY DEF Some
<1>3. \A g : P(g) <=> SumsUp(g, f, SUBSET S)
  <2>. HIDE DEF f
  <2>. QED
    BY <1>2 DEF SumsUp
<1>4. \A i \in S : f[i] \in Int
  OBVIOUS
<1>. HIDE DEF P, f
<1>5. P(h) /\ SumsUp(h, f, SUBSET S) /\ SumsUp(t, f, SUBSET S)
  BY <1>3, <1>4, SumsExist
<1>. HIDE DEF h, t, S
<1>6. h[S] = t[S]
  BY <1>5, SumsAgree DEF S
<1>7. Total(f, S) = t[S]
  BY TotalIsChosen DEF t
<1>. QED
  BY <1>1, <1>6, <1>7 DEF f, S

\* What the calls of a batch move at once.
MovedBy(calls) == FoldFunction(LAMBDA c, sum : Moved(c) + sum, 0, calls)

\* And so is what the batch moves.
LEMMA MovedByIsTotal ==
  ASSUME NEW calls, IsFiniteSet(DOMAIN calls), \A i \in DOMAIN calls : Moved(calls[i]) \in Nat
  PROVE  MovedBy(calls) = Total([i \in DOMAIN calls |-> Moved(calls[i])], DOMAIN calls)
<1>. DEFINE S == DOMAIN calls
            f == [i \in S |-> Moved(calls[i])]
            P(g) == g = [s \in SUBSET S |->
                           IF s = {} THEN 0 ELSE Moved(calls[Some(s)]) + g[s \ {Some(s)}]]
            h == CHOOSE g : P(g)
            t == CHOOSE g : SumsUp(g, f, SUBSET S)
<1>1. MovedBy(calls) = h[S]
  BY DEF MovedBy, FoldFunction, FoldFunctionOnSet, MapThenFoldSet, Some
<1>2. \A s \in SUBSET S : s # {} => f[Some(s)] = Moved(calls[Some(s)])
  BY DEF Some
<1>3. \A g : P(g) <=> SumsUp(g, f, SUBSET S)
  <2>. HIDE DEF f
  <2>. QED
    BY <1>2 DEF SumsUp
<1>4. \A i \in S : f[i] \in Int
  OBVIOUS
<1>. HIDE DEF P, f
<1>5. P(h) /\ SumsUp(h, f, SUBSET S) /\ SumsUp(t, f, SUBSET S)
  BY <1>3, <1>4, SumsExist
<1>. HIDE DEF h, t, S
<1>6. h[S] = t[S]
  BY <1>5, SumsAgree DEF S
<1>7. Total(f, S) = t[S]
  BY TotalIsChosen DEF t
<1>. QED
  BY <1>1, <1>6, <1>7 DEF f, S

\* A call that is allowed moves at most what is recorded for it.
LEMMA MovedWithinPaid ==
  ASSUME NEW id, NEW c, CallAllowed(id, c)
  PROVE  TotalPaid(c) \in Nat /\ Moved(c) \in Nat /\ Moved(c) <= TotalPaid(c)
BY UintAssumption DEF CallAllowed, SpendAllowed, Uint, Moved

\* A batch that is allowed moves at most what is recorded for it.
LEMMA MovedByWithinBatch ==
  ASSUME NEW id, NEW calls \in Seq(Call), BatchAllowed(id, calls)
  PROVE  MovedBy(calls) \in Nat /\ BatchTotal(calls) \in Nat /\ MovedBy(calls) <= BatchTotal(calls)
<1>1. PICK f, g, S : /\ S = DOMAIN calls
                     /\ f = [i \in S |-> Moved(calls[i])]
                     /\ g = [i \in S |-> TotalPaid(calls[i])]
  OBVIOUS
<1>2. IsFiniteSet(S)
  <2>1. S = 1..Len(calls) /\ 1 \in Int /\ Len(calls) \in Int
    BY <1>1
  <2>. QED
    BY <2>1, FS_Interval
<1>3. \A i \in S : /\ TotalPaid(calls[i]) \in Nat /\ Moved(calls[i]) \in Nat
                   /\ Moved(calls[i]) <= TotalPaid(calls[i])
  BY <1>1, MovedWithinPaid DEF BatchAllowed
<1>4. MovedBy(calls) = Total(f, S) /\ BatchTotal(calls) = Total(g, S)
  BY <1>1, <1>2, <1>3, MovedByIsTotal, BatchTotalIsTotal
<1>5. (\A i \in S : f[i] \in Nat /\ g[i] \in Nat) /\ \A i \in S : f[i] <= g[i]
  BY <1>1, <1>3
<1>6. Total(f, S) \in Nat /\ Total(g, S) \in Nat
  <2>1. (\A i \in S : f[i] \in Nat) /\ \A i \in S : g[i] \in Nat
    BY <1>5
  <2>. QED
    BY <1>2, <2>1, TotalNat
<1>7. Total(f, S) <= Total(g, S)
  <2>1. S \subseteq S
    OBVIOUS
  <2>. QED
    BY <1>2, <1>5, <2>1, TotalLess
<1>. QED
  BY <1>4, <1>6, <1>7

\* The counters of a policy cover the money it moved.
PolicyCovers(p, l, n) ==
  /\ Window(l, n, p.dayWindowStart, Day, p.spentToday, p.terms.dailyLimit)
  /\ Window(l, n, p.weekWindowStart, Week, p.spentThisWeek, p.terms.weeklyLimit)
  /\ Total(l, 0..n) <= p.spentTotal

\* Money moves under policies that exist and not in the future, and every policy
\* covers what it moved.
MoneyInv ==
  /\ ledger \in [PolicyId -> [Time -> Nat]]
  /\ \A id \in PolicyId : \A t \in Time :
       ledger[id][t] # 0 => id \in DOMAIN policies /\ t <= now
  /\ \A id \in DOMAIN policies : PolicyCovers(policies[id], ledger[id], now)

LEMMA PolicyTypes ==
  ASSUME NEW p \in Policy
  PROVE  /\ p.spentToday \in Nat /\ p.spentThisWeek \in Nat /\ p.spentTotal \in Nat
         /\ p.terms.dailyLimit \in Nat /\ p.terms.weeklyLimit \in Nat
         /\ p.dayWindowStart \in Time /\ p.weekWindowStart \in Time
BY ParamAssumption, UintAssumption DEF Policy, ParamType, Uint

\* A policy that has moved nothing opens its windows.
LEMMA WindowOfNew ==
  ASSUME NEW l \in [Time -> Nat], NEW n \in Time, \A t \in Time : l[t] = 0,
         NEW length \in Nat \ {0}, NEW limit \in Nat
  PROVE  Window(l, n, n, length, 0, limit)
<1>1. n \in Nat /\ n \in Int /\ n <= MaxTime
  BY TimeAssumption DEF Time
<1>2. Total(l, n..n) = 0
  <2>1. IsFiniteSet(n..n) /\ \A t \in n..n : l[t] = 0
    BY <1>1, StretchOfTime
  <2>. QED
    BY <2>1, TotalZero
<1>3. ASSUME NEW a \in Time PROVE Total(l, a..(n - 1)) = 0
  <2>1. a \in Nat /\ n - 1 \in Int /\ n - 1 <= MaxTime
    BY <1>1, TimeAssumption DEF Time
  <2>2. IsFiniteSet(a..(n - 1)) /\ \A t \in a..(n - 1) : l[t] = 0
    BY <2>1, StretchOfTime
  <2>. QED
    BY <2>2, TotalZero
<1>. QED
  BY <1>1, <1>2, <1>3 DEF Window

\* One recorded spend, with the money of it entered in the ledger.
LEMMA SpendKeepsLedger ==
  ASSUME IInv, MoneyInv,
         NEW id \in DOMAIN policies, NEW amount \in Nat, NEW m \in Nat, m <= amount,
         policies' = [policies EXCEPT ![id] = AddSpend(policies[id], amount)],
         now' = now,
         ledger' = [ledger EXCEPT ![id][now] = @ + m]
  PROVE  MoneyInv'
<1>. DEFINE p == policies[id]
            q == AddSpend(p, amount)
            l == ledger[id]
            k == ledger'[id]
<1>1. /\ p \in Policy /\ now \in Time /\ id \in PolicyId
      /\ l \in [Time -> Nat]
  BY DEF IInv, TypeOK, MoneyInv
<1>2. k = [l EXCEPT ![now] = @ + m]
  BY <1>1 DEF MoneyInv
<1>3. Entered(l, k, now, m)
  BY <1>1, <1>2 DEF Entered
<1>4. ledger' \in [PolicyId -> [Time -> Nat]]
  BY <1>3 DEF Entered, MoneyInv
<1>5. \A i \in PolicyId : i # id => ledger'[i] = ledger[i]
  BY DEF MoneyInv
<1>6. /\ q.dayWindowStart = IF now >= p.dayWindowStart + Day THEN now ELSE p.dayWindowStart
      /\ q.spentToday = EffectiveToday(p) + amount
      /\ q.weekWindowStart = IF now >= p.weekWindowStart + Week THEN now ELSE p.weekWindowStart
      /\ q.spentThisWeek = EffectiveWeek(p) + amount
      /\ q.spentTotal = p.spentTotal + amount
      /\ q.terms = p.terms
  BY <1>1 DEF AddSpend, RefreshWindows, Policy
<1>7. \A t \in Time : t > now => l[t] = 0
  <2>1. \A t \in Time : l[t] # 0 => t <= now
    BY <1>1 DEF MoneyInv
  <2>2. now \in Nat /\ \A t \in Time : t \in Nat
    BY <1>1, TimeAssumption DEF Time
  <2>. HIDE DEF l
  <2>. QED
    BY <2>1, <2>2
<1>8. PolicyCovers(p, l, now)
  BY DEF MoneyInv
<1>9. /\ p.spentToday \in Nat /\ p.spentThisWeek \in Nat /\ p.spentTotal \in Nat
      /\ p.terms.dailyLimit \in Nat /\ p.terms.weeklyLimit \in Nat
      /\ p.spentToday <= p.terms.dailyLimit /\ p.spentThisWeek <= p.terms.weeklyLimit
  BY <1>1, PolicyTypes DEF IInv, CountersWithinCaps
<1>10. PolicyCovers(q, k, now)
  <2>. HIDE DEF p, q, l, k
  <2>1. Window(k, now, q.dayWindowStart, Day, q.spentToday, q.terms.dailyLimit)
    <3>1. Day \in Nat \ {0} /\ Window(l, now, p.dayWindowStart, Day, p.spentToday, p.terms.dailyLimit)
      BY <1>8, TimeAssumption DEF PolicyCovers
    <3>2. Window(k, now, IF now >= p.dayWindowStart + Day THEN now ELSE p.dayWindowStart, Day,
                 (IF now >= p.dayWindowStart + Day THEN 0 ELSE p.spentToday) + amount,
                 p.terms.dailyLimit)
      BY <1>1, <1>3, <1>7, <1>9, <3>1, WindowSpend
    <3>. QED
      BY <1>6, <3>2, Zenon DEF EffectiveToday
  <2>2. Window(k, now, q.weekWindowStart, Week, q.spentThisWeek, q.terms.weeklyLimit)
    <3>1. Week \in Nat \ {0} /\ Window(l, now, p.weekWindowStart, Week, p.spentThisWeek, p.terms.weeklyLimit)
      BY <1>8, TimeAssumption DEF PolicyCovers
    <3>2. Window(k, now, IF now >= p.weekWindowStart + Week THEN now ELSE p.weekWindowStart, Week,
                 (IF now >= p.weekWindowStart + Week THEN 0 ELSE p.spentThisWeek) + amount,
                 p.terms.weeklyLimit)
      BY <1>1, <1>3, <1>7, <1>9, <3>1, WindowSpend
    <3>. QED
      BY <1>6, <3>2, Zenon DEF EffectiveWeek
  <2>3. Total(k, 0..now) <= q.spentTotal
    <3>1. 0 \in 0..now /\ 0 \in Nat /\ now \in Int /\ now <= MaxTime
      BY <1>1, TimeAssumption DEF Time
    <3>2. Total(k, 0..now) = Total(l, 0..now) + m
      BY <1>1, <1>3, <3>1, StretchWith
    <3>4. Total(l, 0..now) \in Nat
      BY <1>1, <3>1, StretchOfTime
    <3>3. Total(l, 0..now) <= p.spentTotal
      BY <1>8 DEF PolicyCovers
    <3>. QED
      BY <1>6, <1>9, <3>2, <3>3, <3>4
  <2>. QED
    BY <2>1, <2>2, <2>3 DEF PolicyCovers
<1>11. /\ DOMAIN policies' = DOMAIN policies /\ DOMAIN policies \subseteq PolicyId
       /\ policies'[id] = q
       /\ \A i \in DOMAIN policies : i # id => policies'[i] = policies[i]
  BY DEF IInv, TypeOK
<1>12. \A i \in PolicyId : \A t \in Time :
         ledger'[i][t] # 0 => i \in DOMAIN policies' /\ t <= now'
  <2>. SUFFICES ASSUME NEW i \in PolicyId, NEW t \in Time, ledger'[i][t] # 0
                PROVE  i \in DOMAIN policies' /\ t <= now'
    OBVIOUS
  <2>1. CASE i # id
    BY <1>5, <1>11, <2>1 DEF MoneyInv
  <2>2. CASE i = id /\ t # now
    BY <1>3, <1>11, <2>2 DEF MoneyInv, Entered
  <2>3. CASE i = id /\ t = now
    BY <1>1, <1>11, <2>3, TimeAssumption DEF Time
  <2>. QED
    BY <2>1, <2>2, <2>3
<1>13. \A i \in DOMAIN policies' : PolicyCovers(policies'[i], ledger'[i], now')
  <2>. HIDE DEF q
  <2>. QED
    BY <1>5, <1>10, <1>11 DEF MoneyInv
<1>. QED
  BY <1>4, <1>12, <1>13 DEF MoneyInv, PolicyCovers

\* An account that records a spend by itself moves nothing.
LEMMA RecordKeepsLedger ==
  ASSUME IInv, MoneyInv, NEW caller, Record(caller), ledger' = ledger
  PROVE  MoneyInv'
<1>1. PICK id \in DOMAIN policies, amount \in Nat :
        /\ policies' = [policies EXCEPT ![id] = AddSpend(policies[id], amount)]
        /\ now' = now
  BY UintAssumption
     DEF Record, RecordSessionCall, RecordSessionBatchCall, CallAllowed,
         BatchAllowed, SpendAllowed, Uint
<1>2. ledger' = [ledger EXCEPT ![id][now] = @ + 0]
  <2>1. now \in Time /\ id \in PolicyId
    BY DEF IInv, TypeOK
  <2>2. ledger[id] \in [Time -> Nat] /\ ledger[id][now] + 0 = ledger[id][now]
    BY <2>1 DEF MoneyInv
  <2>3. [ledger[id] EXCEPT ![now] = @ + 0] = ledger[id]
    BY <2>1, <2>2
  <2>4. [ledger EXCEPT ![id][now] = @ + 0] = [ledger EXCEPT ![id] = [ledger[id] EXCEPT ![now] = @ + 0]]
    BY <2>1 DEF MoneyInv
  <2>. QED
    BY <2>1, <2>3, <2>4 DEF MoneyInv
<1>3. PICK m : m = 0
  OBVIOUS
<1>4. m \in Nat /\ m <= amount
  BY <1>3
<1>5. ledger' = [ledger EXCEPT ![id][now] = @ + m]
  BY <1>2, <1>3, Zenon
<1>. QED
  BY <1>1, <1>4, <1>5, SpendKeepsLedger

\* A session operation that runs.
LEMMA SessionSpendKeepsLedger ==
  ASSUME IInv, MoneyInv, NEW op \in SessionOp, ExecuteSession(op) \/ ExecuteSessionBatch(op)
  PROVE  MoneyInv'
<1>1. ASSUME ExecuteSession(op) PROVE MoneyInv'
  <2>1. CallAllowed(op.policy, op.calls[1]) /\ op.policy \in DOMAIN policies
    BY <1>1 DEF ExecuteSession, RecordSessionCall
  <2>2. /\ policies' = [policies EXCEPT ![op.policy] = AddSpend(policies[op.policy], TotalPaid(op.calls[1]))]
        /\ now' = now
        /\ ledger' = [ledger EXCEPT ![op.policy][now] = @ + Moved(op.calls[1])]
    BY <1>1 DEF ExecuteSession, RecordSessionCall, Enter
  <2>3. /\ TotalPaid(op.calls[1]) \in Nat /\ Moved(op.calls[1]) \in Nat
        /\ Moved(op.calls[1]) <= TotalPaid(op.calls[1])
    BY <2>1, MovedWithinPaid
  <2>. QED
    BY <2>1, <2>2, <2>3, SpendKeepsLedger
<1>2. ASSUME ExecuteSessionBatch(op) PROVE MoneyInv'
  <2>1. BatchAllowed(op.policy, op.calls) /\ op.policy \in DOMAIN policies /\ op.calls \in Seq(Call)
    BY <1>2, SessionOpAssumption DEF ExecuteSessionBatch, RecordSessionBatchCall
  <2>2. /\ policies' = [policies EXCEPT ![op.policy] = AddSpend(policies[op.policy], BatchTotal(op.calls))]
        /\ now' = now
        /\ ledger' = [ledger EXCEPT ![op.policy][now] = @ + MovedBy(op.calls)]
    BY <1>2 DEF ExecuteSessionBatch, RecordSessionBatchCall, Enter, MovedBy
  <2>3. /\ BatchTotal(op.calls) \in Nat /\ MovedBy(op.calls) \in Nat
        /\ MovedBy(op.calls) <= BatchTotal(op.calls)
    BY <2>1, MovedByWithinBatch
  <2>. QED
    BY <2>1, <2>2, <2>3, SpendKeepsLedger
<1>. QED
  BY <1>1, <1>2

\* Time passes.
LEMMA TickKeepsLedger ==
  ASSUME IInv, MoneyInv, Tick, ledger' = ledger
  PROVE  MoneyInv'
<1>1. /\ now \in Time /\ now' = now + 1 /\ now + 1 \in Time /\ policies' = policies
      /\ DOMAIN policies \subseteq PolicyId
  BY TimeAssumption DEF Tick, policyVars, IInv, TypeOK, Time
<1>2. ASSUME NEW id \in DOMAIN policies
      PROVE  PolicyCovers(policies[id], ledger[id], now + 1)
  <2>. DEFINE l == ledger[id]
              p == policies[id]
  <2>1. PolicyCovers(p, l, now) /\ l \in [Time -> Nat]
    BY <1>1 DEF MoneyInv
  <2>2. \A t \in Time : t > now => l[t] = 0
    BY <1>1, TimeAssumption DEF MoneyInv, Time
  <2>. HIDE DEF l, p
  <2>3. /\ Window(l, now + 1, p.dayWindowStart, Day, p.spentToday, p.terms.dailyLimit)
        /\ Window(l, now + 1, p.weekWindowStart, Week, p.spentThisWeek, p.terms.weeklyLimit)
    BY <1>1, <2>1, <2>2, WindowTick DEF PolicyCovers
  <2>4. Window(l, now, 0, MaxTime + 1, p.spentTotal, p.spentTotal)
    <3>1. \A t \in Time : t < 0 + (MaxTime + 1)
      BY TimeAssumption DEF Time
    <3>2. 0 \in 0..now
      BY <1>1 DEF Time
    <3>3. ASSUME NEW a \in Time PROVE Total(l, a..(0 - 1)) <= p.spentTotal
      <4>1. a \in Nat /\ 0 - 1 \in Int /\ 0 - 1 <= MaxTime /\ 0 <= a /\ 0 - 1 <= now /\ 0 \in Nat
            /\ now \in Int /\ now <= MaxTime
        BY <1>1, TimeAssumption DEF Time
      <4>2. Total(l, a..(0 - 1)) <= Total(l, 0..now)
        BY <2>1, <4>1, ShorterStretch
      <4>3. Total(l, a..(0 - 1)) \in Nat /\ Total(l, 0..now) \in Nat
        BY <2>1, <4>1, StretchOfTime
      <4>4. Total(l, 0..now) <= p.spentTotal /\ p.spentTotal \in Nat
        BY <1>1, <2>1, PolicyTypes DEF PolicyCovers, IInv, TypeOK, p
      <4>. QED
        BY <4>2, <4>3, <4>4
    <3>. QED
      BY <2>1, <3>1, <3>2, <3>3 DEF Window, PolicyCovers
  <2>5. Total(l, 0..(now + 1)) <= p.spentTotal
    <3>1. Window(l, now + 1, 0, MaxTime + 1, p.spentTotal, p.spentTotal)
      BY <1>1, <2>1, <2>2, <2>4, WindowTick
    <3>. QED
      BY <3>1 DEF Window
  <2>. QED
    BY <2>3, <2>5 DEF PolicyCovers, l, p
<1>3. \A id \in PolicyId : \A t \in Time :
        ledger[id][t] # 0 => id \in DOMAIN policies /\ t <= now + 1
  BY <1>1 DEF MoneyInv, Time
<1>. QED
  BY <1>1, <1>2, <1>3 DEF MoneyInv
\* The other functions of the manager; a new policy takes an id that is free.
LEMMA ManageKeepsLedger ==
  ASSUME IInv, NoncesAreFresh, MoneyInv, NEW caller, Manage(caller), ledger' = ledger
  PROVE  MoneyInv'
<1>1. /\ now \in Time /\ now' = now
      /\ DOMAIN policies \subseteq PolicyId
      /\ \A id \in DOMAIN policies : policies[id] \in Policy
      /\ ledger \in [PolicyId -> [Time -> Nat]]
  BY DEF Manage, TransferOwnership, SetAllowedTarget, CreatePolicy, RevokePolicy,
         GuardianRevoke, SetRecipients, UpdateOwner, policyVars, IInv, TypeOK, MoneyInv
<1>2. ASSUME DOMAIN policies' = DOMAIN policies,
             \A id \in DOMAIN policies :
               /\ policies'[id].dayWindowStart = policies[id].dayWindowStart
               /\ policies'[id].weekWindowStart = policies[id].weekWindowStart
               /\ policies'[id].spentToday = policies[id].spentToday
               /\ policies'[id].spentThisWeek = policies[id].spentThisWeek
               /\ policies'[id].spentTotal = policies[id].spentTotal
               /\ policies'[id].terms = policies[id].terms
      PROVE  MoneyInv'
  <2>1. \A id \in DOMAIN policies : PolicyCovers(policies'[id], ledger[id], now)
    BY <1>2 DEF MoneyInv, PolicyCovers
  <2>. QED
    BY <1>1, <1>2, <2>1 DEF MoneyInv
<1>3. ASSUME NEW p \in Params, CreatePolicy(caller, p) PROVE MoneyInv'
  <2>. DEFINE id == <<p.smartAccount, policyNonce[p.smartAccount]>>
  <2>1. p.smartAccount \in Account /\ p.dailyLimit \in Nat /\ p.weeklyLimit \in Nat
    BY ParamAssumption, UintAssumption DEF ParamType, Uint
  <2>2. policyNonce[p.smartAccount] \in 0..MaxNonce
    BY <2>1 DEF IInv, TypeOK
  <2>3. id \in PolicyId
    BY <2>1, <2>2 DEF PolicyId
  <2>4. id \notin DOMAIN policies
    <3>1. policyNonce[p.smartAccount] \in Nat
      BY <2>2, TimeAssumption
    <3>. QED
      BY <3>1 DEF NoncesAreFresh
  <2>5. /\ DOMAIN policies' = DOMAIN policies \cup {id}
        /\ policies'[id] = NewPolicy(p)
        /\ \A i \in DOMAIN policies : policies'[i] = policies[i]
    BY <1>3, <2>4 DEF CreatePolicy
  <2>6. PolicyCovers(NewPolicy(p), ledger[id], now)
    <3>. DEFINE l == ledger[id]
    <3>1. l \in [Time -> Nat] /\ \A t \in Time : l[t] = 0
      BY <1>1, <2>3, <2>4 DEF MoneyInv
    <3>2. /\ Window(l, now, now, Day, 0, p.dailyLimit)
          /\ Window(l, now, now, Week, 0, p.weeklyLimit)
      BY <1>1, <2>1, <3>1, TimeAssumption, WindowOfNew
    <3>3. Total(l, 0..now) = 0
      <4>1. now \in Int /\ now <= MaxTime /\ 0 \in Nat
        BY <1>1, TimeAssumption DEF Time
      <4>2. IsFiniteSet(0..now) /\ \A t \in 0..now : l[t] = 0
        BY <3>1, <4>1, StretchOfTime
      <4>. QED
        BY <4>2, TotalZero
    <3>. QED
      BY <3>2, <3>3 DEF NewPolicy, PolicyCovers
  <2>7. \A i \in DOMAIN policies' : PolicyCovers(policies'[i], ledger[i], now)
    <3>. HIDE DEF id
    <3>. QED
      BY <2>5, <2>6 DEF MoneyInv
  <2>8. \A i \in PolicyId : \A t \in Time :
          ledger[i][t] # 0 => i \in DOMAIN policies' /\ t <= now
    BY <2>5 DEF MoneyInv
  <2>. QED
    BY <1>1, <2>7, <2>8 DEF MoneyInv
<1>4. ASSUME NEW id \in DOMAIN policies, RevokePolicy(caller, id) \/ GuardianRevoke(caller, id)
      PROVE  MoneyInv'
  BY <1>1, <1>2, <1>4, SMTT(30) DEF RevokePolicy, GuardianRevoke, Policy
<1>5. ASSUME policies' = policies PROVE MoneyInv'
  BY <1>2, <1>5
<1>. QED
  BY <1>3, <1>4, <1>5
     DEF Manage, TransferOwnership, SetAllowedTarget, SetRecipients, UpdateOwner, policyVars

SpendInv == IInv /\ NoncesAreFresh /\ MoneyInv

LEMMA SpendInit == SessionInit => SpendInv
<1>. SUFFICES ASSUME SessionInit PROVE SpendInv
  OBVIOUS
<1>1. IInv /\ DOMAIN policies = {}
  BY InitIInv DEF SessionInit, Init
<1>. QED
  BY <1>1 DEF SpendInv, SessionInit, MoneyInv, NoncesAreFresh

LEMMA SpendStep == SpendInv /\ [SessionNext]_sessionVars => SpendInv'
<1>. SUFFICES ASSUME SpendInv, [SessionNext]_sessionVars PROVE SpendInv'
  OBVIOUS
<1>. USE DEF SpendInv
<1>1. IInv' /\ NoncesAreFresh'
  BY SessionStepIsManagerStep, NextIInv, NoncesStayFresh
<1>2. ASSUME UNCHANGED <<vars, ledger>> PROVE MoneyInv'
  BY <1>2 DEF vars, MoneyInv
<1>3. ASSUME RunSessionOp PROVE MoneyInv'
  BY <1>3, SessionSpendKeepsLedger DEF RunSessionOp
<1>4. ASSUME RunOwnerOp PROVE MoneyInv'
  BY <1>4, ManageKeepsLedger, RecordKeepsLedger DEF RunOwnerOp
<1>5. ASSUME Direct PROVE MoneyInv'
  BY <1>5, ManageKeepsLedger, TickKeepsLedger DEF Direct, entryVars
<1>6. MoneyInv'
  BY <1>2, <1>3, <1>4, <1>5
     DEF SessionNext, Validate, StartExecution, RunWithoutEffect, sessionVars, entryVars
<1>. QED
  BY <1>1, <1>6

LEMMA SpendInvCovers == SpendInv => CountersCoverLedger
<1>. SUFFICES ASSUME SpendInv, NEW id \in DOMAIN policies
              PROVE  /\ SumBetween(id, policies[id].dayWindowStart, now) <= policies[id].spentToday
                     /\ SumBetween(id, policies[id].weekWindowStart, now) <= policies[id].spentThisWeek
                     /\ SumBetween(id, 0, now) <= policies[id].spentTotal
  BY DEF CountersCoverLedger
<1>1. \A a, b : SumBetween(id, a, b) = Total(ledger[id], a..b)
  BY DEF SumBetween, Total
<1>2. PolicyCovers(policies[id], ledger[id], now)
  BY DEF SpendInv, MoneyInv
<1>. QED
  BY <1>1, <1>2 DEF PolicyCovers, Window

LEMMA SpendInvTwice == SpendInv => RollingWindowAtMostTwice
<1>. SUFFICES ASSUME SpendInv, NEW id \in DOMAIN policies
              PROVE  LET since(length) == IF now >= length THEN now - length + 1 ELSE 0 IN
                     /\ SumBetween(id, since(Day), now) <= 2 * policies[id].terms.dailyLimit
                     /\ SumBetween(id, since(Week), now) <= 2 * policies[id].terms.weeklyLimit
  BY DEF RollingWindowAtMostTwice
<1>. DEFINE p == policies[id]
            l == ledger[id]
<1>1. \A a, b : SumBetween(id, a, b) = Total(l, a..b)
  BY DEF SumBetween, Total
<1>2. PolicyCovers(p, l, now) /\ l \in [Time -> Nat] /\ p \in Policy /\ now \in Time
  BY DEF SpendInv, MoneyInv, IInv, TypeOK
<1>3. /\ p.spentToday \in Nat /\ p.spentThisWeek \in Nat
      /\ p.terms.dailyLimit \in Nat /\ p.terms.weeklyLimit \in Nat
      /\ p.spentToday <= p.terms.dailyLimit /\ p.spentThisWeek <= p.terms.weeklyLimit
  BY <1>2, PolicyTypes DEF SpendInv, IInv, CountersWithinCaps
<1>. HIDE DEF p, l
<1>4. Total(l, (IF now >= Day THEN now - Day + 1 ELSE 0)..now) <= 2 * p.terms.dailyLimit
  BY <1>2, <1>3, TimeAssumption, WindowTwice DEF PolicyCovers
<1>5. Total(l, (IF now >= Week THEN now - Week + 1 ELSE 0)..now) <= 2 * p.terms.weeklyLimit
  BY <1>2, <1>3, TimeAssumption, WindowTwice DEF PolicyCovers
<1>. QED
  BY <1>1, <1>4, <1>5, Zenon DEF p

\* What left the account under a policy since its day and week windows opened,
\* and ever, is at most what the counters say, for any calls, batches and bundles
\* (record before call in executeSession and executeSessionBatch).
THEOREM CountersCover == SessionSpec => []CountersCoverLedger
BY SpendInit, SpendStep, SpendInvCovers, PTL DEF SessionSpec

\* Any stretch of time as long as a day sees at most twice the daily limit leave
\* the account, any as long as a week twice the weekly limit (_refreshWindows
\* restarts a window with the first spend after its end).
THEOREM RollingWindow == SessionSpec => []RollingWindowAtMostTwice
BY SpendInit, SpendStep, SpendInvTwice, PTL DEF SessionSpec
=============================================================================
