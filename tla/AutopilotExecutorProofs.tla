------------------------ MODULE AutopilotExecutorProofs ------------------------
(***************************************************************************)
(* Proofs about the Autopilot executor for any intents, accounts, number   *)
(* of overlapping ticks and crashes: no run is counted that was not paid.  *)
(* The second half is about ticks that neither overlap nor crash: at most  *)
(* one payment of an intent is not counted, and what is completed or has   *)
(* failed stays so.                                                        *)
(***************************************************************************)
EXTENDS AutopilotExecutor, FiniteSets, FiniteSetTheorems, TLAPS

\* The payments of an intent that were mined, and the operations whose receipt
\* some tick is waiting for.
MinedOf(i) == {k \in DOMAIN ops : ops[k].intent = i /\ ops[k].state = "mined"}

Awaited == {tick[t].op : t \in {u \in Ticker : tick[u].pc = "wait"}}

\* The runs a record counts are payments other than those somebody has still to
\* count: the one it is waiting for itself and those that ticks await.
Good(s) ==
  /\ s.runsCompleted <= Cardinality(MinedOf(s.id) \ (Awaited \cup {s.pending}))
  /\ s.pending # NoOp =>
       s.pending \in DOMAIN ops /\ ops[s.pending].intent = s.id /\ s.pending \notin Awaited

\* The records a tick has read are as good as those of the file, however old.
TickOK(x) ==
  /\ \A s \in x.confirming \cup x.due : Good(s)
  /\ \A s \in x.confirming : s.pending # NoOp
  /\ x.pc \in {"nonce", "send", "wait"} => x.cur \in Record /\ Good(x.cur)
  /\ x.pc = "wait" => x.op \in DOMAIN ops /\ ops[x.op].intent = x.cur.id

StoreOK == \A i \in DOMAIN store : store[i].id = i /\ Good(store[i])

TicksOK == \A t \in Ticker : TickOK(tick[t])

\* An operation is awaited by the tick that sent it.
AwaitedOnce ==
  \A t, u \in Ticker :
    tick[t].pc = "wait" /\ tick[u].pc = "wait" /\ tick[t].op = tick[u].op => t = u

PaidExact == \A i \in Intent : paid[i] = Cardinality(MinedOf(i))

ExecutorInv == TypeOK /\ StoreOK /\ TicksOK /\ AwaitedOnce /\ PaidExact

-----------------------------------------------------------------------------
(* Counting *)

LEMMA SomeOfFinite ==
  ASSUME NEW q \in Seq(Operation), NEW S, S \subseteq DOMAIN q
  PROVE  IsFiniteSet(S) /\ Cardinality(S) \in Nat /\ S \subseteq Nat
<1>1. DOMAIN q = 1..Len(q) /\ Len(q) \in Nat
  OBVIOUS
<1>2. IsFiniteSet(DOMAIN q)
  BY <1>1, FS_Interval
<1>3. IsFiniteSet(S)
  BY <1>2, FS_Subset
<1>. QED
  BY <1>1, <1>3, FS_CardinalityType

LEMMA FewerMined ==
  ASSUME NEW S, NEW T, IsFiniteSet(T), S \subseteq T, NEW n \in Nat, n <= Cardinality(S)
  PROVE  n <= Cardinality(T)
<1>1. IsFiniteSet(S) /\ Cardinality(S) <= Cardinality(T)
  BY FS_Subset
<1>2. Cardinality(S) \in Nat /\ Cardinality(T) \in Nat
  BY <1>1, FS_CardinalityType
<1>. QED
  BY <1>1, <1>2

LEMMA OneMoreMined ==
  ASSUME NEW S, NEW T, NEW k, IsFiniteSet(T), S \subseteq T, k \in T, k \notin S,
         NEW n \in Nat, n <= Cardinality(S)
  PROVE  n + 1 <= Cardinality(T)
<1>1. IsFiniteSet(S)
  BY FS_Subset
<1>2. Cardinality(S) \in Nat
  BY <1>1, FS_CardinalityType
<1>3. Cardinality(S \cup {k}) = Cardinality(S) + 1
  BY <1>1, FS_AddElement
<1>4. S \cup {k} \subseteq T
  OBVIOUS
<1>5. n + 1 <= Cardinality(S \cup {k}) /\ n + 1 \in Nat
  BY <1>2, <1>3
<1>. QED
  BY <1>4, <1>5, FewerMined

-----------------------------------------------------------------------------
(* What every step does to operations and to what is awaited *)

Growing ==
  \A k \in DOMAIN ops :
    /\ k \in DOMAIN ops'
    /\ ops'[k].intent = ops[k].intent
    /\ ops[k].state = "mined" => ops'[k].state = "mined"

Settling ==
  /\ Growing
  /\ Awaited' \cap DOMAIN ops \subseteq Awaited

\* A record stays good while operations are settled and new ones are sent.
LEMMA GoodStays ==
  ASSUME TypeOK, TypeOK', Settling, NEW s, s.runsCompleted \in Nat, Good(s)
  PROVE  Good(s)'
<1>. PICK n, p, i : n = s.runsCompleted /\ p = s.pending /\ i = s.id
  OBVIOUS
<1>1. MinedOf(i) \ (Awaited \cup {p}) \subseteq MinedOf(i)' \ (Awaited' \cup {p})
  BY DEF Settling, Growing, MinedOf
<1>2. MinedOf(i)' \ (Awaited' \cup {p}) \subseteq DOMAIN ops' /\ ops' \in Seq(Operation)
  BY DEF MinedOf, TypeOK
<1>3. IsFiniteSet(MinedOf(i)' \ (Awaited' \cup {p}))
  BY <1>2, SomeOfFinite
<1>4. n <= Cardinality(MinedOf(i)' \ (Awaited' \cup {p}))
  BY <1>1, <1>3, FewerMined DEF Good
<1>5. p # NoOp => p \in DOMAIN ops' /\ ops'[p].intent = i /\ p \notin Awaited'
  BY DEF Good, Settling, Growing
<1>. QED
  BY <1>4, <1>5 DEF Good

LEMMA TickStays ==
  ASSUME TypeOK, TypeOK', Settling, NEW x \in TickState, TickOK(x)
  PROVE  TickOK(x)'
<1>1. \A s \in Record : s.runsCompleted \in Nat
  BY DEF Record
<1>2. x.confirming \subseteq Record /\ x.due \subseteq Record
  BY DEF TickState
<1>3. \A s \in Record : Good(s) => Good(s)'
  BY <1>1, GoodStays
<1>4. (\A s \in x.confirming \cup x.due : Good(s))'
  BY <1>2, <1>3 DEF TickOK
<1>5. x.pc \in {"nonce", "send", "wait"} => x.cur \in Record /\ Good(x.cur)'
  BY <1>3 DEF TickOK
<1>6. x.pc = "wait" => x.op \in DOMAIN ops' /\ ops'[x.op].intent = x.cur.id
  BY DEF TickOK, Settling, Growing
<1>. QED
  BY <1>4, <1>5, <1>6 DEF TickOK

LEMMA StoreStays ==
  ASSUME ExecutorInv, TypeOK', Settling, UNCHANGED store
  PROVE  StoreOK'
<1>. SUFFICES ASSUME NEW i \in DOMAIN store
              PROVE  store[i].id = i /\ Good(store[i])'
  BY DEF StoreOK
<1>1. PICK s : s = store[i]
  OBVIOUS
<1>2. s \in Record /\ Good(s) /\ s.id = i
  BY <1>1 DEF ExecutorInv, TypeOK, StoreOK
<1>3. s.runsCompleted \in Nat
  BY <1>2 DEF Record
<1>4. Good(s)'
  BY <1>2, <1>3, GoodStays DEF ExecutorInv
<1>5. store'[i] = s
  BY <1>1
<1>. QED
  BY <1>2, <1>4, <1>5 DEF Good

\* What a step leaves on the chain and of the clock and the histories.
ChainOK ==
  /\ policyUsable' \in [Intent -> BOOLEAN]
  /\ ops' \in Seq(Operation) /\ Len(ops') <= MaxOps
  /\ nonce' \in [Account -> 0..MaxNonce]
  /\ paid' \in [Intent -> Nat]
  /\ now' \in Time /\ crashes' \in 0..MaxCrashes /\ disturbed' \in BOOLEAN
  /\ Growing
  /\ PaidExact'

LEMMA ChainUntouched ==
  ASSUME ExecutorInv, UNCHANGED <<chain, now>>, crashes' \in 0..MaxCrashes, disturbed' \in BOOLEAN
  PROVE  ChainOK
<1>1. UNCHANGED <<policyUsable, ops, nonce, paid, now>>
  BY DEF chain
<1>2. Growing /\ PaidExact'
  BY <1>1 DEF ExecutorInv, Growing, PaidExact, MinedOf
<1>. QED
  BY <1>1, <1>2 DEF ChainOK, ExecutorInv, TypeOK

LEMMA AllUntouched ==
  ASSUME ExecutorInv, UNCHANGED <<chain, now, crashes, disturbed>>
  PROVE  ChainOK
<1>1. UNCHANGED <<chain, now>> /\ crashes' \in 0..MaxCrashes /\ disturbed' \in BOOLEAN
  BY DEF ExecutorInv, TypeOK
<1>. QED
  BY <1>1, ChainUntouched

\* A record of the file is replaced.
LEMMA StoreWith ==
  ASSUME ExecutorInv, TypeOK', Settling, NEW j, NEW r, r.id = j, Good(r)',
         store' = [store EXCEPT ![j] = r]
  PROVE  StoreOK'
<1>. SUFFICES ASSUME NEW i \in DOMAIN store
              PROVE  store'[i].id = i /\ Good(store[i])'
  BY DEF StoreOK
<1>1. PICK s : s = store[i]
  OBVIOUS
<1>2. s \in Record /\ Good(s) /\ s.id = i
  BY <1>1 DEF ExecutorInv, TypeOK, StoreOK
<1>3. s.runsCompleted \in Nat
  BY <1>2 DEF Record
<1>4. Good(s)'
  BY <1>2, <1>3, GoodStays DEF ExecutorInv
<1>5. (store'[i] = r /\ i = j) \/ store'[i] = s
  BY <1>1
<1>. QED
  BY <1>2, <1>4, <1>5 DEF Good

LEMMA TicksStay ==
  ASSUME ExecutorInv, TypeOK', Settling, UNCHANGED tick
  PROVE  TicksOK'
<1>. SUFFICES ASSUME NEW u \in Ticker
              PROVE  TickOK(tick[u])'
  BY DEF TicksOK
<1>1. PICK x : x = tick[u]
  OBVIOUS
<1>2. x \in TickState /\ TickOK(x)
  BY <1>1 DEF ExecutorInv, TypeOK, TicksOK
<1>3. TickOK(x)'
  BY <1>2, TickStays DEF ExecutorInv
<1>4. tick'[u] = x
  BY <1>1
<1>. QED
  BY <1>3, <1>4 DEF TickOK, Good

LEMMA TicksWith ==
  ASSUME ExecutorInv, TypeOK', Settling, NEW t \in Ticker, NEW y, TickOK(y)',
         tick' = [tick EXCEPT ![t] = y]
  PROVE  TicksOK'
<1>. SUFFICES ASSUME NEW u \in Ticker
              PROVE  TickOK(tick[u])'
  BY DEF TicksOK
<1>1. PICK x : x = tick[u]
  OBVIOUS
<1>2. x \in TickState /\ TickOK(x)
  BY <1>1 DEF ExecutorInv, TypeOK, TicksOK
<1>3. TickOK(x)'
  BY <1>2, TickStays DEF ExecutorInv
<1>4. tick'[u] = y \/ tick'[u] = x
  BY <1>1 DEF ExecutorInv, TypeOK
<1>. QED
  BY <1>3, <1>4 DEF TickOK, Good

\* A tick that goes on without waiting awaits nothing any more.
LEMMA TickLeaves ==
  ASSUME ExecutorInv, NEW t \in Ticker, NEW y, y.pc # "wait",
         tick' = [tick EXCEPT ![t] = y], Growing
  PROVE  /\ Settling /\ AwaitedOnce'
         /\ Awaited' \subseteq Awaited
         /\ tick[t].pc = "wait" => tick[t].op \notin Awaited'
<1>1. tick'[t] = y /\ \A u \in Ticker : u # t => tick'[u] = tick[u]
  BY DEF ExecutorInv, TypeOK
<1>2. \A u \in Ticker : tick'[u].pc = "wait" => u # t /\ tick'[u] = tick[u]
  BY <1>1
<1>3. Awaited' \subseteq Awaited
  BY <1>2 DEF Awaited
<1>4. AwaitedOnce'
  BY <1>2 DEF ExecutorInv, AwaitedOnce
<1>5. tick[t].pc = "wait" => tick[t].op \notin Awaited'
  BY <1>2 DEF ExecutorInv, AwaitedOnce, Awaited
<1>6. Settling
  BY <1>3 DEF Settling
<1>. QED
  BY <1>3, <1>4, <1>5, <1>6

\* Where Proceed leaves a tick.
LEMMA ProceedTyped ==
  ASSUME NEW t \in Ticker, NEW c, NEW d, c \subseteq Record, d \subseteq Record, Proceed(t, c, d)
  PROVE  \E y \in TickState : /\ y.pc \in {"idle", "loop"}
                              /\ y.confirming = c /\ y.due = d
                              /\ tick' = [tick EXCEPT ![t] = y]
<1>1. PICK y : /\ y = IF c \cup d = {} THEN Idle
                       ELSE [Idle EXCEPT !.pc = "loop", !.confirming = c, !.due = d]
               /\ tick' = [tick EXCEPT ![t] = y]
  BY DEF Proceed
<1>2. PICK pc \in {"idle", "loop"} : pc = IF c \cup d = {} THEN "idle" ELSE "loop"
  OBVIOUS
<1>3. y = [pc |-> pc, confirming |-> c, due |-> d, cur |-> NoIntent, nonce |-> 0, op |-> NoOp,
           fallback |-> FALSE]
  <2>1. CASE c \cup d = {}
    <3>1. c = {} /\ d = {}
      BY <2>1
    <3>. QED
      BY <1>1, <1>2, <2>1, <3>1 DEF Idle
  <2>2. CASE c \cup d # {}
    BY <1>1, <1>2, <2>2 DEF Idle
  <2>. QED
    BY <2>1, <2>2
<1>4. y \in TickState
  BY <1>3 DEF TickState
<1>5. y.pc = pc /\ y.confirming = c /\ y.due = d
  BY <1>3
<1>. QED
  BY <1>1, <1>4, <1>5

-----------------------------------------------------------------------------
(* Patches of the file *)

\* The record of j becomes r, if there is one.
Patched(j, r) == store' = [store EXCEPT ![j] = r]

LEMMA PatchTyped ==
  ASSUME TypeOK, NEW j, NEW r, Patched(j, r), j \in DOMAIN store => r \in Record
  PROVE  DOMAIN store' \subseteq Intent /\ store' \in [DOMAIN store' -> Record]
BY DEF TypeOK, Patched

LEMMA PatchGood ==
  ASSUME ExecutorInv, TypeOK', Settling, NEW j, NEW r, Patched(j, r),
         j \in DOMAIN store => r.id = j /\ Good(r)'
  PROVE  StoreOK'
<1>1. CASE j \in DOMAIN store
  BY <1>1, StoreWith DEF Patched
<1>2. CASE j \notin DOMAIN store
  <2>1. store' = store
    BY <1>2 DEF Patched, ExecutorInv, TypeOK
  <2>. QED
    BY <2>1, StoreStays
<1>. QED
  BY <1>1, <1>2

LEMMA StatusPatch ==
  ASSUME TypeOK, NEW j, NEW x \in Status, store' = [store EXCEPT ![j].status = x]
  PROVE  \E r : /\ Patched(j, r)
                /\ j \in DOMAIN store =>
                     /\ r \in Record /\ r.id = store[j].id /\ r.pending = store[j].pending
                     /\ r.runsCompleted = store[j].runsCompleted /\ r.status = x
<1>1. PICK r : r = [store[j] EXCEPT !.status = x]
  OBVIOUS
<1>2. Patched(j, r)
  BY <1>1 DEF Patched
<1>3. ASSUME j \in DOMAIN store
      PROVE  /\ r \in Record /\ r.id = store[j].id /\ r.pending = store[j].pending
             /\ r.runsCompleted = store[j].runsCompleted /\ r.status = x
  <2>1. store[j] \in Record
    BY <1>3 DEF TypeOK
  <2>. QED
    BY <1>1, <2>1 DEF Record
<1>. QED
  BY <1>2, <1>3

LEMMA RevertedPatch ==
  ASSUME TypeOK, NEW j, MarkReverted(j)
  PROVE  \E r : /\ Patched(j, r)
                /\ j \in DOMAIN store =>
                     /\ r \in Record /\ r.id = store[j].id /\ r.pending = NoOp
                     /\ r.runsCompleted = store[j].runsCompleted /\ r.status = "failed"
<1>1. PICK r : r = [store[j] EXCEPT !.status = "failed", !.pending = NoOp]
  OBVIOUS
<1>2. Patched(j, r)
  BY <1>1, Zenon DEF Patched, MarkReverted
<1>3. ASSUME j \in DOMAIN store
      PROVE  /\ r \in Record /\ r.id = store[j].id /\ r.pending = NoOp
             /\ r.runsCompleted = store[j].runsCompleted /\ r.status = "failed"
  <2>1. store[j] \in Record
    BY <1>3 DEF TypeOK
  <2>. QED
    BY <1>1, <2>1 DEF Record, Status
<1>. QED
  BY <1>2, <1>3

MarkConfirming(j, k) == store' = [store EXCEPT ![j].status = "confirming", ![j].pending = k]

LEMMA ConfirmingPatch ==
  ASSUME TypeOK, NEW j, NEW k \in OpId, MarkConfirming(j, k)
  PROVE  \E r : /\ Patched(j, r)
                /\ j \in DOMAIN store =>
                     /\ r \in Record /\ r.id = store[j].id /\ r.pending = k
                     /\ r.runsCompleted = store[j].runsCompleted /\ r.status = "confirming"
<1>1. PICK r : r = [store[j] EXCEPT !.status = "confirming", !.pending = k]
  OBVIOUS
<1>2. Patched(j, r)
  BY <1>1, Zenon DEF Patched, MarkConfirming
<1>3. ASSUME j \in DOMAIN store
      PROVE  /\ r \in Record /\ r.id = store[j].id /\ r.pending = k
             /\ r.runsCompleted = store[j].runsCompleted /\ r.status = "confirming"
  <2>1. store[j] \in Record
    BY <1>3 DEF TypeOK
  <2>. QED
    BY <1>1, <2>1 DEF Record, Status
<1>. QED
  BY <1>2, <1>3

LEMMA PaidPatch ==
  ASSUME TypeOK, NEW s \in Record, MarkPaid(s)
  PROVE  \E r : /\ Patched(s.id, r)
                /\ s.id \in DOMAIN store =>
                     /\ r \in Record /\ r.id = store[s.id].id /\ r.pending = NoOp
                     /\ r.runsCompleted = s.runsCompleted + 1 /\ r.status \in {"completed", "scheduled"}
<1>1. PICK j, n, x, at :
        /\ j = s.id /\ n = s.runsCompleted + 1 /\ x \in {"completed", "scheduled"} /\ at \in Nat
        /\ store' = [store EXCEPT ![j].runsCompleted = n, ![j].pending = NoOp, ![j].status = x,
                                  ![j].nextRunAt = at]
  <2>1. s.id \in Intent /\ s.nextRunAt \in Nat
    BY DEF Record
  <2>2. s.nextRunAt + Interval[s.id] \in Nat
    BY <2>1, AutopilotAssumption
  <2>. DEFINE done == Interval[s.id] = 0 \/ s.runsCompleted + 1 >= MaxRuns[s.id]
  <2>3. (IF done THEN "completed" ELSE "scheduled") \in {"completed", "scheduled"}
    OBVIOUS
  <2>4. (IF done THEN s.nextRunAt ELSE s.nextRunAt + Interval[s.id]) \in Nat
    BY <2>1, <2>2
  <2>5. store' = [store EXCEPT ![s.id].runsCompleted = s.runsCompleted + 1, ![s.id].pending = NoOp,
                     ![s.id].status = IF done THEN "completed" ELSE "scheduled",
                     ![s.id].nextRunAt = IF done THEN s.nextRunAt
                                         ELSE s.nextRunAt + Interval[s.id]]
    BY DEF MarkPaid
  <2>. HIDE DEF done
  <2>. QED
    BY <2>3, <2>4, <2>5, Zenon
<1>2. PICK r : r = [store[j] EXCEPT !.runsCompleted = n, !.pending = NoOp, !.status = x,
                                    !.nextRunAt = at]
  OBVIOUS
<1>3. Patched(j, r)
  BY <1>1, <1>2, Zenon DEF Patched
<1>4. ASSUME j \in DOMAIN store
      PROVE  /\ r \in Record /\ r.id = store[j].id /\ r.pending = NoOp /\ r.runsCompleted = n
             /\ r.status = x
  <2>1. store[j] \in Record
    BY <1>4 DEF TypeOK
  <2>2. n \in Nat
    BY <1>1 DEF Record
  <2>3. r = [id |-> store[j].id, status |-> x, runsCompleted |-> n, nextRunAt |-> at,
             pending |-> NoOp]
    BY <1>2, <2>1, Zenon DEF Record
  <2>4. store[j].id \in Intent
    BY <2>1 DEF Record
  <2>. QED
    BY <1>1, <2>2, <2>3, <2>4 DEF Record, Status
<1>. QED
  BY <1>1, <1>3, <1>4

-----------------------------------------------------------------------------
(* The ticks *)

\* A step of a tick after which it waits for nothing: all but what it writes to
\* the file and holds then.
LEMMA TickRests ==
  ASSUME ExecutorInv, NEW t \in Ticker, NEW y \in TickState, y.pc # "wait",
         tick' = [tick EXCEPT ![t] = y], ChainOK,
         DOMAIN store' \subseteq Intent, store' \in [DOMAIN store' -> Record]
  PROVE  TypeOK' /\ Settling /\ AwaitedOnce' /\ PaidExact'
<1>1. tick' \in [Ticker -> TickState]
  BY DEF ExecutorInv, TypeOK
<1>2. TypeOK'
  BY <1>1 DEF ChainOK, TypeOK
<1>3. Settling /\ AwaitedOnce'
  BY TickLeaves DEF ChainOK
<1>. QED
  BY <1>2, <1>3 DEF ChainOK

LEMMA TickGoesOn ==
  ASSUME ExecutorInv, NEW t \in Ticker, NEW c, NEW d, c \subseteq Record, d \subseteq Record,
         \A s \in c \cup d : Good(s), \A s \in c : s.pending # NoOp,
         Proceed(t, c, d), ChainOK,
         DOMAIN store' \subseteq Intent, store' \in [DOMAIN store' -> Record]
  PROVE  /\ TypeOK' /\ Settling /\ AwaitedOnce' /\ PaidExact' /\ TicksOK'
         /\ tick[t].pc = "wait" => tick[t].op \notin Awaited'
<1>1. PICK y \in TickState : /\ y.pc \in {"idle", "loop"}
                             /\ y.confirming = c /\ y.due = d
                             /\ tick' = [tick EXCEPT ![t] = y]
  BY ProceedTyped
<1>2. y.pc # "wait"
  BY <1>1
<1>3. TypeOK' /\ Settling /\ AwaitedOnce' /\ PaidExact'
  BY <1>1, <1>2, TickRests
<1>4. tick[t].pc = "wait" => tick[t].op \notin Awaited'
  BY <1>1, <1>2, TickLeaves DEF ChainOK
<1>5. \A s \in c \cup d : Good(s)'
  <2>. SUFFICES ASSUME NEW s \in c \cup d
                PROVE  Good(s)'
    OBVIOUS
  <2>1. s \in Record
    OBVIOUS
  <2>2. s.runsCompleted \in Nat
    BY <2>1 DEF Record
  <2>. QED
    BY <1>3, <2>2, GoodStays DEF ExecutorInv
<1>6. TickOK(y)'
  BY <1>1, <1>5 DEF TickOK
<1>7. TicksOK'
  BY <1>1, <1>3, <1>6, TicksWith
<1>. QED
  BY <1>3, <1>4, <1>7

\* What a tick holds, for the lemma above.
LEMMA HeldGood ==
  ASSUME ExecutorInv, NEW t \in Ticker
  PROVE  /\ tick[t] \in TickState
         /\ tick[t].confirming \subseteq Record /\ tick[t].due \subseteq Record
         /\ \A s \in tick[t].confirming \cup tick[t].due : Good(s)
         /\ \A s \in tick[t].confirming : s.pending # NoOp
         /\ tick[t].pc \in {"nonce", "send", "wait"} => tick[t].cur \in Record /\ Good(tick[t].cur)
         /\ tick[t].pc = "wait" =>
              tick[t].op \in DOMAIN ops /\ ops[tick[t].op].intent = tick[t].cur.id
<1>1. tick[t] \in TickState /\ TickOK(tick[t])
  BY DEF ExecutorInv, TypeOK, TicksOK
<1>2. tick[t].confirming \subseteq Record /\ tick[t].due \subseteq Record
  BY <1>1 DEF TickState
<1>. QED
  BY <1>1, <1>2 DEF TickOK

-----------------------------------------------------------------------------
(* The actions of a tick *)

LEMMA StoreTypedNow ==
  ASSUME ExecutorInv, UNCHANGED store
  PROVE  DOMAIN store' \subseteq Intent /\ store' \in [DOMAIN store' -> Record]
BY DEF ExecutorInv, TypeOK

LEMMA StartTickKeeps ==
  ASSUME ExecutorInv, NEW t \in Ticker, StartTick(t)
  PROVE  ExecutorInv'
<1>. PICK c, d : c = ConfirmingIntents /\ d = DueIntents
  OBVIOUS
<1>1. \A s \in c \cup d : s \in Record /\ Good(s)
  <2>. SUFFICES ASSUME NEW i \in DOMAIN store
                PROVE  store[i] \in Record /\ Good(store[i])
    BY DEF ConfirmingIntents, DueIntents
  <2>. QED
    BY DEF ExecutorInv, TypeOK, StoreOK
<1>2. \A s \in c : s.pending # NoOp
  BY DEF ConfirmingIntents
<1>3. Proceed(t, c, d) /\ UNCHANGED store /\ ChainOK
  <2>1. UNCHANGED <<chain, now>> /\ crashes' \in 0..MaxCrashes /\ disturbed' \in BOOLEAN
    BY DEF StartTick, ExecutorInv, TypeOK
  <2>. QED
    BY <2>1, ChainUntouched DEF StartTick
<1>4. c \subseteq Record /\ d \subseteq Record /\ \A s \in c \cup d : Good(s)
  BY <1>1
<1>5. TypeOK' /\ Settling /\ AwaitedOnce' /\ PaidExact' /\ TicksOK'
  BY <1>2, <1>3, <1>4, StoreTypedNow, TickGoesOn
<1>6. StoreOK'
  BY <1>3, <1>5, StoreStays
<1>. QED
  BY <1>5, <1>6 DEF ExecutorInv

\* Going on with less of the lists: all but the file is as it should be.
LEMMA GoesOnWithLess ==
  ASSUME ExecutorInv, NEW t \in Ticker, NEW c, NEW d,
         c \subseteq tick[t].confirming, d \subseteq tick[t].due, Proceed(t, c, d), ChainOK,
         DOMAIN store' \subseteq Intent, store' \in [DOMAIN store' -> Record]
  PROVE  /\ TypeOK' /\ Settling /\ AwaitedOnce' /\ PaidExact' /\ TicksOK'
         /\ tick[t].pc = "wait" => tick[t].op \notin Awaited'
<1>1. /\ c \subseteq Record /\ d \subseteq Record
      /\ \A s \in c \cup d : Good(s)
      /\ \A s \in c : s.pending # NoOp
  BY HeldGood
<1>. QED
  BY <1>1, TickGoesOn

\* Marking an intent failed, or leaving the file alone, and going on.
LEMMA FailAndGoOn ==
  ASSUME ExecutorInv, NEW t \in Ticker, NEW c, NEW d,
         c \subseteq tick[t].confirming, d \subseteq tick[t].due, Proceed(t, c, d),
         ChainOK,
         UNCHANGED store \/ \E j : MarkFailed(j)
  PROVE  ExecutorInv'
<1>1. CASE UNCHANGED store
  <2>1. TypeOK' /\ Settling /\ AwaitedOnce' /\ PaidExact' /\ TicksOK'
    BY <1>1, StoreTypedNow, GoesOnWithLess
  <2>2. StoreOK'
    BY <1>1, <2>1, StoreStays
  <2>. QED
    BY <2>1, <2>2 DEF ExecutorInv
<1>2. ASSUME NEW j, MarkFailed(j)
      PROVE  ExecutorInv'
  <2>1. TypeOK /\ "failed" \in Status
    BY DEF ExecutorInv, Status
  <2>2. PICK r : /\ Patched(j, r)
                 /\ j \in DOMAIN store =>
                      /\ r \in Record /\ r.id = store[j].id /\ r.pending = store[j].pending
                      /\ r.runsCompleted = store[j].runsCompleted
    BY <1>2, <2>1, StatusPatch DEF MarkFailed
  <2>3. DOMAIN store' \subseteq Intent /\ store' \in [DOMAIN store' -> Record]
    BY <2>1, <2>2, PatchTyped
  <2>4. TypeOK' /\ Settling /\ AwaitedOnce' /\ PaidExact' /\ TicksOK'
    BY <2>3, GoesOnWithLess
  <2>5. j \in DOMAIN store => r.id = j /\ Good(r)'
    <3>. SUFFICES ASSUME j \in DOMAIN store
                  PROVE  r.id = j /\ Good(r)'
      OBVIOUS
    <3>1. store[j].id = j /\ Good(store[j])
      BY DEF ExecutorInv, StoreOK
    <3>2. r.id = j /\ Good(r)
      BY <2>2, <3>1 DEF Good
    <3>3. r.runsCompleted \in Nat
      BY <2>2 DEF Record
    <3>. QED
      BY <2>1, <2>4, <3>2, <3>3, GoodStays
  <2>6. StoreOK'
    BY <2>2, <2>4, <2>5, PatchGood
  <2>. QED
    BY <2>4, <2>6 DEF ExecutorInv
<1>. QED
  BY <1>1, <1>2

\* A payment is counted by a record that did not count it.
LEMMA PaidCounts ==
  ASSUME ExecutorInv, TypeOK', Settling, UNCHANGED ops, NEW s \in Record, Good(s),
         NEW k \in DOMAIN ops, ops[k].intent = s.id, ops[k].state = "mined",
         k \notin Awaited', k = s.pending \/ k \in Awaited,
         NEW r, r.id = s.id, r.pending = NoOp, r.runsCompleted = s.runsCompleted + 1
  PROVE  Good(r)'
<1>1. PICK n, i, p : n = s.runsCompleted /\ i = s.id /\ p = s.pending
  OBVIOUS
<1>2. n \in Nat
  BY <1>1 DEF Record
<1>3. PICK S, T : S = MinedOf(i) \ (Awaited \cup {p}) /\ T = MinedOf(i)' \ (Awaited' \cup {NoOp})
  OBVIOUS
<1>4. T \subseteq DOMAIN ops /\ ops \in Seq(Operation)
  BY <1>3 DEF MinedOf, ExecutorInv, TypeOK
<1>5. IsFiniteSet(T) /\ DOMAIN ops \subseteq Nat
  BY <1>4, SomeOfFinite
<1>6. S \subseteq T
  BY <1>3, <1>5, AutopilotAssumption DEF MinedOf, Settling
<1>7. k \in T /\ k \notin S
  BY <1>1, <1>3, <1>5, AutopilotAssumption DEF MinedOf
<1>8. n <= Cardinality(S)
  BY <1>1, <1>3 DEF Good
<1>9. n + 1 <= Cardinality(T)
  BY <1>2, <1>5, <1>6, <1>7, <1>8, OneMoreMined
<1>. QED
  BY <1>1, <1>3, <1>9 DEF Good

\* What a receipt does to the file, and going on: the receipt is of the
\* operation the record is pending on, or of the one the tick waited for.
LEMMA MinedAndGoOn ==
  ASSUME ExecutorInv, NEW t \in Ticker, NEW c, NEW d,
         c \subseteq tick[t].confirming, d \subseteq tick[t].due, Proceed(t, c, d),
         UNCHANGED <<chain, now, crashes, disturbed>>,
         NEW s \in Record, Good(s), NEW k \in DOMAIN ops,
         ops[k].intent = s.id, ops[k].state = "mined", MarkPaid(s),
         (k = s.pending /\ k \notin Awaited) \/ (tick[t].pc = "wait" /\ k = tick[t].op)
  PROVE  ExecutorInv'
<1>0. TypeOK /\ UNCHANGED ops
  BY DEF ExecutorInv, chain
<1>1. PICK r : /\ Patched(s.id, r)
               /\ s.id \in DOMAIN store =>
                    /\ r \in Record /\ r.id = store[s.id].id /\ r.pending = NoOp
                    /\ r.runsCompleted = s.runsCompleted + 1
  BY <1>0, PaidPatch
<1>2. DOMAIN store' \subseteq Intent /\ store' \in [DOMAIN store' -> Record]
  BY <1>0, <1>1, PatchTyped
<1>3. /\ TypeOK' /\ Settling /\ AwaitedOnce' /\ PaidExact' /\ TicksOK'
      /\ tick[t].pc = "wait" => tick[t].op \notin Awaited'
  BY <1>2, AllUntouched, GoesOnWithLess
<1>4. k \notin Awaited' /\ (k = s.pending \/ k \in Awaited)
  BY <1>3 DEF Settling, Awaited
<1>5. s.id \in DOMAIN store => r.id = s.id /\ Good(r)'
  BY <1>0, <1>1, <1>3, <1>4, PaidCounts DEF ExecutorInv, StoreOK
<1>6. StoreOK'
  BY <1>1, <1>3, <1>5, PatchGood
<1>. QED
  BY <1>3, <1>6 DEF ExecutorInv

LEMMA RevertedAndGoOn ==
  ASSUME ExecutorInv, NEW t \in Ticker, NEW c, NEW d,
         c \subseteq tick[t].confirming, d \subseteq tick[t].due, Proceed(t, c, d),
         UNCHANGED <<chain, now, crashes, disturbed>>, NEW j, MarkReverted(j)
  PROVE  ExecutorInv'
<1>0. TypeOK
  BY DEF ExecutorInv
<1>1. PICK r : /\ Patched(j, r)
               /\ j \in DOMAIN store =>
                    /\ r \in Record /\ r.id = store[j].id /\ r.pending = NoOp
                    /\ r.runsCompleted = store[j].runsCompleted
  BY <1>0, RevertedPatch
<1>2. DOMAIN store' \subseteq Intent /\ store' \in [DOMAIN store' -> Record]
  BY <1>0, <1>1, PatchTyped
<1>3. TypeOK' /\ Settling /\ AwaitedOnce' /\ PaidExact' /\ TicksOK'
  BY <1>2, AllUntouched, GoesOnWithLess
<1>4. j \in DOMAIN store => r.id = j /\ Good(r)'
  <2>. SUFFICES ASSUME j \in DOMAIN store
                PROVE  r.id = j /\ Good(r)'
    OBVIOUS
  <2>1. PICK s : s = store[j]
    OBVIOUS
  <2>2. s.id = j /\ Good(s) /\ s \in Record
    BY <2>1 DEF ExecutorInv, StoreOK, TypeOK
  <2>3. s.runsCompleted \in Nat
    BY <2>2 DEF Record
  <2>4. r.id = j /\ r.pending = NoOp /\ r.runsCompleted = s.runsCompleted
    BY <1>1, <2>1, <2>2
  <2>5. MinedOf(j) \ (Awaited \cup {s.pending}) \subseteq MinedOf(j) \ (Awaited \cup {NoOp})
    <3>1. MinedOf(j) \subseteq DOMAIN ops /\ DOMAIN ops \subseteq Nat
      BY SomeOfFinite DEF MinedOf, ExecutorInv, TypeOK
    <3>. QED
      BY <3>1, AutopilotAssumption
  <2>6. IsFiniteSet(MinedOf(j) \ (Awaited \cup {NoOp}))
    BY SomeOfFinite DEF MinedOf, ExecutorInv, TypeOK
  <2>7. s.runsCompleted <= Cardinality(MinedOf(j) \ (Awaited \cup {NoOp}))
    BY <2>2, <2>3, <2>5, <2>6, FewerMined DEF Good
  <2>8. Good(r)
    BY <2>4, <2>7 DEF Good
  <2>. QED
    BY <1>0, <1>3, <2>3, <2>4, <2>8, GoodStays
<1>5. StoreOK'
  BY <1>1, <1>3, <1>4, PatchGood
<1>. QED
  BY <1>3, <1>5 DEF ExecutorInv

LEMMA ConfirmingAndGoOn ==
  ASSUME ExecutorInv, NEW t \in Ticker, NEW c, NEW d,
         c \subseteq tick[t].confirming, d \subseteq tick[t].due, Proceed(t, c, d),
         UNCHANGED <<chain, now, crashes, disturbed>>,
         tick[t].pc = "wait", NEW j, NEW k, k = tick[t].op, j = tick[t].cur.id,
         MarkConfirming(j, k)
  PROVE  ExecutorInv'
<1>0. TypeOK /\ UNCHANGED ops
  BY DEF ExecutorInv, chain
<1>1. k \in DOMAIN ops /\ ops[k].intent = j /\ k \in Awaited
  BY HeldGood DEF Awaited
<1>2. k \in OpId
  <2>1. DOMAIN ops = 1..Len(ops) /\ Len(ops) \in Nat /\ Len(ops) <= MaxOps
    BY <1>0 DEF TypeOK
  <2>. QED
    BY <1>1, <2>1, AutopilotAssumption DEF OpId
<1>3. PICK r : /\ Patched(j, r)
               /\ j \in DOMAIN store =>
                    /\ r \in Record /\ r.id = store[j].id /\ r.pending = k
                    /\ r.runsCompleted = store[j].runsCompleted
  BY <1>0, <1>2, ConfirmingPatch
<1>4. DOMAIN store' \subseteq Intent /\ store' \in [DOMAIN store' -> Record]
  BY <1>0, <1>3, PatchTyped
<1>5. TypeOK' /\ Settling /\ AwaitedOnce' /\ PaidExact' /\ TicksOK' /\ k \notin Awaited'
  BY <1>4, AllUntouched, GoesOnWithLess
<1>6. j \in DOMAIN store => r.id = j /\ Good(r)'
  <2>. SUFFICES ASSUME j \in DOMAIN store
                PROVE  r.id = j /\ Good(r)'
    OBVIOUS
  <2>1. PICK s : s = store[j]
    OBVIOUS
  <2>2. s.id = j /\ Good(s) /\ s \in Record
    BY <2>1 DEF ExecutorInv, StoreOK, TypeOK
  <2>3. s.runsCompleted \in Nat
    BY <2>2 DEF Record
  <2>4. r.id = j /\ r.pending = k /\ r.runsCompleted = s.runsCompleted
    BY <1>3, <2>1, <2>2
  <2>5. MinedOf(j) \ (Awaited \cup {s.pending}) \subseteq MinedOf(j)' \ (Awaited' \cup {k})
    BY <1>0, <1>1, <1>5 DEF MinedOf, Settling
  <2>6. IsFiniteSet(MinedOf(j)' \ (Awaited' \cup {k}))
    <3>1. MinedOf(j)' \ (Awaited' \cup {k}) \subseteq DOMAIN ops
      BY <1>0 DEF MinedOf
    <3>. QED
      BY <1>0, <3>1, SomeOfFinite DEF TypeOK
  <2>7. s.runsCompleted <= Cardinality(MinedOf(j)' \ (Awaited' \cup {k}))
    BY <2>2, <2>3, <2>5, <2>6, FewerMined DEF Good
  <2>. QED
    BY <1>0, <1>1, <1>5, <2>4, <2>7 DEF Good
<1>7. StoreOK'
  BY <1>3, <1>5, <1>6, PatchGood
<1>. QED
  BY <1>5, <1>7 DEF ExecutorInv

LEMMA ReconcileKeeps ==
  ASSUME ExecutorInv, NEW t \in Ticker, Reconcile(t)
  PROVE  ExecutorInv'
<1>1. PICK s \in tick[t].confirming :
        /\ CASE ops[s.pending].indexed /\ ops[s.pending].state = "mined" -> MarkPaid(s)
             [] ops[s.pending].indexed /\ ops[s.pending].state = "reverted" -> MarkReverted(s.id)
             [] OTHER -> UNCHANGED store
        /\ Proceed(t, tick[t].confirming \ {s}, tick[t].due)
  BY DEF Reconcile
<1>2. UNCHANGED <<chain, now, crashes, disturbed>>
  BY DEF Reconcile
<1>3. s \in Record /\ Good(s) /\ s.pending # NoOp
  BY HeldGood
<1>4. PICK k : k = s.pending
  OBVIOUS
<1>5. k \in DOMAIN ops /\ ops[k].intent = s.id /\ k \notin Awaited
  BY <1>3, <1>4 DEF Good
<1>6. PICK c, d : /\ c = tick[t].confirming \ {s} /\ d = tick[t].due /\ Proceed(t, c, d)
                  /\ c \subseteq tick[t].confirming /\ d \subseteq tick[t].due
  BY <1>1
<1>7. CASE ops[k].state = "mined" /\ MarkPaid(s)
  <2>. HIDE DEF Good, Proceed, MarkPaid
  <2>1. (k = s.pending /\ k \notin Awaited) \/ (tick[t].pc = "wait" /\ k = tick[t].op)
    BY <1>4, <1>5
  <2>. QED
    BY <1>2, <1>3, <1>5, <1>6, <1>7, <2>1, MinedAndGoOn
<1>8. CASE MarkReverted(s.id)
  BY <1>2, <1>6, <1>8, RevertedAndGoOn
<1>9. CASE UNCHANGED store
  BY <1>2, <1>6, <1>9, AllUntouched, FailAndGoOn
<1>. QED
  BY <1>1, <1>4, <1>7, <1>8, <1>9

LEMMA AwaitReceiptKeeps ==
  ASSUME ExecutorInv, NEW t \in Ticker, AwaitReceipt(t)
  PROVE  ExecutorInv'
<1>1. PICK s, k : s = tick[t].cur /\ k = tick[t].op
  OBVIOUS
<1>2. /\ tick[t].pc = "wait"
      /\ CASE ops[k].indexed /\ ops[k].state = "mined" -> MarkPaid(s)
           [] ops[k].indexed /\ ops[k].state = "reverted" -> MarkReverted(s.id)
           [] OTHER -> MarkConfirming(s.id, k)
      /\ Proceed(t, {}, tick[t].due)
      /\ UNCHANGED <<chain, now, crashes, disturbed>>
  BY <1>1 DEF AwaitReceipt, MarkConfirming
<1>3. s \in Record /\ Good(s) /\ k \in DOMAIN ops /\ ops[k].intent = s.id
  BY <1>1, <1>2, HeldGood
<1>4. PICK c, d : /\ c = {} /\ d = tick[t].due /\ Proceed(t, c, d)
                  /\ c \subseteq tick[t].confirming /\ d \subseteq tick[t].due
  BY <1>2
<1>5. CASE ops[k].state = "mined" /\ MarkPaid(s)
  BY <1>1, <1>2, <1>3, <1>4, <1>5, MinedAndGoOn
<1>6. CASE MarkReverted(s.id)
  BY <1>2, <1>4, <1>6, RevertedAndGoOn
<1>7. CASE MarkConfirming(s.id, k)
  BY <1>1, <1>2, <1>4, <1>7, ConfirmingAndGoOn
<1>. QED
  BY <1>2, <1>5, <1>6, <1>7

\* A step of a tick that leaves the file alone and the tick not waiting.
LEMMA TickHolds ==
  ASSUME ExecutorInv, NEW t \in Ticker, NEW y \in TickState, y.pc # "wait",
         tick' = [tick EXCEPT ![t] = y], UNCHANGED <<chain, now, crashes, disturbed>>,
         UNCHANGED store, TickOK(y)
  PROVE  ExecutorInv'
<1>1. ChainOK
  BY AllUntouched
<1>2. TypeOK' /\ Settling /\ AwaitedOnce' /\ PaidExact'
  BY <1>1, StoreTypedNow, TickRests
<1>3. TickOK(y)'
  BY <1>2, TickStays DEF ExecutorInv
<1>4. TicksOK' /\ StoreOK'
  BY <1>2, <1>3, TicksWith, StoreStays
<1>. QED
  BY <1>2, <1>4 DEF ExecutorInv

LEMMA BeginRunKeeps ==
  ASSUME ExecutorInv, NEW t \in Ticker, BeginRun(t)
  PROVE  ExecutorInv'
<1>1. PICK s \in tick[t].due : PolicyRefuses(t, s) \/ Pause(t, s) \/ ReadThrows(t, s) \/ StartRun(t, s)
  BY DEF BeginRun
<1>2. UNCHANGED <<chain, now, crashes, disturbed>>
  BY DEF BeginRun
<1>. PICK c, d : c = {} /\ d = tick[t].due \ {s}
  OBVIOUS
<1>3. c \subseteq tick[t].confirming /\ d \subseteq tick[t].due
  OBVIOUS
<1>4. CASE PolicyRefuses(t, s) \/ Pause(t, s) \/ ReadThrows(t, s)
  <2>1. Proceed(t, c, d)
    BY <1>4 DEF PolicyRefuses, Pause, ReadThrows
  <2>2. UNCHANGED store \/ \E j : MarkFailed(j)
    BY <1>4 DEF PolicyRefuses, Pause, ReadThrows
  <2>. QED
    BY <1>2, <1>3, <2>1, <2>2, AllUntouched, FailAndGoOn
<1>5. CASE StartRun(t, s)
  <2>1. PICK x : x = tick[t]
    OBVIOUS
  <2>2. x \in TickState /\ s \in Record /\ Good(s) /\ TickOK(x)
    BY <2>1, HeldGood DEF ExecutorInv, TicksOK
  <2>3. PICK y : y = [x EXCEPT !.pc = "nonce", !.cur = s, !.due = @ \ {s}]
    OBVIOUS
  <2>4. y = [pc |-> "nonce", confirming |-> x.confirming, due |-> x.due \ {s}, cur |-> s,
             nonce |-> x.nonce, op |-> x.op, fallback |-> x.fallback]
    BY <2>2, <2>3, Zenon DEF TickState
  <2>5. y \in TickState /\ y.pc = "nonce" /\ y.cur = s /\ y.confirming = x.confirming
          /\ y.due \subseteq x.due
    BY <2>2, <2>4 DEF TickState
  <2>6. TickOK(y)
    BY <2>2, <2>5 DEF TickOK
  <2>7. tick' = [tick EXCEPT ![t] = y] /\ UNCHANGED store
    BY <1>5, <2>1, <2>3, Zenon DEF StartRun
  <2>. QED
    BY <1>2, <2>5, <2>6, <2>7, TickHolds
<1>. QED
  BY <1>1, <1>4, <1>5

LEMMA ReadNonceKeeps ==
  ASSUME ExecutorInv, NEW t \in Ticker, ReadNonce(t)
  PROVE  ExecutorInv'
<1>1. PICK x, n : x = tick[t] /\ n = nonce[AccountOf[x.cur.id]]
  OBVIOUS
<1>2. x \in TickState /\ TickOK(x) /\ x.pc = "nonce" /\ x.cur \in Record /\ Good(x.cur)
  BY <1>1, HeldGood DEF ReadNonce, ExecutorInv, TicksOK
<1>3. n \in Nat
  <2>1. x.cur.id \in Intent
    BY <1>2 DEF Record
  <2>2. AccountOf[x.cur.id] \in Account
    BY <2>1, AutopilotAssumption
  <2>3. n \in 0..MaxNonce
    BY <1>1, <2>2 DEF ExecutorInv, TypeOK
  <2>. QED
    BY <2>3
<1>4. PICK y : y = [x EXCEPT !.pc = "send", !.nonce = n]
  OBVIOUS
<1>5. y \in TickState /\ y.pc = "send" /\ y.cur = x.cur /\ y.confirming = x.confirming
        /\ y.due = x.due
  BY <1>2, <1>3, <1>4 DEF TickState
<1>6. TickOK(y)
  BY <1>2, <1>5 DEF TickOK
<1>7. tick' = [tick EXCEPT ![t] = y] /\ UNCHANGED store
        /\ UNCHANGED <<chain, now, crashes, disturbed>>
  BY <1>1, <1>4 DEF ReadNonce
<1>. QED
  BY <1>5, <1>6, <1>7, TickHolds

LEMMA SendRefusedKeeps ==
  ASSUME ExecutorInv, NEW t \in Ticker, SendRefused(t)
  PROVE  ExecutorInv'
<1>1. PICK c, d : c = {} /\ d = tick[t].due /\ Proceed(t, c, d)
                    /\ c \subseteq tick[t].confirming /\ d \subseteq tick[t].due
  BY DEF SendRefused
<1>2. (\E j : MarkFailed(j)) /\ UNCHANGED <<chain, now, crashes, disturbed>>
  BY DEF SendRefused
<1>. QED
  BY <1>1, <1>2, AllUntouched, FailAndGoOn

LEMMA SendBannedKeeps ==
  ASSUME ExecutorInv, NEW t \in Ticker, SendBanned(t)
  PROVE  ExecutorInv'
<1>1. UNCHANGED store /\ UNCHANGED <<chain, now, crashes, disturbed>> /\ tick[t].pc = "send"
  BY DEF SendBanned
<1>2. CASE Proceed(t, {}, tick[t].due)
  <2>1. PICK c, d : c = {} /\ d = tick[t].due /\ Proceed(t, c, d)
                      /\ c \subseteq tick[t].confirming /\ d \subseteq tick[t].due
    BY <1>2
  <2>. QED
    BY <1>1, <2>1, AllUntouched, FailAndGoOn
<1>3. CASE tick' = [tick EXCEPT ![t].pc = "nonce", ![t].nonce = 0, ![t].fallback = TRUE]
  <2>1. PICK x : x = tick[t]
    OBVIOUS
  <2>2. x \in TickState /\ TickOK(x) /\ x.cur \in Record /\ Good(x.cur)
    BY <1>1, <2>1, HeldGood DEF ExecutorInv, TicksOK
  <2>3. PICK y : y = [x EXCEPT !.pc = "nonce", !.nonce = 0, !.fallback = TRUE]
    OBVIOUS
  <2>4. y = [pc |-> "nonce", confirming |-> x.confirming, due |-> x.due, cur |-> x.cur,
             nonce |-> 0, op |-> x.op, fallback |-> TRUE]
    BY <2>2, <2>3, Zenon DEF TickState
  <2>5. y \in TickState /\ y.pc = "nonce" /\ y.cur = x.cur /\ y.confirming = x.confirming
          /\ y.due = x.due
    BY <2>2, <2>4 DEF TickState
  <2>6. TickOK(y)
    BY <2>2, <2>5 DEF TickOK
  <2>7. tick' = [tick EXCEPT ![t] = y]
    BY <1>3, <2>1, <2>3, Zenon
  <2>. QED
    BY <1>1, <2>5, <2>6, <2>7, TickHolds
<1>. QED
  BY <1>2, <1>3 DEF SendBanned

\* An operation that is accepted is new and unpaid; none is lost by it.
LEMMA AcceptedGrows ==
  ASSUME ExecutorInv, NEW t \in Ticker, SendAccepted(t)
  PROVE  /\ ChainOK
         /\ Len(ops) + 1 \in DOMAIN ops' /\ Len(ops) + 1 \notin DOMAIN ops
         /\ Len(ops) + 1 \in OpId
         /\ ops'[Len(ops) + 1].intent = tick[t].cur.id
         /\ \A k \in DOMAIN ops' : k # Len(ops) + 1 =>
              /\ k \in DOMAIN ops /\ ops'[k].intent = ops[k].intent
              /\ ops'[k].state \in {ops[k].state, "dropped"}
<1>1. PICK i, n : i = tick[t].cur.id /\ n = tick[t].nonce
  OBVIOUS
<1>2. i \in Intent /\ n \in Nat
  <2>1. tick[t].cur \in Record /\ tick[t] \in TickState
    BY HeldGood DEF SendAccepted
  <2>. QED
    BY <1>1, <2>1 DEF Record, TickState
<1>3. ops \in Seq(Operation) /\ Len(ops) \in Nat /\ DOMAIN ops = 1..Len(ops) /\ Len(ops) < MaxOps
  BY DEF ExecutorInv, TypeOK, SendAccepted
<1>4. PICK q : q = [k \in DOMAIN ops |->
                      IF ops[k].state = "pooled" /\ ops[k].nonce = n
                           /\ AccountOf[ops[k].intent] = AccountOf[i]
                      THEN [ops[k] EXCEPT !.state = "dropped"] ELSE ops[k]]
  OBVIOUS
<1>5. PICK o : o = [intent |-> i, nonce |-> n, state |-> "pooled", indexed |-> FALSE]
  OBVIOUS
<1>6. ops' = Append(q, o)
  BY <1>1, <1>4, <1>5 DEF SendAccepted, Pooled
<1>7. \A k \in DOMAIN ops :
        /\ q[k] \in Operation /\ q[k].intent = ops[k].intent
        /\ q[k].state = "mined" <=> ops[k].state = "mined"
        /\ q[k].state \in {ops[k].state, "dropped"}
  <2>. SUFFICES ASSUME NEW k \in DOMAIN ops
                PROVE  /\ q[k] \in Operation /\ q[k].intent = ops[k].intent
                       /\ q[k].state = "mined" <=> ops[k].state = "mined"
                       /\ q[k].state \in {ops[k].state, "dropped"}
    OBVIOUS
  <2>1. ops[k] \in Operation
    BY <1>3
  <2>2. \/ q[k] = ops[k]
        \/ ops[k].state = "pooled" /\ q[k] = [ops[k] EXCEPT !.state = "dropped"]
    BY <1>4
  <2>3. CASE q[k] = ops[k]
    BY <2>1, <2>3
  <2>4. CASE ops[k].state = "pooled" /\ q[k] = [ops[k] EXCEPT !.state = "dropped"]
    <3>1. q[k].state = "dropped" /\ q[k].intent = ops[k].intent
      BY <2>1, <2>4 DEF Operation, Receipt
    <3>2. q[k] \in Operation
      BY <2>1, <2>4 DEF Operation, Receipt
    <3>. QED
      BY <2>4, <3>1, <3>2
  <2>. QED
    BY <2>2, <2>3, <2>4
<1>8. q \in Seq(Operation) /\ Len(q) = Len(ops)
  BY <1>3, <1>4, <1>7
<1>9. o \in Operation /\ o.state = "pooled" /\ o.intent = i
  BY <1>2, <1>5 DEF Operation, Receipt
<1>10. /\ ops' \in Seq(Operation) /\ Len(ops') = Len(ops) + 1
       /\ DOMAIN ops' = DOMAIN ops \cup {Len(ops) + 1} /\ Len(ops) + 1 \notin DOMAIN ops
       /\ \A k \in DOMAIN ops : ops'[k] = q[k]
       /\ ops'[Len(ops) + 1] = o
  <2>1. /\ ops' \in Seq(Operation) /\ Len(ops') = Len(ops) + 1
        /\ \A k \in 1..Len(ops) : ops'[k] = q[k]
        /\ ops'[Len(ops) + 1] = o
    BY <1>3, <1>6, <1>8, <1>9
  <2>2. DOMAIN ops' = 1..(Len(ops) + 1)
    BY <2>1
  <2>3. 1..(Len(ops) + 1) = 1..Len(ops) \cup {Len(ops) + 1}
    BY <1>3
  <2>4. Len(ops) + 1 \notin 1..Len(ops)
    BY <1>3
  <2>. QED
    BY <1>3, <2>1, <2>2, <2>3, <2>4
<1>11. Growing
  BY <1>7, <1>10 DEF Growing
<1>12. \A x \in Intent : MinedOf(x)' = MinedOf(x)
  BY <1>7, <1>9, <1>10 DEF MinedOf
<1>13. PaidExact'
  BY <1>12 DEF SendAccepted, ExecutorInv, PaidExact
<1>14. Len(ops') <= MaxOps /\ Len(ops) + 1 \in OpId
  BY <1>3, <1>10, AutopilotAssumption DEF OpId
<1>15. ChainOK
  BY <1>10, <1>11, <1>13, <1>14 DEF ChainOK, SendAccepted, ExecutorInv, TypeOK
<1>16. \A k \in DOMAIN ops' : k # Len(ops) + 1 =>
         /\ k \in DOMAIN ops /\ ops'[k].intent = ops[k].intent
         /\ ops'[k].state \in {ops[k].state, "dropped"}
  BY <1>7, <1>10
<1>. QED
  BY <1>1, <1>9, <1>10, <1>14, <1>15, <1>16

LEMMA SendReplyLostKeeps ==
  ASSUME ExecutorInv, NEW t \in Ticker, SendReplyLost(t)
  PROVE  ExecutorInv'
<1>. PICK c, d : c = {} /\ d = tick[t].due
  OBVIOUS
<1>1. /\ Proceed(t, c, d) /\ \E j : MarkFailed(j)
      /\ c \subseteq tick[t].confirming /\ d \subseteq tick[t].due
  BY DEF SendReplyLost
<1>2. ChainOK
  BY AcceptedGrows DEF SendReplyLost
<1>. QED
  BY <1>1, <1>2, FailAndGoOn

LEMMA SendKeeps ==
  ASSUME ExecutorInv, NEW t \in Ticker, Send(t)
  PROVE  ExecutorInv'
<1>1. PICK x, k : x = tick[t] /\ k = Len(ops) + 1
  OBVIOUS
<1>2. /\ ChainOK /\ k \in DOMAIN ops' /\ k \notin DOMAIN ops /\ k \in OpId
      /\ ops'[k].intent = x.cur.id
  BY <1>1, AcceptedGrows DEF Send
<1>3. x \in TickState /\ TickOK(x) /\ x.cur \in Record /\ Good(x.cur) /\ x.pc = "send"
  BY <1>1, HeldGood DEF Send, SendAccepted, ExecutorInv, TicksOK
<1>4. PICK y : y = [x EXCEPT !.pc = "wait", !.op = k, !.nonce = 0, !.fallback = FALSE]
  OBVIOUS
<1>5. tick' = [tick EXCEPT ![t] = y] /\ UNCHANGED store
  BY <1>1, <1>4, Zenon DEF Send
<1>6. y = [pc |-> "wait", confirming |-> x.confirming, due |-> x.due, cur |-> x.cur, nonce |-> 0,
           op |-> k, fallback |-> FALSE]
  BY <1>3, <1>4, Zenon DEF TickState
<1>7. y \in TickState /\ y.pc = "wait" /\ y.op = k /\ y.cur = x.cur
        /\ y.confirming = x.confirming /\ y.due = x.due
  BY <1>2, <1>3, <1>6 DEF TickState
<1>8. TypeOK'
  <2>1. tick' \in [Ticker -> TickState]
    BY <1>5, <1>7 DEF ExecutorInv, TypeOK
  <2>. QED
    BY <1>2, <1>5, <2>1, StoreTypedNow DEF ChainOK, TypeOK
<1>9. tick'[t] = y /\ \A u \in Ticker : u # t => tick'[u] = tick[u]
  BY <1>5 DEF ExecutorInv, TypeOK
<1>10. \A u \in Ticker : tick[u].pc = "wait" => tick[u].op \in DOMAIN ops
  BY HeldGood
<1>11. AwaitedOnce'
  <2>. SUFFICES ASSUME NEW u \in Ticker, NEW v \in Ticker, tick'[u].pc = "wait",
                       tick'[v].pc = "wait", tick'[u].op = tick'[v].op
                PROVE  u = v
    BY DEF AwaitedOnce
  <2>1. CASE u = t /\ v # t
    BY <1>2, <1>7, <1>9, <1>10, <2>1
  <2>2. CASE v = t /\ u # t
    BY <1>2, <1>7, <1>9, <1>10, <2>2
  <2>3. CASE u # t /\ v # t
    BY <1>9, <2>3 DEF ExecutorInv, AwaitedOnce
  <2>. QED
    BY <2>1, <2>2, <2>3
<1>12. Settling
  <2>1. Awaited' \subseteq Awaited \cup {k}
    BY <1>7, <1>9 DEF Awaited
  <2>. QED
    BY <1>2, <2>1 DEF Settling, ChainOK
<1>13. TickOK(y)'
  <2>1. TickOK(x)'
    BY <1>3, <1>8, <1>12, TickStays DEF ExecutorInv
  <2>2. (\A s \in y.confirming \cup y.due : Good(s))' /\ \A s \in y.confirming : s.pending # NoOp
    BY <1>7, <2>1 DEF TickOK
  <2>3. y.cur \in Record /\ Good(y.cur)'
    BY <1>3, <1>7, <2>1 DEF TickOK
  <2>. QED
    BY <1>2, <1>7, <2>2, <2>3 DEF TickOK
<1>14. TicksOK' /\ StoreOK'
  BY <1>5, <1>8, <1>12, <1>13, TicksWith, StoreStays
<1>. QED
  BY <1>2, <1>8, <1>11, <1>14 DEF ExecutorInv, ChainOK

-----------------------------------------------------------------------------
(* The other actions *)

\* Steps that no tick takes.
LEMMA OutsideKeeps ==
  ASSUME ExecutorInv, ChainOK, UNCHANGED tick,
         DOMAIN store' \subseteq Intent, store' \in [DOMAIN store' -> Record]
  PROVE  TypeOK' /\ Settling /\ TicksOK' /\ AwaitedOnce' /\ PaidExact'
<1>1. TypeOK'
  BY DEF ChainOK, ExecutorInv, TypeOK
<1>2. Settling
  BY DEF ChainOK, Settling, Awaited
<1>3. TicksOK'
  BY <1>1, <1>2, TicksStay
<1>4. AwaitedOnce' /\ PaidExact'
  BY DEF ChainOK, ExecutorInv, AwaitedOnce
<1>. QED
  BY <1>1, <1>2, <1>3, <1>4

LEMMA ServiceUntouched ==
  ASSUME ExecutorInv, ChainOK, UNCHANGED service
  PROVE  ExecutorInv'
<1>1. UNCHANGED store /\ UNCHANGED tick
  BY DEF service
<1>2. TypeOK' /\ Settling /\ TicksOK' /\ AwaitedOnce' /\ PaidExact'
  BY <1>1, StoreTypedNow, OutsideKeeps
<1>3. StoreOK'
  BY <1>1, <1>2, StoreStays
<1>. QED
  BY <1>2, <1>3 DEF ExecutorInv

LEMMA AddIntentKeeps ==
  ASSUME ExecutorInv, NEW i \in Intent, NEW at \in StartAt, AddIntent(i, at)
  PROVE  ExecutorInv'
<1>1. PICK r : r = [id |-> i, status |-> "scheduled", runsCompleted |-> 0, nextRunAt |-> at,
                    pending |-> NoOp]
  OBVIOUS
<1>2. /\ i \notin DOMAIN store
      /\ DOMAIN store' = DOMAIN store \cup {i}
      /\ store' = [j \in DOMAIN store' |-> IF j = i THEN r ELSE store[j]]
  BY <1>1 DEF AddIntent
<1>3. r \in Record /\ r.id = i /\ r.runsCompleted = 0 /\ r.pending = NoOp
  BY <1>1, AutopilotAssumption DEF Record, Status
<1>4. DOMAIN store' \subseteq Intent /\ store' \in [DOMAIN store' -> Record]
  BY <1>2, <1>3 DEF ExecutorInv, TypeOK
<1>5. ChainOK /\ UNCHANGED tick
  <2>1. UNCHANGED <<chain, now, crashes, disturbed>> /\ UNCHANGED tick
    BY DEF AddIntent
  <2>. QED
    BY <2>1, AllUntouched
<1>6. TypeOK' /\ Settling /\ TicksOK' /\ AwaitedOnce' /\ PaidExact'
  BY <1>4, <1>5, OutsideKeeps
<1>7. Good(r)'
  <2>1. MinedOf(i)' \ (Awaited' \cup {NoOp}) \subseteq DOMAIN ops' /\ ops' \in Seq(Operation)
    BY <1>6 DEF MinedOf, TypeOK
  <2>2. Cardinality(MinedOf(i)' \ (Awaited' \cup {NoOp})) \in Nat
    BY <2>1, SomeOfFinite
  <2>3. 0 <= Cardinality(MinedOf(i)' \ (Awaited' \cup {NoOp}))
    BY <2>2
  <2>. QED
    BY <1>3, <2>3 DEF Good
<1>8. StoreOK'
  <2>. SUFFICES ASSUME NEW j \in DOMAIN store'
                PROVE  store'[j].id = j /\ Good(store[j])'
    BY DEF StoreOK
  <2>1. CASE j = i
    BY <1>2, <1>3, <1>7, <2>1 DEF Good
  <2>2. CASE j # i
    <3>1. PICK s : s = store[j]
      OBVIOUS
    <3>2. j \in DOMAIN store /\ store'[j] = s
      BY <1>2, <2>2, <3>1
    <3>3. s.id = j /\ Good(s) /\ s \in Record
      BY <3>1, <3>2 DEF ExecutorInv, StoreOK, TypeOK
    <3>4. s.runsCompleted \in Nat
      BY <3>3 DEF Record
    <3>5. Good(s)'
      BY <1>6, <3>3, <3>4, GoodStays DEF ExecutorInv
    <3>. QED
      BY <3>2, <3>3, <3>5 DEF Good
  <2>. QED
    BY <2>1, <2>2
<1>. QED
  BY <1>6, <1>8 DEF ExecutorInv

LEMMA CancelIntentKeeps ==
  ASSUME ExecutorInv, NEW i \in Intent, CancelIntent(i)
  PROVE  ExecutorInv'
<1>1. TypeOK /\ "cancelled" \in Status /\ i \in DOMAIN store
  BY DEF ExecutorInv, Status, CancelIntent
<1>2. PICK r : /\ Patched(i, r)
               /\ i \in DOMAIN store =>
                    /\ r \in Record /\ r.id = store[i].id /\ r.pending = store[i].pending
                    /\ r.runsCompleted = store[i].runsCompleted
  BY <1>1, StatusPatch DEF CancelIntent
<1>3. DOMAIN store' \subseteq Intent /\ store' \in [DOMAIN store' -> Record]
  BY <1>1, <1>2, PatchTyped
<1>4. ChainOK /\ UNCHANGED tick
  <2>1. UNCHANGED <<chain, now, crashes, disturbed>> /\ UNCHANGED tick
    BY DEF CancelIntent
  <2>. QED
    BY <2>1, AllUntouched
<1>5. TypeOK' /\ Settling /\ TicksOK' /\ AwaitedOnce' /\ PaidExact'
  BY <1>3, <1>4, OutsideKeeps
<1>6. r.id = i /\ Good(r)'
  <2>1. store[i].id = i /\ Good(store[i])
    BY <1>1 DEF ExecutorInv, StoreOK
  <2>2. r.id = i /\ Good(r) /\ r.runsCompleted \in Nat
    BY <1>1, <1>2, <2>1 DEF Good, Record
  <2>. QED
    BY <1>1, <1>5, <2>2, GoodStays
<1>7. StoreOK'
  BY <1>2, <1>5, <1>6, PatchGood
<1>. QED
  BY <1>5, <1>7 DEF ExecutorInv

\* A crash forgets what was awaited: it is never counted then.
LEMMA CrashKeeps ==
  ASSUME ExecutorInv, Crash
  PROVE  ExecutorInv'
<1>1. /\ UNCHANGED store /\ UNCHANGED <<chain, now>> /\ tick' = [u \in Ticker |-> Idle]
      /\ crashes' = crashes + 1 /\ crashes < MaxCrashes /\ disturbed' = TRUE
  BY DEF Crash
<1>2. ChainOK
  <2>1. crashes' \in 0..MaxCrashes
    BY <1>1, AutopilotAssumption DEF ExecutorInv, TypeOK
  <2>. QED
    BY <1>1, <2>1, ChainUntouched
<1>3. Idle \in TickState /\ Idle.pc = "idle" /\ Idle.confirming = {} /\ Idle.due = {}
  BY DEF Idle, TickState
<1>4. tick' \in [Ticker -> TickState] /\ \A u \in Ticker : tick'[u] = Idle
  BY <1>1, <1>3
<1>5. TypeOK'
  BY <1>2, <1>4, <1>1, StoreTypedNow DEF ChainOK, TypeOK
<1>6. Awaited' = {} /\ AwaitedOnce'
  BY <1>3, <1>4 DEF Awaited, AwaitedOnce
<1>7. Settling
  BY <1>2, <1>6 DEF Settling, ChainOK
<1>8. TicksOK'
  BY <1>3, <1>4 DEF TicksOK, TickOK
<1>9. StoreOK'
  BY <1>1, <1>5, <1>7, StoreStays
<1>. QED
  BY <1>2, <1>5, <1>6, <1>8, <1>9 DEF ExecutorInv, ChainOK

-----------------------------------------------------------------------------
(* The chain *)

\* An operation that is not mined yet changes its state.
LEMMA OperationSettles ==
  ASSUME TypeOK, NEW k \in DOMAIN ops, NEW o \in Operation,
         ops[k].state # "mined", o.intent = ops[k].intent, ops' = [ops EXCEPT ![k] = o]
  PROVE  /\ ops' \in Seq(Operation) /\ Len(ops') <= MaxOps
         /\ Growing
         /\ o.state # "mined" => \A i \in Intent : MinedOf(i)' = MinedOf(i)
         /\ o.state = "mined" =>
              \A i \in Intent : MinedOf(i)' = IF i = o.intent THEN MinedOf(i) \cup {k}
                                                              ELSE MinedOf(i)
<1>1. ops \in Seq(Operation) /\ Len(ops) <= MaxOps
  BY DEF TypeOK
<1>2. ops' \in Seq(Operation) /\ Len(ops') = Len(ops) /\ DOMAIN ops' = DOMAIN ops
  BY <1>1
<1>3. ops'[k] = o /\ \A m \in DOMAIN ops : m # k => ops'[m] = ops[m]
  BY <1>1
<1>4. Growing
  BY <1>2, <1>3 DEF Growing
<1>5. o.state # "mined" => \A i \in Intent : MinedOf(i)' = MinedOf(i)
  BY <1>2, <1>3 DEF MinedOf
<1>6. o.state = "mined" =>
        \A i \in Intent : MinedOf(i)' = IF i = o.intent THEN MinedOf(i) \cup {k} ELSE MinedOf(i)
  BY <1>2, <1>3 DEF MinedOf
<1>. QED
  BY <1>1, <1>2, <1>4, <1>5, <1>6

LEMMA MineKeeps ==
  ASSUME ExecutorInv, NEW k \in DOMAIN ops, Mine(k)
  PROVE  ExecutorInv'
<1>1. PICK i : i = ops[k].intent
  OBVIOUS
<1>2. ops[k] \in Operation /\ i \in Intent /\ ops \in Seq(Operation)
  <2>1. ops[k] \in Operation /\ ops \in Seq(Operation)
    BY DEF ExecutorInv, TypeOK
  <2>. QED
    BY <1>1, <2>1 DEF Operation
<1>3. AccountOf[i] \in Account
  BY <1>2, AutopilotAssumption
<1>4. /\ ops[k].state = "pooled"
      /\ nonce[AccountOf[i]] < MaxNonce
      /\ nonce' = [nonce EXCEPT ![AccountOf[i]] = @ + 1]
      /\ \/ ops' = [ops EXCEPT ![k].state = "mined"] /\ paid' = [paid EXCEPT ![i] = @ + 1]
         \/ ops' = [ops EXCEPT ![k].state = "reverted"] /\ UNCHANGED paid
      /\ UNCHANGED <<service, policyUsable, now, crashes, disturbed>>
  BY <1>1 DEF Mine
<1>5. nonce' \in [Account -> 0..MaxNonce]
  <2>1. MaxNonce \in Nat /\ nonce \in [Account -> 0..MaxNonce]
    BY AutopilotAssumption DEF ExecutorInv, TypeOK
  <2>2. nonce[AccountOf[i]] + 1 \in 0..MaxNonce
    BY <1>3, <1>4, <2>1
  <2>. QED
    BY <1>4, <2>1, <2>2
<1>6. TypeOK /\ PaidExact /\ paid \in [Intent -> Nat]
  BY DEF ExecutorInv, TypeOK
<1>7. CASE ops' = [ops EXCEPT ![k].state = "mined"] /\ paid' = [paid EXCEPT ![i] = @ + 1]
  <2>1. PICK o : o = [ops[k] EXCEPT !.state = "mined"]
    OBVIOUS
  <2>2. o \in Operation /\ o.intent = i /\ o.state = "mined"
    BY <1>1, <1>2, <2>1 DEF Operation, Receipt
  <2>3. ops' = [ops EXCEPT ![k] = o]
    BY <1>7, <2>1
  <2>4. /\ ops' \in Seq(Operation) /\ Len(ops') <= MaxOps /\ Growing
        /\ \A j \in Intent : MinedOf(j)' = IF j = i THEN MinedOf(j) \cup {k} ELSE MinedOf(j)
    <3>1. TypeOK /\ ops[k].state # "mined" /\ o.intent = ops[k].intent
      BY <1>1, <1>4, <1>6, <2>2
    <3>2. /\ ops' \in Seq(Operation) /\ Len(ops') <= MaxOps /\ Growing
          /\ \A j \in Intent :
               MinedOf(j)' = IF j = o.intent THEN MinedOf(j) \cup {k} ELSE MinedOf(j)
      BY <2>2, <2>3, <3>1, OperationSettles
    <3>. QED
      BY <2>2, <3>2
  <2>5. paid' \in [Intent -> Nat]
    BY <1>2, <1>6, <1>7
  <2>6. PaidExact'
    <3>. SUFFICES ASSUME NEW j \in Intent
                  PROVE  paid'[j] = Cardinality(MinedOf(j)')
      BY DEF PaidExact
    <3>1. MinedOf(j) \subseteq DOMAIN ops /\ (j = i => k \notin MinedOf(j))
      BY <1>4 DEF MinedOf
    <3>2. IsFiniteSet(MinedOf(j)) /\ Cardinality(MinedOf(j)) \in Nat
      BY <1>2, <3>1, SomeOfFinite
    <3>3. Cardinality(MinedOf(j) \cup {k}) =
            IF k \in MinedOf(j) THEN Cardinality(MinedOf(j)) ELSE Cardinality(MinedOf(j)) + 1
      BY <3>2, FS_AddElement
    <3>4. paid[j] = Cardinality(MinedOf(j))
      BY <1>6 DEF PaidExact
    <3>5. CASE j = i
      <4>1. paid'[j] = paid[j] + 1
        BY <1>6, <1>7, <3>5
      <4>. QED
        BY <2>4, <3>1, <3>3, <3>4, <3>5, <4>1
    <3>6. CASE j # i
      <4>1. paid'[j] = paid[j]
        BY <1>6, <1>7, <3>6
      <4>. QED
        BY <2>4, <3>4, <3>6, <4>1
    <3>. QED
      BY <3>5, <3>6
  <2>7. ChainOK
    BY <1>4, <1>5, <1>6, <2>4, <2>5, <2>6 DEF ChainOK, TypeOK
  <2>. QED
    BY <1>4, <2>7, ServiceUntouched
<1>8. CASE ops' = [ops EXCEPT ![k].state = "reverted"] /\ UNCHANGED paid
  <2>1. PICK o : o = [ops[k] EXCEPT !.state = "reverted"]
    OBVIOUS
  <2>2. o \in Operation /\ o.intent = i /\ o.state # "mined"
    BY <1>1, <1>2, <2>1 DEF Operation, Receipt
  <2>3. ops' = [ops EXCEPT ![k] = o]
    BY <1>8, <2>1
  <2>4. /\ ops' \in Seq(Operation) /\ Len(ops') <= MaxOps /\ Growing
        /\ \A j \in Intent : MinedOf(j)' = MinedOf(j)
    BY <1>1, <1>4, <1>6, <2>2, <2>3, OperationSettles
  <2>5. ChainOK
    BY <1>4, <1>5, <1>6, <1>8, <2>4 DEF ChainOK, TypeOK, PaidExact
  <2>. QED
    BY <1>4, <2>5, ServiceUntouched
<1>. QED
  BY <1>4, <1>7, <1>8

LEMMA DropKeeps ==
  ASSUME ExecutorInv, NEW k \in DOMAIN ops, Drop(k)
  PROVE  ExecutorInv'
<1>1. TypeOK /\ PaidExact /\ ops[k] \in Operation /\ ops[k].state = "pooled"
  BY DEF ExecutorInv, TypeOK, Drop
<1>2. PICK o : o = [ops[k] EXCEPT !.state = "dropped"]
  OBVIOUS
<1>3. o \in Operation /\ o.intent = ops[k].intent /\ o.state # "mined"
  BY <1>1, <1>2 DEF Operation, Receipt
<1>4. ops' = [ops EXCEPT ![k] = o] /\ UNCHANGED <<service, policyUsable, nonce, paid, now, crashes, disturbed>>
  BY <1>2 DEF Drop
<1>5. /\ ops' \in Seq(Operation) /\ Len(ops') <= MaxOps /\ Growing
      /\ \A j \in Intent : MinedOf(j)' = MinedOf(j)
  BY <1>1, <1>3, <1>4, OperationSettles
<1>6. ChainOK
  BY <1>1, <1>4, <1>5 DEF ChainOK, TypeOK, PaidExact
<1>. QED
  BY <1>4, <1>6, ServiceUntouched

LEMMA IndexKeeps ==
  ASSUME ExecutorInv, NEW k \in DOMAIN ops, Index(k)
  PROVE  ExecutorInv'
<1>1. TypeOK /\ PaidExact /\ ops \in Seq(Operation) /\ Len(ops) <= MaxOps
  BY DEF ExecutorInv, TypeOK
<1>2. PICK o : o = [ops[k] EXCEPT !.indexed = TRUE]
  OBVIOUS
<1>3. o \in Operation /\ o.intent = ops[k].intent /\ o.state = ops[k].state
  <2>1. ops[k] \in Operation
    BY <1>1
  <2>. QED
    BY <1>2, <2>1 DEF Operation
<1>4. ops' = [ops EXCEPT ![k] = o] /\ UNCHANGED <<service, policyUsable, nonce, paid, now, crashes, disturbed>>
  BY <1>2 DEF Index
<1>5. ops' \in Seq(Operation) /\ Len(ops') = Len(ops) /\ DOMAIN ops' = DOMAIN ops
  BY <1>1, <1>3, <1>4
<1>6. \A m \in DOMAIN ops : ops'[m].intent = ops[m].intent /\ ops'[m].state = ops[m].state
  BY <1>1, <1>3, <1>4
<1>7. Growing /\ \A i \in Intent : MinedOf(i)' = MinedOf(i)
  BY <1>5, <1>6 DEF Growing, MinedOf
<1>8. ChainOK
  BY <1>1, <1>4, <1>5, <1>7 DEF ChainOK, TypeOK, PaidExact
<1>. QED
  BY <1>4, <1>8, ServiceUntouched

\* Steps that leave operations and payments alone.
LEMMA OperationsUntouched ==
  ASSUME ExecutorInv, UNCHANGED <<service, ops, paid, crashes, disturbed>>,
         policyUsable' \in [Intent -> BOOLEAN], nonce' \in [Account -> 0..MaxNonce], now' \in Time
  PROVE  ExecutorInv'
<1>1. UNCHANGED service /\ ops' = ops /\ paid' = paid /\ crashes' = crashes
        /\ disturbed' = disturbed
  OBVIOUS
<1>2. Growing /\ PaidExact'
  BY <1>1 DEF Growing, ExecutorInv, PaidExact, MinedOf
<1>3. ChainOK
  BY <1>1, <1>2 DEF ChainOK, ExecutorInv, TypeOK
<1>. QED
  BY <1>1, <1>3, ServiceUntouched

LEMMA OwnerOperationKeeps ==
  ASSUME ExecutorInv, NEW a \in Account, OwnerOperation(a)
  PROVE  ExecutorInv'
<1>1. MaxNonce \in Nat /\ TypeOK
  BY AutopilotAssumption DEF ExecutorInv
<1>2. nonce' \in [Account -> 0..MaxNonce]
  BY <1>1 DEF OwnerOperation, TypeOK
<1>. QED
  BY <1>1, <1>2, OperationsUntouched DEF OwnerOperation, TypeOK

LEMMA LosePolicyKeeps ==
  ASSUME ExecutorInv, NEW i \in Intent, LosePolicy(i)
  PROVE  ExecutorInv'
<1>1. TypeOK /\ policyUsable' \in [Intent -> BOOLEAN]
  BY DEF ExecutorInv, TypeOK, LosePolicy
<1>. QED
  BY <1>1, OperationsUntouched DEF LosePolicy, TypeOK

LEMMA PassTimeKeeps ==
  ASSUME ExecutorInv, PassTime
  PROVE  ExecutorInv'
<1>1. MaxTime \in Nat /\ TypeOK
  BY AutopilotAssumption DEF ExecutorInv
<1>2. now' \in Time /\ UNCHANGED <<service, policyUsable, ops, nonce, paid, crashes, disturbed>>
  BY <1>1 DEF PassTime, TypeOK, Time, chain
<1>. QED
  BY <1>1, <1>2, OperationsUntouched DEF TypeOK

-----------------------------------------------------------------------------
(* The theorems *)

LEMMA InitiallyGood == Init => ExecutorInv
<1>. SUFFICES ASSUME Init PROVE ExecutorInv
  OBVIOUS
<1>1. /\ store = << >> /\ tick = [t \in Ticker |-> Idle]
      /\ policyUsable = [i \in Intent |-> TRUE] /\ ops = << >>
      /\ nonce = [a \in Account |-> 0] /\ now = 0 /\ crashes = 0
      /\ paid = [i \in Intent |-> 0] /\ disturbed = FALSE
  BY DEF Init
<1>2. MaxTime \in Nat /\ MaxOps \in Nat /\ MaxNonce \in Nat /\ MaxCrashes \in Nat
  BY AutopilotAssumption
<1>3. DOMAIN store = {} /\ DOMAIN ops = {} /\ ops \in Seq(Operation) /\ Len(ops) = 0
  BY <1>1
<1>4. Idle \in TickState /\ Idle.pc = "idle" /\ Idle.confirming = {} /\ Idle.due = {}
  BY DEF Idle, TickState
<1>5. \A t \in Ticker : tick[t] = Idle
  BY <1>1
<1>6. TypeOK
  <2>1. DOMAIN store \subseteq Intent /\ store \in [DOMAIN store -> Record]
    BY <1>1, <1>3
  <2>2. tick \in [Ticker -> TickState]
    BY <1>1, <1>4
  <2>3. policyUsable \in [Intent -> BOOLEAN] /\ nonce \in [Account -> 0..MaxNonce]
          /\ paid \in [Intent -> Nat]
    BY <1>1, <1>2
  <2>4. ops \in Seq(Operation) /\ Len(ops) <= MaxOps
    BY <1>2, <1>3
  <2>5. now \in Time /\ crashes \in 0..MaxCrashes
    BY <1>1, <1>2 DEF Time
  <2>6. disturbed \in BOOLEAN
    BY <1>1, Zenon
  <2>. QED
    BY <2>1, <2>2, <2>3, <2>4, <2>5, <2>6, Zenon DEF TypeOK
<1>7. StoreOK /\ TicksOK /\ AwaitedOnce
  BY <1>3, <1>4, <1>5 DEF StoreOK, TicksOK, TickOK, AwaitedOnce
<1>8. PaidExact
  <2>1. \A i \in Intent : MinedOf(i) = {}
    BY <1>3 DEF MinedOf
  <2>. QED
    BY <1>1, <2>1, FS_EmptySet DEF PaidExact
<1>. QED
  BY <1>6, <1>7, <1>8 DEF ExecutorInv

LEMMA WorkKeeps ==
  ASSUME ExecutorInv, NEW t \in Ticker, Work(t)
  PROVE  ExecutorInv'
<1>1. CASE Reconcile(t)
  BY <1>1, ReconcileKeeps
<1>2. CASE BeginRun(t)
  BY <1>2, BeginRunKeeps
<1>3. CASE ReadNonce(t)
  BY <1>3, ReadNonceKeeps
<1>4. CASE Send(t)
  BY <1>4, SendKeeps
<1>5. CASE SendReplyLost(t)
  BY <1>5, SendReplyLostKeeps
<1>6. CASE SendRefused(t)
  BY <1>6, SendRefusedKeeps
<1>7. CASE SendBanned(t)
  BY <1>7, SendBannedKeeps
<1>8. CASE AwaitReceipt(t)
  BY <1>8, AwaitReceiptKeeps
<1>. QED
  BY <1>1, <1>2, <1>3, <1>4, <1>5, <1>6, <1>7, <1>8 DEF Work

LEMMA ExecutorStep == ExecutorInv /\ [Next]_vars => ExecutorInv'
<1>. SUFFICES ASSUME ExecutorInv, [Next]_vars PROVE ExecutorInv'
  OBVIOUS
<1>1. CASE \E i \in Intent, at \in StartAt : AddIntent(i, at)
  BY <1>1, AddIntentKeeps
<1>2. CASE \E i \in Intent : CancelIntent(i)
  BY <1>2, CancelIntentKeeps
<1>3. CASE \E i \in Intent : LosePolicy(i)
  BY <1>3, LosePolicyKeeps
<1>4. CASE \E t \in Ticker : StartTick(t)
  BY <1>4, StartTickKeeps
<1>5. CASE \E t \in Ticker : Work(t)
  BY <1>5, WorkKeeps
<1>6. CASE Crash
  BY <1>6, CrashKeeps
<1>7. CASE \E k \in DOMAIN ops : Mine(k)
  BY <1>7, MineKeeps
<1>8. CASE \E k \in DOMAIN ops : Drop(k)
  BY <1>8, DropKeeps
<1>9. CASE \E k \in DOMAIN ops : Index(k)
  BY <1>9, IndexKeeps
<1>10. CASE \E a \in Account : OwnerOperation(a)
  BY <1>10, OwnerOperationKeeps
<1>11. CASE PassTime
  BY <1>11, PassTimeKeeps
<1>12. CASE UNCHANGED vars
  BY <1>12, OperationsUntouched DEF vars, service, ExecutorInv, TypeOK
<1>. QED
  BY <1>1, <1>2, <1>3, <1>4, <1>5, <1>6, <1>7, <1>8, <1>9, <1>10, <1>11, <1>12 DEF Next

LEMMA ExecutorInvariant == Spec => []ExecutorInv
BY InitiallyGood, ExecutorStep, PTL DEF Spec

\* The type invariant of the executor, its store, and the chain it works on.
THEOREM ExecutorTypeOK == Spec => []TypeOK
<1>1. ExecutorInv => TypeOK
  BY DEF ExecutorInv
<1>. QED
  BY <1>1, ExecutorInvariant, PTL

\* runsCompleted is patched from records read earlier, by ticks that overlap and
\* are cut off by crashes; yet a run is counted only when a payment of its own
\* was mined.
THEOREM CountsArePayments == Spec => []CountedOnlyIfPaid
<1>1. ExecutorInv => CountedOnlyIfPaid
  <2>. SUFFICES ASSUME ExecutorInv, NEW i \in DOMAIN store
                PROVE  store[i].runsCompleted <= paid[i]
    BY DEF CountedOnlyIfPaid
  <2>1. PICK s, T : s = store[i] /\ T = MinedOf(i) \ (Awaited \cup {s.pending})
    OBVIOUS
  <2>2. s \in Record /\ s.id = i /\ Good(s) /\ i \in Intent /\ ops \in Seq(Operation)
    BY <2>1 DEF ExecutorInv, TypeOK, StoreOK
  <2>3. s.runsCompleted \in Nat /\ s.runsCompleted <= Cardinality(T)
    BY <2>1, <2>2 DEF Record, Good
  <2>4. IsFiniteSet(MinedOf(i)) /\ T \subseteq MinedOf(i)
    <3>1. MinedOf(i) \subseteq DOMAIN ops
      BY DEF MinedOf
    <3>. QED
      BY <2>1, <2>2, <3>1, SomeOfFinite
  <2>5. s.runsCompleted <= Cardinality(MinedOf(i))
    BY <2>3, <2>4, FewerMined
  <2>. QED
    BY <2>1, <2>2, <2>5 DEF ExecutorInv, PaidExact
<1>. QED
  BY <1>1, ExecutorInvariant, PTL

-----------------------------------------------------------------------------
(* Ticks in order: no overlap, no crash *)

Busy(x) == x.pc \in {"nonce", "send", "wait"}
Taken(x) == x.due \cup (IF Busy(x) THEN {x.cur} ELSE {})

\* Operations that were or may still be mined, and those a tick waits for.
Open(i) == {k \in DOMAIN ops : ops[k].intent = i /\ ops[k].state \in {"pooled", "mined"}}
AwaitedFor(i) == {tick[t].op : t \in {u \in Ticker : tick[u].pc = "wait" /\ tick[u].cur.id = i}}

Alone == \A t, u \in Ticker : tick[t].pc # "idle" /\ tick[u].pc # "idle" => t = u

\* What the tick has read is what the file says, but for cancellations.
UpToDate(x) ==
  /\ \A s \in x.confirming : /\ s.id \in DOMAIN store
                             /\ store[s.id].status = "confirming"
                             /\ store[s.id].pending = s.pending
                             /\ store[s.id].runsCompleted = s.runsCompleted
  /\ \A s \in Taken(x) : /\ s.id \in DOMAIN store
                         /\ store[s.id].status \in {"scheduled", "cancelled"}
                         /\ store[s.id].runsCompleted = s.runsCompleted
  /\ \A s, v \in x.confirming \cup Taken(x) : s.id = v.id => s = v
  /\ Busy(x) => x.cur \notin x.due
  /\ x.pc = "idle" => x.confirming = {} /\ x.due = {}

\* Every operation of an intent is counted, but the one it waits for and the
\* one a failed run may have left behind.
Accounted(r, open, awaited) ==
  /\ r.status = "failed" => Cardinality(open) <= r.runsCompleted + 1
  /\ r.status = "confirming" => Cardinality(open \ {r.pending}) <= r.runsCompleted
  /\ r.status \notin {"failed", "confirming"} => Cardinality(open \ awaited) <= r.runsCompleted

AllAccounted == \A i \in DOMAIN store : Accounted(store[i], Open(i), AwaitedFor(i))

OperationsKnown == \A k \in DOMAIN ops : ops[k].intent \in DOMAIN store

InOrder == /\ Alone /\ OperationsKnown /\ AllAccounted
           /\ \A t \in Ticker : UpToDate(tick[t])

\* Intents that are completed or have failed are left as they are.
FinalKept ==
  \A i \in DOMAIN store : store[i].status \in {"completed", "failed"} =>
    i \in DOMAIN store' /\ store'[i] = store[i]

\* Only j has more operations open than before.
NoneNew(j) ==
  \A k \in DOMAIN ops' :
    \/ ops'[k].intent = j
    \/ /\ k \in DOMAIN ops /\ ops'[k].intent = ops[k].intent
       /\ ops'[k].state \in {"pooled", "mined"} => ops[k].state \in {"pooled", "mined"}

LEMMA OpenFinite ==
  ASSUME ExecutorInv, NEW i
  PROVE  IsFiniteSet(Open(i)) /\ Open(i) \subseteq DOMAIN ops
<1>1. Open(i) \subseteq DOMAIN ops /\ ops \in Seq(Operation)
  BY DEF Open, ExecutorInv, TypeOK
<1>. QED
  BY <1>1, SomeOfFinite

\* No more open operations, no fewer awaited.
LEMMA AccountedStays ==
  ASSUME NEW r \in Record, NEW O, NEW P, NEW W, NEW V,
         IsFiniteSet(O), P \subseteq O, W \subseteq V, Accounted(r, O, W)
  PROVE  Accounted(r, P, V)
<1>1. r.runsCompleted \in Nat
  BY DEF Record
<1>2. IsFiniteSet(O \ {r.pending}) /\ IsFiniteSet(O \ W)
  BY FS_Difference
<1>3. P \ {r.pending} \subseteq O \ {r.pending} /\ P \ V \subseteq O \ W
  OBVIOUS
<1>4. /\ Cardinality(P) <= Cardinality(O)
      /\ Cardinality(P \ {r.pending}) <= Cardinality(O \ {r.pending})
      /\ Cardinality(P \ V) <= Cardinality(O \ W)
  BY <1>2, <1>3, FS_Subset
<1>5. /\ IsFiniteSet(P) /\ IsFiniteSet(P \ {r.pending}) /\ IsFiniteSet(P \ V)
  BY <1>2, <1>3, FS_Subset
<1>6. /\ Cardinality(P) \in Nat /\ Cardinality(O) \in Nat
      /\ Cardinality(P \ {r.pending}) \in Nat /\ Cardinality(O \ {r.pending}) \in Nat
      /\ Cardinality(P \ V) \in Nat /\ Cardinality(O \ W) \in Nat
  BY <1>2, <1>5, FS_CardinalityType
<1>. QED
  BY <1>1, <1>4, <1>6 DEF Accounted

\* A step of tick t that touches the record and the operations of j only.
LEMMA TickSerial ==
  ASSUME ExecutorInv, ExecutorInv', InOrder,
         NEW t \in Ticker, NEW y, NEW j \in DOMAIN store,
         tick[t].pc # "idle", tick' = [tick EXCEPT ![t] = y],
         DOMAIN store' = DOMAIN store, \A i \in DOMAIN store : i # j => store'[i] = store[i],
         store[j].status \notin {"completed", "failed"},
         Growing, NoneNew(j),
         tick[t].pc = "wait" => tick[t].cur.id = j, y.pc = "wait" => y.cur.id = j,
         UpToDate(y)',
         Accounted(store'[j], Open(j)', IF y.pc = "wait" THEN {y.op} ELSE {})
  PROVE  InOrder' /\ FinalKept
<1>1. tick'[t] = y /\ \A u \in Ticker : u # t => tick'[u] = tick[u] /\ tick[u].pc = "idle"
  BY DEF ExecutorInv, TypeOK, InOrder, Alone
<1>2. Alone'
  BY <1>1 DEF Alone
<1>3. OperationsKnown'
  BY DEF InOrder, OperationsKnown, NoneNew
<1>4. FinalKept
  BY DEF FinalKept
<1>5. ASSUME NEW u \in Ticker
      PROVE  UpToDate(tick[u])'
  <2>1. CASE u = t
    BY <1>1, <2>1 DEF UpToDate, Taken, Busy
  <2>2. CASE u # t
    <3>1. PICK x : x = tick[u]
      OBVIOUS
    <3>2. x.pc = "idle" /\ tick'[u] = x
      BY <1>1, <2>2, <3>1
    <3>3. UpToDate(x)'
      BY <3>1, <3>2 DEF InOrder, UpToDate, Taken, Busy
    <3>. QED
      BY <3>2, <3>3 DEF UpToDate, Taken, Busy
  <2>. QED
    BY <2>1, <2>2
<1>6. AllAccounted'
  <2>. SUFFICES ASSUME NEW i \in DOMAIN store
                PROVE  Accounted(store'[i], Open(i)', AwaitedFor(i)')
    BY DEF AllAccounted
  <2>1. CASE i = j
    <3>1. AwaitedFor(j)' = IF y.pc = "wait" THEN {y.op} ELSE {}
      BY <1>1 DEF AwaitedFor
    <3>. QED
      BY <2>1, <3>1
  <2>2. CASE i # j
    <3>1. PICK r, O, W : r = store[i] /\ O = Open(i) /\ W = AwaitedFor(i)
      OBVIOUS
    <3>2. r \in Record /\ IsFiniteSet(O) /\ Accounted(r, O, W)
      BY <3>1, OpenFinite DEF InOrder, AllAccounted, ExecutorInv, TypeOK
    <3>3. Open(i)' \subseteq O
      BY <2>2, <3>1 DEF Open, NoneNew
    <3>4. W = {}
      BY <1>1, <2>2, <3>1 DEF AwaitedFor
    <3>5. Accounted(r, Open(i)', AwaitedFor(i)')
      BY <3>2, <3>3, <3>4, AccountedStays
    <3>. QED
      BY <2>2, <3>1, <3>5
  <2>. QED
    BY <2>1, <2>2
<1>. QED
  BY <1>2, <1>3, <1>4, <1>5, <1>6 DEF InOrder

\* What is left of a tick's lists once the record s was dealt with.
LEMMA RestUpToDate ==
  ASSUME NEW x, UpToDate(x), NEW y, y.pc \in {"idle", "loop"},
         NEW s \in x.confirming \cup Taken(x),
         y.confirming \subseteq x.confirming, y.due \subseteq x.due,
         s \notin y.confirming \cup y.due,
         y.pc = "idle" => y.confirming = {} /\ y.due = {},
         DOMAIN store' = DOMAIN store, \A i \in DOMAIN store : i # s.id => store'[i] = store[i]
  PROVE  UpToDate(y)'
<1>1. Taken(y) = y.due /\ ~Busy(y) /\ y.due \subseteq Taken(x)
  BY DEF Taken, Busy
<1>2. \A v \in y.confirming \cup y.due : v \in x.confirming \cup Taken(x) /\ v # s
  BY <1>1
<1>3. \A v \in y.confirming \cup y.due : v.id # s.id
  BY <1>2 DEF UpToDate
<1>4. \A v \in y.confirming : /\ v.id \in DOMAIN store'
                               /\ store'[v.id].status = "confirming"
                               /\ store'[v.id].pending = v.pending
                               /\ store'[v.id].runsCompleted = v.runsCompleted
  BY <1>3 DEF UpToDate
<1>5. \A v \in y.due : /\ v.id \in DOMAIN store'
                        /\ store'[v.id].status \in {"scheduled", "cancelled"}
                        /\ store'[v.id].runsCompleted = v.runsCompleted
  BY <1>1, <1>3 DEF UpToDate
<1>6. \A v, w \in y.confirming \cup y.due : v.id = w.id => v = w
  BY <1>2 DEF UpToDate
<1>. QED
  BY <1>1, <1>4, <1>5, <1>6 DEF UpToDate, Taken, Busy

\* Where Proceed leaves a tick that has nothing left.
LEMMA ProceedIdle ==
  ASSUME NEW t \in Ticker, NEW c, NEW d, c \subseteq Record, d \subseteq Record, Proceed(t, c, d)
  PROVE  \E y \in TickState : /\ y.pc \in {"idle", "loop"}
                              /\ y.confirming = c /\ y.due = d
                              /\ y.pc = "idle" => c = {} /\ d = {}
                              /\ tick' = [tick EXCEPT ![t] = y]
<1>1. CASE c = {} /\ d = {}
  <2>1. Proceed(t, c, d) => tick' = [tick EXCEPT ![t] = Idle]
    BY <1>1 DEF Proceed
  <2>2. Idle \in TickState /\ Idle.pc = "idle" /\ Idle.confirming = c /\ Idle.due = d
    BY <1>1 DEF Idle, TickState
  <2>. QED
    BY <1>1, <2>1, <2>2
<1>2. CASE c \cup d # {}
  <2>1. PICK y : y = [Idle EXCEPT !.pc = "loop", !.confirming = c, !.due = d]
    OBVIOUS
  <2>2. tick' = [tick EXCEPT ![t] = y]
    BY <1>2, <2>1 DEF Proceed
  <2>3. y \in TickState /\ y.pc = "loop" /\ y.confirming = c /\ y.due = d
    BY <2>1 DEF Idle, TickState
  <2>. QED
    BY <2>2, <2>3
<1>. QED
  BY <1>1, <1>2

\* The tick deals with s: its record becomes r, and the tick goes on.
LEMMA DealsWith ==
  ASSUME ExecutorInv, ExecutorInv', InOrder, NEW t \in Ticker, tick[t].pc # "idle",
         NEW s \in tick[t].confirming \cup Taken(tick[t]), NEW c, NEW d,
         c \subseteq tick[t].confirming, d \subseteq tick[t].due, s \notin c \cup d,
         Proceed(t, c, d),
         tick[t].pc = "wait" => s = tick[t].cur,
         NEW r, store' = [store EXCEPT ![s.id] = r],
         Growing, NoneNew(s.id),
         Accounted(r, Open(s.id)', {})
  PROVE  InOrder' /\ FinalKept
<1>1. PICK x, j : x = tick[t] /\ j = s.id
  OBVIOUS
<1>2. UpToDate(x) /\ x.confirming \subseteq Record /\ x.due \subseteq Record
  BY <1>1, HeldGood DEF InOrder
<1>3. j \in DOMAIN store /\ store[j].status \notin {"completed", "failed"}
  BY <1>1, <1>2 DEF UpToDate
<1>4. c \subseteq Record /\ d \subseteq Record
  BY <1>1, <1>2
<1>5. PICK y \in TickState : /\ y.pc \in {"idle", "loop"}
                             /\ y.confirming = c /\ y.due = d
                             /\ y.pc = "idle" => c = {} /\ d = {}
                             /\ tick' = [tick EXCEPT ![t] = y]
  BY <1>4, ProceedIdle
<1>6. /\ DOMAIN store' = DOMAIN store /\ store'[j] = r
      /\ \A i \in DOMAIN store : i # j => store'[i] = store[i]
  BY <1>1, <1>3 DEF ExecutorInv, TypeOK
<1>7. UpToDate(y)'
  BY <1>1, <1>2, <1>5, <1>6, RestUpToDate
<1>8. Accounted(store'[j], Open(j)', IF y.pc = "wait" THEN {y.op} ELSE {})
  BY <1>1, <1>5, <1>6
<1>9. x.pc = "wait" => x.cur.id = j
  BY <1>1
<1>. QED
  BY <1>1, <1>3, <1>5, <1>6, <1>7, <1>8, <1>9, TickSerial

-----------------------------------------------------------------------------
(* The actions of a tick that works alone *)

LEMMA SameOperations ==
  ASSUME UNCHANGED ops
  PROVE  Growing /\ \A i : Open(i)' = Open(i) /\ NoneNew(i)
BY DEF Growing, Open, NoneNew

LEMMA NobodyWaits ==
  ASSUME InOrder, NEW t \in Ticker, tick[t].pc \in {"loop", "nonce", "send"}
  PROVE  \A i : AwaitedFor(i) = {}
BY DEF InOrder, Alone, AwaitedFor

LEMMA OneIsAwaited ==
  ASSUME InOrder, NEW t \in Ticker, tick[t].pc = "wait"
  PROVE  AwaitedFor(tick[t].cur.id) = {tick[t].op}
BY DEF InOrder, Alone, AwaitedFor

\* A tick has the records it holds apart, and none of them is final.
LEMMA HoldsApart ==
  ASSUME ExecutorInv, InOrder, NEW t \in Ticker
  PROVE  /\ tick[t].confirming \cap Taken(tick[t]) = {}
         /\ \A s \in tick[t].confirming \cup Taken(tick[t]) :
              /\ s.id \in DOMAIN store /\ store[s.id] \in Record
              /\ store[s.id].status \notin {"completed", "failed"}
              /\ store[s.id].runsCompleted = s.runsCompleted /\ s.runsCompleted \in Nat
              /\ Accounted(store[s.id], Open(s.id), AwaitedFor(s.id))
<1>1. UpToDate(tick[t])
  BY DEF InOrder
<1>2. tick[t].confirming \cap Taken(tick[t]) = {}
  BY <1>1 DEF UpToDate
<1>3. ASSUME NEW s \in tick[t].confirming \cup Taken(tick[t])
      PROVE  /\ s.id \in DOMAIN store /\ store[s.id] \in Record
             /\ store[s.id].status \notin {"completed", "failed"}
             /\ store[s.id].runsCompleted = s.runsCompleted /\ s.runsCompleted \in Nat
             /\ Accounted(store[s.id], Open(s.id), AwaitedFor(s.id))
  <2>1. /\ s.id \in DOMAIN store /\ store[s.id].status \notin {"completed", "failed"}
        /\ store[s.id].runsCompleted = s.runsCompleted
    BY <1>1 DEF UpToDate
  <2>2. store[s.id] \in Record
    BY <2>1 DEF ExecutorInv, TypeOK
  <2>. QED
    BY <2>1, <2>2 DEF InOrder, AllAccounted, Record
<1>. QED
  BY <1>2, <1>3

LEMMA GoesOnUntouched ==
  ASSUME ExecutorInv, ExecutorInv', InOrder, NEW t \in Ticker,
         tick[t].pc \in {"loop", "nonce", "send"},
         NEW s \in tick[t].confirming \cup Taken(tick[t]), NEW c, NEW d,
         c \subseteq tick[t].confirming, d \subseteq tick[t].due, s \notin c \cup d,
         Proceed(t, c, d), UNCHANGED store, UNCHANGED ops
  PROVE  InOrder' /\ FinalKept
<1>1. PICK r : r = store[s.id]
  OBVIOUS
<1>2. s.id \in DOMAIN store /\ Accounted(r, Open(s.id), AwaitedFor(s.id))
  BY <1>1, HoldsApart
<1>3. AwaitedFor(s.id) = {} /\ Open(s.id)' = Open(s.id) /\ Growing /\ NoneNew(s.id)
  BY NobodyWaits, SameOperations
<1>4. Accounted(r, Open(s.id)', {})
  BY <1>2, <1>3
<1>5. store' = [store EXCEPT ![s.id] = r]
  BY <1>1, <1>2 DEF ExecutorInv, TypeOK
<1>6. tick[t].pc # "idle" /\ tick[t].pc # "wait"
  OBVIOUS
<1>. QED
  BY <1>3, <1>4, <1>5, <1>6, DealsWith

\* A run fails and leaves at most one operation more than before.
LEMMA GoesOnFailed ==
  ASSUME ExecutorInv, ExecutorInv', InOrder, NEW t \in Ticker,
         tick[t].pc \in {"loop", "nonce", "send"},
         NEW s \in Taken(tick[t]), NEW d,
         d \subseteq tick[t].due, s \notin d, Proceed(t, {}, d), MarkFailed(s.id),
         Growing, NoneNew(s.id), NEW m, Open(s.id)' \subseteq Open(s.id) \cup {m}
  PROVE  InOrder' /\ FinalKept
<1>1. PICK j : j = s.id
  OBVIOUS
<1>2. /\ j \in DOMAIN store /\ Accounted(store[j], Open(j), AwaitedFor(j))
      /\ store[j] \in Record /\ store[j].status \in {"scheduled", "cancelled"}
  BY <1>1, HoldsApart DEF InOrder, UpToDate
<1>3. PICK x : x = "failed"
  OBVIOUS
<1>4. x \in Status /\ store' = [store EXCEPT ![j].status = x]
  BY <1>1, <1>3 DEF Status, MarkFailed
<1>5. PICK r : /\ Patched(j, r) /\ r.status = x
               /\ r \in Record /\ r.runsCompleted = store[j].runsCompleted
  <2>1. TypeOK
    BY DEF ExecutorInv
  <2>2. \E r : /\ Patched(j, r)
               /\ j \in DOMAIN store =>
                    /\ r \in Record /\ r.id = store[j].id /\ r.pending = store[j].pending
                    /\ r.runsCompleted = store[j].runsCompleted /\ r.status = x
    BY <1>4, <2>1, StatusPatch, Zenon
  <2>. QED
    BY <1>2, <2>2
<1>6. Cardinality(Open(j)) <= r.runsCompleted /\ r.runsCompleted \in Nat
  <2>1. AwaitedFor(j) = {}
    BY NobodyWaits
  <2>2. Open(j) \ {} = Open(j)
    OBVIOUS
  <2>. QED
    BY <1>2, <1>5, <2>1, <2>2 DEF Accounted, Record
<1>7. Cardinality(Open(j)') <= r.runsCompleted + 1
  <2>1. PICK O, P : O = Open(j) /\ P = Open(j)'
    OBVIOUS
  <2>2. IsFiniteSet(O) /\ IsFiniteSet(O \cup {m}) /\ P \subseteq O \cup {m}
    BY <1>1, <2>1, OpenFinite, FS_AddElement
  <2>3. Cardinality(O \cup {m}) = Cardinality(O) \/ Cardinality(O \cup {m}) = Cardinality(O) + 1
    BY <2>2, FS_AddElement
  <2>4. Cardinality(P) <= Cardinality(O \cup {m}) /\ IsFiniteSet(P)
    BY <2>2, FS_Subset
  <2>5. Cardinality(P) \in Nat /\ Cardinality(O) \in Nat
    BY <2>2, <2>4, FS_CardinalityType
  <2>. QED
    BY <1>6, <2>1, <2>3, <2>4, <2>5
<1>8. Accounted(r, Open(j)', {})
  BY <1>3, <1>5, <1>7 DEF Accounted
<1>9. PICK c : c = {}
  OBVIOUS
<1>10. Proceed(t, c, d) /\ c \subseteq tick[t].confirming /\ s \notin c \cup d
  BY <1>9
<1>11. tick[t].pc # "idle" /\ tick[t].pc # "wait" /\ s \in tick[t].confirming \cup Taken(tick[t])
  OBVIOUS
<1>12. store' = [store EXCEPT ![s.id] = r] /\ Accounted(r, Open(s.id)', {})
  BY <1>1, <1>5, <1>8 DEF Patched
<1>. QED
  BY <1>10, <1>11, <1>12, DealsWith

\* The receipt of k, which s waited for, decides.
LEMMA GoesOnSettled ==
  ASSUME ExecutorInv, ExecutorInv', InOrder, NEW t \in Ticker, tick[t].pc # "idle",
         NEW s \in tick[t].confirming \cup Taken(tick[t]), NEW c, NEW d,
         c \subseteq tick[t].confirming, d \subseteq tick[t].due, s \notin c \cup d,
         Proceed(t, c, d), tick[t].pc = "wait" => s = tick[t].cur, s \in Record,
         UNCHANGED ops, NEW k,
         Cardinality(Open(s.id) \ {k}) <= s.runsCompleted,
         \/ MarkPaid(s)
         \/ ops[k].state = "reverted" /\ MarkReverted(s.id)
         \/ k \in OpId /\ MarkConfirming(s.id, k)
  PROVE  InOrder' /\ FinalKept
<1>1. PICK j, n, O : j = s.id /\ n = s.runsCompleted /\ O = Open(j)
  OBVIOUS
<1>2. /\ j \in DOMAIN store /\ store[j] \in Record /\ store[j].runsCompleted = n /\ n \in Nat
      /\ Cardinality(O \ {k}) <= n
  BY <1>1, HoldsApart
<1>3. /\ IsFiniteSet(O) /\ IsFiniteSet(O \ {k})
      /\ Cardinality(O) \in Nat /\ Cardinality(O \ {k}) \in Nat
  <2>1. IsFiniteSet(O) /\ IsFiniteSet(O \ {k})
    BY <1>1, OpenFinite, FS_Difference
  <2>. QED
    BY <2>1, FS_CardinalityType
<1>4. Cardinality(O) <= n + 1
  <2>1. CASE k \in O
    BY <1>2, <1>3, <2>1, FS_RemoveElement
  <2>2. CASE k \notin O
    <3>1. O \ {k} = O
      BY <2>2
    <3>. QED
      BY <1>2, <1>3, <3>1
  <2>. QED
    BY <2>1, <2>2
<1>5. Open(j)' = O /\ Growing /\ NoneNew(j)
  BY <1>1, SameOperations
<1>6. \E r : Patched(j, r) /\ Accounted(r, O, {})
  <2>1. CASE MarkPaid(s)
    <3>1. PICK r : Patched(j, r) /\ r.runsCompleted = n + 1 /\ r.status \in {"completed", "scheduled"}
      BY <1>1, <1>2, <2>1, PaidPatch DEF ExecutorInv
    <3>2. O \ {} = O
      OBVIOUS
    <3>3. Accounted(r, O, {})
      BY <1>4, <3>1, <3>2 DEF Accounted
    <3>. QED
      BY <3>1, <3>3
  <2>2. CASE MarkReverted(j)
    <3>1. PICK r : Patched(j, r) /\ r.runsCompleted = n /\ r.status = "failed"
      BY <1>2, <2>2, RevertedPatch DEF ExecutorInv
    <3>2. Accounted(r, O, {})
      BY <1>4, <3>1 DEF Accounted
    <3>. QED
      BY <3>1, <3>2
  <2>3. CASE k \in OpId /\ MarkConfirming(j, k)
    <3>1. PICK r : Patched(j, r) /\ r.runsCompleted = n /\ r.status = "confirming" /\ r.pending = k
      BY <1>2, <2>3, ConfirmingPatch DEF ExecutorInv
    <3>2. Accounted(r, O, {})
      BY <1>2, <3>1 DEF Accounted
    <3>. QED
      BY <3>1, <3>2
  <2>. QED
    BY <1>1, <2>1, <2>2, <2>3
<1>7. PICK r : Patched(j, r) /\ Accounted(r, O, {})
  BY <1>6
<1>8. store' = [store EXCEPT ![s.id] = r] /\ Accounted(r, Open(s.id)', {}) /\ Growing /\ NoneNew(s.id)
  BY <1>1, <1>5, <1>7 DEF Patched
<1>. QED
  BY <1>8, DealsWith

LEMMA ReconcileInOrder ==
  ASSUME ExecutorInv, ExecutorInv', InOrder, NEW t \in Ticker, Reconcile(t)
  PROVE  InOrder' /\ FinalKept
<1>1. UNCHANGED ops /\ tick[t].pc = "loop"
  BY DEF Reconcile, chain
<1>2. PICK s \in tick[t].confirming :
        /\ \/ MarkPaid(s)
           \/ ops[s.pending].state = "reverted" /\ MarkReverted(s.id)
           \/ UNCHANGED store
        /\ Proceed(t, tick[t].confirming \ {s}, tick[t].due)
  BY DEF Reconcile
<1>3. PICK c, d, k : c = tick[t].confirming \ {s} /\ d = tick[t].due /\ k = s.pending
  OBVIOUS
<1>4. /\ c \subseteq tick[t].confirming /\ d \subseteq tick[t].due /\ s \notin c \cup d
      /\ s \in tick[t].confirming \cup Taken(tick[t]) /\ Proceed(t, c, d)
  BY <1>2, <1>3, HoldsApart DEF Taken
<1>5. CASE UNCHANGED store
  BY <1>1, <1>4, <1>5, GoesOnUntouched
<1>6. CASE MarkPaid(s) \/ (ops[k].state = "reverted" /\ MarkReverted(s.id))
  <2>1. s \in Record
    BY HeldGood
  <2>2. Cardinality(Open(s.id) \ {k}) <= s.runsCompleted
    <3>1. /\ store[s.id].status = "confirming" /\ store[s.id].pending = k
          /\ store[s.id].runsCompleted = s.runsCompleted
      BY <1>3 DEF InOrder, UpToDate
    <3>2. Accounted(store[s.id], Open(s.id), AwaitedFor(s.id))
      BY <1>4, HoldsApart
    <3>. QED
      BY <3>1, <3>2 DEF Accounted
  <2>3. tick[t].pc # "idle" /\ tick[t].pc # "wait"
    BY <1>1
  <2>. QED
    BY <1>1, <1>4, <1>6, <2>1, <2>2, <2>3, GoesOnSettled
<1>. QED
  BY <1>2, <1>3, <1>5, <1>6

LEMMA AwaitReceiptInOrder ==
  ASSUME ExecutorInv, ExecutorInv', InOrder, NEW t \in Ticker, AwaitReceipt(t)
  PROVE  InOrder' /\ FinalKept
<1>1. UNCHANGED ops /\ tick[t].pc = "wait"
  BY DEF AwaitReceipt, chain
<1>2. PICK s, k, c, d : s = tick[t].cur /\ k = tick[t].op /\ c = {} /\ d = tick[t].due
  OBVIOUS
<1>3. /\ \/ MarkPaid(s)
         \/ ops[k].state = "reverted" /\ MarkReverted(s.id)
         \/ MarkConfirming(s.id, k)
      /\ Proceed(t, c, d)
  BY <1>2 DEF AwaitReceipt, MarkConfirming
<1>4. /\ c \subseteq tick[t].confirming /\ d \subseteq tick[t].due
      /\ s \in tick[t].confirming \cup Taken(tick[t])
  BY <1>1, <1>2 DEF Taken, Busy
<1>5. s \notin c \cup d /\ UpToDate(tick[t])
  BY <1>1, <1>2 DEF InOrder, UpToDate, Busy
<1>6. s \in Record /\ k \in OpId
  <2>1. s \in Record /\ k \in DOMAIN ops
    BY <1>1, <1>2, HeldGood
  <2>2. ops \in Seq(Operation) /\ Len(ops) <= MaxOps
    BY DEF ExecutorInv, TypeOK
  <2>. QED
    BY <2>1, <2>2, AutopilotAssumption DEF OpId
<1>7. Cardinality(Open(s.id) \ {k}) <= s.runsCompleted
  <2>1. s \in Taken(tick[t])
    BY <1>1, <1>2 DEF Taken, Busy
  <2>2. /\ store[s.id].status \in {"scheduled", "cancelled"}
        /\ store[s.id].runsCompleted = s.runsCompleted
    BY <1>5, <2>1 DEF UpToDate
  <2>3. Accounted(store[s.id], Open(s.id), AwaitedFor(s.id)) /\ AwaitedFor(s.id) = {k}
    BY <1>1, <1>2, <1>4, HoldsApart, OneIsAwaited
  <2>. QED
    BY <2>2, <2>3 DEF Accounted
<1>8. tick[t].pc # "idle"
  BY <1>1
<1>9. tick[t].pc = "wait" => s = tick[t].cur
  BY <1>2
<1>. QED
  BY <1>1, <1>3, <1>4, <1>5, <1>6, <1>7, <1>8, <1>9, GoesOnSettled

\* A tick turns to a record of its list, or goes on with the one in hand.
LEMMA TurnsTo ==
  ASSUME ExecutorInv, ExecutorInv', InOrder, NEW t \in Ticker,
         tick[t].pc \in {"loop", "nonce", "send"}, NEW y, Busy(y), y.pc # "wait",
         y.confirming = tick[t].confirming, Taken(y) \subseteq Taken(tick[t]), y.cur \notin y.due,
         tick' = [tick EXCEPT ![t] = y], UNCHANGED store, UNCHANGED ops
  PROVE  InOrder' /\ FinalKept
<1>1. PICK x, s : x = tick[t] /\ s = y.cur
  OBVIOUS
<1>2. s \in Taken(x) /\ UpToDate(x)
  BY <1>1 DEF Taken, Busy, InOrder
<1>3. /\ s.id \in DOMAIN store /\ store[s.id].status \notin {"completed", "failed"}
      /\ Accounted(store[s.id], Open(s.id), AwaitedFor(s.id))
  BY <1>1, <1>2, HoldsApart
<1>4. /\ AwaitedFor(s.id) = {} /\ Open(s.id)' = Open(s.id) /\ Growing /\ NoneNew(s.id)
  BY NobodyWaits, SameOperations
<1>5. Accounted(store'[s.id], Open(s.id)', IF y.pc = "wait" THEN {y.op} ELSE {})
  BY <1>3, <1>4
<1>6. UpToDate(y)
  BY <1>1, <1>2 DEF UpToDate, Busy
<1>7. UpToDate(y)'
  BY <1>6 DEF UpToDate
<1>8. /\ tick[t].pc # "idle"
      /\ tick[t].pc = "wait" => tick[t].cur.id = s.id
      /\ y.pc = "wait" => y.cur.id = s.id
  BY <1>1
<1>9. DOMAIN store' = DOMAIN store /\ \A i \in DOMAIN store : i # s.id => store'[i] = store[i]
  OBVIOUS
<1>. QED
  BY <1>3, <1>4, <1>5, <1>7, <1>8, <1>9, TickSerial

LEMMA BeginRunInOrder ==
  ASSUME ExecutorInv, ExecutorInv', InOrder, NEW t \in Ticker, BeginRun(t)
  PROVE  InOrder' /\ FinalKept
<1>1. UNCHANGED ops /\ tick[t].pc = "loop" /\ tick[t].confirming = {}
  BY DEF BeginRun, chain
<1>2. PICK s \in tick[t].due :
        PolicyRefuses(t, s) \/ Pause(t, s) \/ ReadThrows(t, s) \/ StartRun(t, s)
  BY DEF BeginRun
<1>3. PICK c, d : c = {} /\ d = tick[t].due \ {s}
  OBVIOUS
<1>4. /\ c \subseteq tick[t].confirming /\ d \subseteq tick[t].due /\ s \notin d /\ s \notin c \cup d
      /\ s \in Taken(tick[t]) /\ s \in tick[t].confirming \cup Taken(tick[t])
  BY <1>3 DEF Taken
<1>5. CASE Proceed(t, c, d) /\ UNCHANGED store
  BY <1>1, <1>4, <1>5, GoesOnUntouched
<1>6. CASE Proceed(t, c, d) /\ MarkFailed(s.id)
  <2>1. /\ Growing /\ NoneNew(s.id) /\ Open(s.id)' \subseteq Open(s.id) \cup {NoOp}
        /\ Proceed(t, {}, d)
    BY <1>1, <1>3, <1>6, SameOperations
  <2>. QED
    BY <1>1, <1>4, <1>6, <2>1, GoesOnFailed
<1>7. CASE StartRun(t, s)
  <2>1. PICK x, y : x = tick[t] /\ y = [x EXCEPT !.pc = "nonce", !.cur = s, !.due = @ \ {s}]
    OBVIOUS
  <2>2. x \in TickState /\ s \in Record /\ s \in x.due
    BY <2>1, HeldGood
  <2>3. /\ y.pc = "nonce" /\ y.cur = s /\ y.due = x.due \ {s} /\ y.confirming = x.confirming
    BY <2>1, <2>2 DEF TickState
  <2>4. Taken(y) \subseteq Taken(x)
    BY <1>1, <2>1, <2>2, <2>3 DEF Taken, Busy
  <2>5. tick' = [tick EXCEPT ![t] = y] /\ UNCHANGED store
    BY <1>7, <2>1 DEF StartRun
  <2>6. tick[t].pc \in {"loop", "nonce", "send"} /\ Busy(y) /\ y.pc # "wait" /\ y.cur \notin y.due
          /\ y.confirming = tick[t].confirming /\ Taken(y) \subseteq Taken(tick[t])
    BY <1>1, <2>1, <2>3, <2>4 DEF Busy
  <2>. QED
    BY <1>1, <2>5, <2>6, TurnsTo
<1>. QED
  BY <1>2, <1>3, <1>5, <1>6, <1>7 DEF PolicyRefuses, Pause, ReadThrows

LEMMA ReadNonceInOrder ==
  ASSUME ExecutorInv, ExecutorInv', InOrder, NEW t \in Ticker, ReadNonce(t)
  PROVE  InOrder' /\ FinalKept
<1>1. UNCHANGED ops /\ UNCHANGED store /\ tick[t].pc = "nonce"
  BY DEF ReadNonce, chain
<1>2. PICK x, n : x = tick[t] /\ n = nonce[AccountOf[tick[t].cur.id]]
  OBVIOUS
<1>3. PICK y : y = [x EXCEPT !.pc = "send", !.nonce = n]
  OBVIOUS
<1>4. tick' = [tick EXCEPT ![t] = y]
  BY <1>2, <1>3 DEF ReadNonce
<1>5. x \in TickState /\ x.cur \notin x.due
  BY <1>1, <1>2, HeldGood DEF InOrder, UpToDate, Busy
<1>6. y.pc = "send" /\ y.cur = x.cur /\ y.due = x.due /\ y.confirming = x.confirming
  BY <1>3, <1>5 DEF TickState
<1>7. Taken(y) \subseteq Taken(x)
  BY <1>1, <1>2, <1>6 DEF Taken, Busy
<1>8. tick[t].pc \in {"loop", "nonce", "send"} /\ Busy(y) /\ y.pc # "wait" /\ y.cur \notin y.due
        /\ y.confirming = tick[t].confirming /\ Taken(y) \subseteq Taken(tick[t])
  BY <1>1, <1>2, <1>5, <1>6, <1>7 DEF Busy
<1>. QED
  BY <1>1, <1>4, <1>8, TurnsTo

\* The record in hand, of a tick about to send.
LEMMA InHandIsApart ==
  ASSUME ExecutorInv, InOrder, NEW t \in Ticker, tick[t].pc = "send",
         NEW s, s = tick[t].cur, NEW d, d = tick[t].due
  PROVE  /\ s \in Taken(tick[t]) /\ s \in tick[t].confirming \cup Taken(tick[t])
         /\ d \subseteq tick[t].due /\ s \notin d /\ s \in Record
BY HeldGood DEF Taken, Busy, InOrder, UpToDate

LEMMA SendRefusedInOrder ==
  ASSUME ExecutorInv, ExecutorInv', InOrder, NEW t \in Ticker, SendRefused(t)
  PROVE  InOrder' /\ FinalKept
<1>1. UNCHANGED ops /\ tick[t].pc = "send"
  BY DEF SendRefused, chain
<1>2. PICK s, d : s = tick[t].cur /\ d = tick[t].due
  OBVIOUS
<1>3. Proceed(t, {}, d) /\ MarkFailed(s.id)
  BY <1>2 DEF SendRefused
<1>4. s \in Taken(tick[t]) /\ d \subseteq tick[t].due /\ s \notin d
  BY <1>1, <1>2, InHandIsApart
<1>5. Growing /\ NoneNew(s.id) /\ Open(s.id)' \subseteq Open(s.id) \cup {NoOp}
  BY <1>1, SameOperations
<1>. QED
  BY <1>1, <1>3, <1>4, <1>5, GoesOnFailed

LEMMA SendBannedInOrder ==
  ASSUME ExecutorInv, ExecutorInv', InOrder, NEW t \in Ticker, SendBanned(t)
  PROVE  InOrder' /\ FinalKept
<1>1. UNCHANGED ops /\ UNCHANGED store /\ tick[t].pc = "send"
  BY DEF SendBanned, chain
<1>2. PICK s, c, d : s = tick[t].cur /\ c = {} /\ d = tick[t].due
  OBVIOUS
<1>3. s \in tick[t].confirming \cup Taken(tick[t]) /\ d \subseteq tick[t].due /\ s \notin d
  BY <1>1, <1>2, InHandIsApart
<1>4. CASE Proceed(t, {}, tick[t].due)
  <2>1. Proceed(t, c, d) /\ c \subseteq tick[t].confirming /\ s \notin c \cup d
    BY <1>2, <1>3, <1>4
  <2>. QED
    BY <1>1, <1>3, <2>1, GoesOnUntouched
<1>5. CASE tick' = [tick EXCEPT ![t].pc = "nonce", ![t].nonce = 0, ![t].fallback = TRUE]
  <2>1. PICK x : x = tick[t]
    OBVIOUS
  <2>2. PICK y : y = [x EXCEPT !.pc = "nonce", !.nonce = 0, !.fallback = TRUE]
    OBVIOUS
  <2>3. x \in TickState /\ x.cur \notin x.due
    BY <1>1, <2>1, HeldGood DEF InOrder, UpToDate, Busy
  <2>4. y.pc = "nonce" /\ y.cur = x.cur /\ y.due = x.due /\ y.confirming = x.confirming
    BY <2>2, <2>3, Zenon DEF TickState
  <2>5. Taken(y) \subseteq Taken(x)
    BY <1>1, <2>1, <2>4 DEF Taken, Busy
  <2>6. tick[t].pc \in {"loop", "nonce", "send"} /\ Busy(y) /\ y.pc # "wait" /\ y.cur \notin y.due
          /\ y.confirming = tick[t].confirming /\ Taken(y) \subseteq Taken(tick[t])
    BY <1>1, <2>1, <2>3, <2>4, <2>5 DEF Busy
  <2>7. tick' = [tick EXCEPT ![t] = y]
    BY <1>5, <2>1, <2>2, Zenon
  <2>. QED
    BY <1>1, <2>6, <2>7, TurnsTo
<1>. QED
  BY <1>4, <1>5 DEF SendBanned

\* An operation that is accepted is one more of its intent, and of no other.
LEMMA AcceptedIsOne ==
  ASSUME ExecutorInv, NEW t \in Ticker, SendAccepted(t), NEW j, j = tick[t].cur.id
  PROVE  /\ Growing /\ NoneNew(j)
         /\ Open(j)' \subseteq Open(j) \cup {Len(ops) + 1}
<1>1. PICK m : m = Len(ops) + 1
  OBVIOUS
<1>2. /\ Growing /\ ops'[m].intent = j
      /\ \A k \in DOMAIN ops' : k # m =>
           /\ k \in DOMAIN ops /\ ops'[k].intent = ops[k].intent
           /\ ops'[k].state \in {ops[k].state, "dropped"}
  BY <1>1, AcceptedGrows DEF ChainOK
<1>3. NoneNew(j)
  BY <1>2 DEF NoneNew
<1>4. Open(j)' \subseteq Open(j) \cup {m}
  BY <1>2 DEF Open
<1>. QED
  BY <1>1, <1>2, <1>3, <1>4

LEMMA SendReplyLostInOrder ==
  ASSUME ExecutorInv, ExecutorInv', InOrder, NEW t \in Ticker, SendReplyLost(t)
  PROVE  InOrder' /\ FinalKept
<1>1. tick[t].pc = "send" /\ SendAccepted(t)
  BY DEF SendReplyLost, SendAccepted
<1>2. PICK s, d, m : s = tick[t].cur /\ d = tick[t].due /\ m = Len(ops) + 1
  OBVIOUS
<1>3. Proceed(t, {}, d) /\ MarkFailed(s.id)
  BY <1>2 DEF SendReplyLost
<1>4. s \in Taken(tick[t]) /\ d \subseteq tick[t].due /\ s \notin d
  BY <1>1, <1>2, InHandIsApart
<1>5. Growing /\ NoneNew(s.id) /\ Open(s.id)' \subseteq Open(s.id) \cup {m}
  BY <1>1, <1>2, AcceptedIsOne
<1>. QED
  BY <1>1, <1>3, <1>4, <1>5, GoesOnFailed

LEMMA SendInOrder ==
  ASSUME ExecutorInv, ExecutorInv', InOrder, NEW t \in Ticker, Send(t)
  PROVE  InOrder' /\ FinalKept
<1>1. tick[t].pc = "send" /\ SendAccepted(t) /\ UNCHANGED store
  BY DEF Send, SendAccepted
<1>2. PICK x, j, m : x = tick[t] /\ j = x.cur.id /\ m = Len(ops) + 1
  OBVIOUS
<1>3. PICK y : y = [x EXCEPT !.pc = "wait", !.op = m, !.nonce = 0, !.fallback = FALSE]
  OBVIOUS
<1>4. tick' = [tick EXCEPT ![t] = y]
  BY <1>2, <1>3, Zenon DEF Send
<1>5. x \in TickState
  BY <1>2, HeldGood
<1>6. /\ y.pc = "wait" /\ y.op = m /\ y.cur = x.cur /\ y.due = x.due /\ y.confirming = x.confirming
  BY <1>3, <1>5, Zenon DEF TickState
<1>7. /\ Growing /\ NoneNew(j) /\ Open(j)' \subseteq Open(j) \cup {m}
  BY <1>1, <1>2, AcceptedIsOne
<1>8. x.cur \in Taken(x) /\ x.cur \notin x.due /\ Taken(y) = Taken(x) /\ Busy(x) /\ Busy(y)
  BY <1>1, <1>2, <1>6, InHandIsApart DEF Taken, Busy
<1>9. UpToDate(x)
  BY <1>2 DEF InOrder
<1>10. UpToDate(y)
  BY <1>1, <1>6, <1>8, <1>9 DEF UpToDate
<1>11. UpToDate(y)'
  BY <1>1, <1>10 DEF UpToDate
<1>12. /\ j \in DOMAIN store /\ store[j] \in Record
       /\ store[j].status \in {"scheduled", "cancelled"}
       /\ Accounted(store[j], Open(j), AwaitedFor(j)) /\ AwaitedFor(j) = {}
  BY <1>1, <1>2, <1>8, <1>9, HoldsApart, NobodyWaits DEF UpToDate
<1>13. Accounted(store[j], Open(j)', {m})
  <2>1. PICK r, O, P : r = store[j] /\ O = Open(j) /\ P = Open(j)'
    OBVIOUS
  <2>2. IsFiniteSet(O) /\ P \ {m} \subseteq O /\ r \in Record /\ Accounted(r, O, {})
    BY <1>7, <1>12, <2>1, OpenFinite
  <2>3. Accounted(r, P \ {m}, {})
    BY <2>2, AccountedStays
  <2>4. (P \ {m}) \ {} = P \ {m}
    OBVIOUS
  <2>. QED
    BY <1>12, <2>1, <2>3, <2>4 DEF Accounted
<1>14. Accounted(store'[j], Open(j)', IF y.pc = "wait" THEN {y.op} ELSE {})
  BY <1>1, <1>6, <1>13
<1>15. /\ tick[t].pc # "idle" /\ store[j].status \notin {"completed", "failed"}
       /\ DOMAIN store' = DOMAIN store /\ \A i \in DOMAIN store : i # j => store'[i] = store[i]
  BY <1>1, <1>12
<1>16. y.pc = "wait" => y.cur.id = j
  BY <1>2, <1>6
<1>17. tick[t].pc = "wait" => tick[t].cur.id = j
  BY <1>1
<1>. QED
  BY <1>4, <1>7, <1>11, <1>12, <1>14, <1>15, <1>16, <1>17, TickSerial

-----------------------------------------------------------------------------
(* The other actions *)

\* A tick that is started alone reads what the file says.
LEMMA StartTickInOrder ==
  ASSUME ExecutorInv, ExecutorInv', InOrder, NEW t \in Ticker, StartTick(t), ~disturbed'
  PROVE  InOrder' /\ FinalKept
<1>1. UNCHANGED store /\ UNCHANGED ops /\ tick[t].pc = "idle"
  BY DEF StartTick, chain
<1>2. \A u \in Ticker : u # t => tick[u].pc = "idle"
  <2>1. disturbed' = (disturbed \/ \E u \in Ticker : u # t /\ tick[u].pc # "idle")
    BY DEF StartTick
  <2>. QED
    BY <2>1, Zenon
<1>3. PICK c, d : c = ConfirmingIntents /\ d = DueIntents
  OBVIOUS
<1>4. c \subseteq Record /\ d \subseteq Record
  BY <1>3 DEF ConfirmingIntents, DueIntents, ExecutorInv, TypeOK
<1>5. Proceed(t, c, d)
  BY <1>3 DEF StartTick
<1>6. PICK y \in TickState : /\ y.pc \in {"idle", "loop"}
                             /\ y.confirming = c /\ y.due = d
                             /\ y.pc = "idle" => c = {} /\ d = {}
                             /\ tick' = [tick EXCEPT ![t] = y]
  BY <1>4, <1>5, ProceedIdle
<1>7. tick'[t] = y /\ \A u \in Ticker : u # t => tick'[u] = tick[u]
  BY <1>6 DEF ExecutorInv, TypeOK
<1>8. Alone'
  BY <1>2, <1>7 DEF Alone
<1>9. Taken(y) = d /\ ~Busy(y)
  BY <1>6 DEF Taken, Busy
<1>10. \A s \in c \cup d : s.id \in DOMAIN store /\ store[s.id] = s
  BY <1>3 DEF ConfirmingIntents, DueIntents, ExecutorInv, StoreOK
<1>11. (\A s \in c : s.status = "confirming") /\ (\A s \in d : s.status = "scheduled")
  BY <1>3 DEF ConfirmingIntents, DueIntents
<1>12. UpToDate(y)
  <2>1. \A s, v \in c \cup d : s.id = v.id => s = v
    BY <1>10
  <2>. QED
    BY <1>6, <1>9, <1>10, <1>11, <2>1 DEF UpToDate
<1>13. UpToDate(y)'
  BY <1>1, <1>12 DEF UpToDate
<1>14. ASSUME NEW u \in Ticker
       PROVE  UpToDate(tick[u])'
  <2>1. CASE u = t
    BY <1>7, <1>13, <2>1 DEF UpToDate, Taken, Busy
  <2>2. CASE u # t
    BY <1>1, <1>7, <2>2 DEF InOrder, UpToDate, Taken, Busy
  <2>. QED
    BY <2>1, <2>2
<1>15. \A i : AwaitedFor(i)' = AwaitedFor(i)
  BY <1>1, <1>6, <1>7 DEF AwaitedFor
<1>16. AllAccounted' /\ OperationsKnown'
  BY <1>1, <1>15, SameOperations DEF InOrder, AllAccounted, OperationsKnown
<1>17. FinalKept
  BY <1>1 DEF FinalKept
<1>. QED
  BY <1>8, <1>14, <1>16, <1>17 DEF InOrder

LEMMA AddIntentInOrder ==
  ASSUME ExecutorInv, ExecutorInv', InOrder, NEW i, NEW startAt, AddIntent(i, startAt)
  PROVE  InOrder' /\ FinalKept
<1>1. UNCHANGED tick /\ UNCHANGED ops /\ i \notin DOMAIN store
  BY DEF AddIntent, chain
<1>2. PICK r : r = [id |-> i, status |-> "scheduled", runsCompleted |-> 0,
                    nextRunAt |-> startAt, pending |-> NoOp]
  OBVIOUS
<1>3. store' = [j \in DOMAIN store \cup {i} |-> IF j = i THEN r ELSE store[j]]
  BY <1>2 DEF AddIntent
<1>4. /\ DOMAIN store' = DOMAIN store \cup {i} /\ store'[i] = r
      /\ \A j \in DOMAIN store : store'[j] = store[j]
  BY <1>1, <1>3
<1>5. /\ \A j : Open(j)' = Open(j) /\ AwaitedFor(j)' = AwaitedFor(j)
  BY <1>1 DEF Open, AwaitedFor
<1>6. Accounted(r, Open(i), AwaitedFor(i))
  <2>1. Open(i) = {}
    BY <1>1 DEF Open, InOrder, OperationsKnown
  <2>2. Open(i) \ AwaitedFor(i) = {} /\ r.status = "scheduled" /\ r.runsCompleted = 0
    BY <1>2, <2>1
  <2>. QED
    BY <2>2, FS_EmptySet DEF Accounted
<1>7. AllAccounted'
  BY <1>4, <1>5, <1>6 DEF InOrder, AllAccounted
<1>8. OperationsKnown' /\ Alone' /\ FinalKept
  BY <1>1, <1>4 DEF InOrder, OperationsKnown, Alone, FinalKept
<1>9. \A u \in Ticker : UpToDate(tick[u])'
  BY <1>1, <1>4 DEF InOrder, UpToDate, Taken, Busy
<1>. QED
  BY <1>7, <1>8, <1>9 DEF InOrder

LEMMA CancelIntentInOrder ==
  ASSUME ExecutorInv, ExecutorInv', InOrder, NEW i, CancelIntent(i)
  PROVE  InOrder' /\ FinalKept
<1>1. UNCHANGED tick /\ UNCHANGED ops /\ i \in DOMAIN store /\ store[i].status = "scheduled"
  BY DEF CancelIntent, chain
<1>2. PICK r : r = [store[i] EXCEPT !.status = "cancelled"]
  OBVIOUS
<1>3. store[i] \in Record /\ store' = [store EXCEPT ![i] = r]
  BY <1>1, <1>2 DEF CancelIntent, ExecutorInv, TypeOK
<1>4. /\ r.status = "cancelled" /\ r.runsCompleted = store[i].runsCompleted
  BY <1>2, <1>3 DEF Record
<1>5. /\ DOMAIN store' = DOMAIN store /\ store'[i] = r
      /\ \A j \in DOMAIN store : j # i => store'[j] = store[j]
  BY <1>1, <1>3 DEF ExecutorInv, TypeOK
<1>6. /\ \A j : Open(j)' = Open(j) /\ AwaitedFor(j)' = AwaitedFor(j)
  BY <1>1 DEF Open, AwaitedFor
<1>7. Accounted(r, Open(i), AwaitedFor(i))
  <2>1. Accounted(store[i], Open(i), AwaitedFor(i))
    BY <1>1 DEF InOrder, AllAccounted
  <2>. QED
    BY <1>1, <1>4, <2>1 DEF Accounted
<1>8. AllAccounted'
  BY <1>5, <1>6, <1>7 DEF InOrder, AllAccounted
<1>9. OperationsKnown' /\ Alone' /\ FinalKept
  BY <1>1, <1>5 DEF InOrder, OperationsKnown, Alone, FinalKept
<1>10. ASSUME NEW u \in Ticker
       PROVE  UpToDate(tick[u])'
  <2>1. PICK x : x = tick[u]
    OBVIOUS
  <2>2. UpToDate(x)
    BY <2>1 DEF InOrder
  <2>3. UpToDate(x)'
    BY <1>1, <1>4, <1>5, <2>2 DEF UpToDate
  <2>4. tick'[u] = x
    BY <1>1, <2>1
  <2>. QED
    BY <2>3, <2>4 DEF UpToDate, Taken, Busy
<1>. QED
  BY <1>8, <1>9, <1>10 DEF InOrder

\* Steps of the chain and of others.
LEMMA OutsideInOrder ==
  ASSUME ExecutorInv, ExecutorInv', InOrder, UNCHANGED store, UNCHANGED tick,
         \A i : Open(i)' \subseteq Open(i), \A k \in DOMAIN ops' : k \in DOMAIN ops /\ ops'[k].intent = ops[k].intent
  PROVE  InOrder' /\ FinalKept
<1>1. ASSUME NEW i \in DOMAIN store
      PROVE  Accounted(store[i], Open(i), AwaitedFor(i))'
  <2>1. PICK r, O, P, W : r = store[i] /\ O = Open(i) /\ P = Open(i)' /\ W = AwaitedFor(i)
    OBVIOUS
  <2>2. r \in Record /\ IsFiniteSet(O) /\ P \subseteq O /\ Accounted(r, O, W)
    BY <2>1, OpenFinite DEF InOrder, AllAccounted, ExecutorInv, TypeOK
  <2>3. Accounted(r, P, W)
    BY <2>2, AccountedStays
  <2>4. AwaitedFor(i)' = W
    BY <2>1 DEF AwaitedFor
  <2>. QED
    BY <2>1, <2>3, <2>4
<1>2. AllAccounted'
  BY <1>1 DEF AllAccounted
<1>3. OperationsKnown' /\ Alone' /\ FinalKept
  BY DEF InOrder, OperationsKnown, Alone, FinalKept
<1>4. \A u \in Ticker : UpToDate(tick[u])'
  BY DEF InOrder, UpToDate, Taken, Busy
<1>. QED
  BY <1>2, <1>3, <1>4 DEF InOrder

LEMMA SettlingInOrder ==
  ASSUME ExecutorInv, ExecutorInv', InOrder, NEW k \in DOMAIN ops, Mine(k) \/ Drop(k) \/ Index(k)
  PROVE  InOrder' /\ FinalKept
<1>1. UNCHANGED store /\ UNCHANGED tick
  BY DEF Mine, Drop, Index, service
<1>2. ops \in Seq(Operation) /\ ops[k] \in Operation
  BY DEF ExecutorInv, TypeOK
<1>3. \E o : /\ ops' = [ops EXCEPT ![k] = o] /\ o.intent = ops[k].intent
             /\ o.state \in {"pooled", "mined"} => ops[k].state \in {"pooled", "mined"}
  <2>1. CASE \E x \in {"mined", "reverted", "dropped"} :
               ops[k].state = "pooled" /\ ops' = [ops EXCEPT ![k].state = x]
    <3>1. PICK x : ops[k].state = "pooled" /\ ops' = [ops EXCEPT ![k].state = x]
      BY <2>1
    <3>2. PICK o : o = [ops[k] EXCEPT !.state = x]
      OBVIOUS
    <3>3. o.intent = ops[k].intent
      BY <1>2, <3>2 DEF Operation
    <3>4. ops' = [ops EXCEPT ![k] = o]
      BY <3>1, <3>2
    <3>. QED
      BY <3>1, <3>3, <3>4
  <2>2. CASE ops' = [ops EXCEPT ![k].indexed = TRUE]
    <3>1. PICK o : o = [ops[k] EXCEPT !.indexed = TRUE]
      OBVIOUS
    <3>2. o.intent = ops[k].intent /\ o.state = ops[k].state
      BY <1>2, <3>1 DEF Operation
    <3>3. ops' = [ops EXCEPT ![k] = o]
      BY <2>2, <3>1
    <3>. QED
      BY <3>2, <3>3
  <2>. QED
    BY <2>1, <2>2 DEF Mine, Drop, Index
<1>4. PICK o : /\ ops' = [ops EXCEPT ![k] = o] /\ o.intent = ops[k].intent
               /\ o.state \in {"pooled", "mined"} => ops[k].state \in {"pooled", "mined"}
  BY <1>3
<1>5. DOMAIN ops' = DOMAIN ops /\ ops'[k] = o /\ \A m \in DOMAIN ops : m # k => ops'[m] = ops[m]
  BY <1>2, <1>4
<1>6. \A m \in DOMAIN ops' : m \in DOMAIN ops /\ ops'[m].intent = ops[m].intent
  BY <1>4, <1>5
<1>7. \A i : Open(i)' \subseteq Open(i)
  BY <1>4, <1>5 DEF Open
<1>. QED
  BY <1>1, <1>6, <1>7, OutsideInOrder

LEMMA BystanderInOrder ==
  ASSUME ExecutorInv, ExecutorInv', InOrder,
         UNCHANGED store, UNCHANGED tick, UNCHANGED ops
  PROVE  InOrder' /\ FinalKept
<1>1. \A i : Open(i)' \subseteq Open(i)
  BY DEF Open
<1>. QED
  BY <1>1, OutsideInOrder

LEMMA WorkInOrder ==
  ASSUME ExecutorInv, ExecutorInv', InOrder, NEW t \in Ticker, Work(t)
  PROVE  InOrder' /\ FinalKept
<1>1. CASE Reconcile(t)
  BY <1>1, ReconcileInOrder
<1>2. CASE BeginRun(t)
  BY <1>2, BeginRunInOrder
<1>3. CASE ReadNonce(t)
  BY <1>3, ReadNonceInOrder
<1>4. CASE Send(t)
  BY <1>4, SendInOrder
<1>5. CASE SendReplyLost(t)
  BY <1>5, SendReplyLostInOrder
<1>6. CASE SendRefused(t)
  BY <1>6, SendRefusedInOrder
<1>7. CASE SendBanned(t)
  BY <1>7, SendBannedInOrder
<1>8. CASE AwaitReceipt(t)
  BY <1>8, AwaitReceiptInOrder
<1>. QED
  BY <1>1, <1>2, <1>3, <1>4, <1>5, <1>6, <1>7, <1>8 DEF Work

SerialInv == ~disturbed => InOrder

LEMMA InitiallyInOrder == Init => SerialInv
<1>. SUFFICES ASSUME Init PROVE InOrder
  BY DEF SerialInv
<1>1. DOMAIN store = {} /\ DOMAIN ops = {} /\ \A t \in Ticker : tick[t] = Idle
  BY DEF Init
<1>2. Idle.pc = "idle" /\ Idle.confirming = {} /\ Idle.due = {}
  BY DEF Idle
<1>3. Taken(Idle) = {} /\ ~Busy(Idle)
  BY <1>2 DEF Taken, Busy
<1>4. UpToDate(Idle)
  BY <1>2, <1>3 DEF UpToDate
<1>5. Alone /\ OperationsKnown /\ AllAccounted
  BY <1>1, <1>2 DEF Alone, OperationsKnown, AllAccounted
<1>. QED
  BY <1>1, <1>4, <1>5 DEF InOrder

\* Once disturbed, always disturbed.
LEMMA DisturbedStays ==
  ASSUME TypeOK, [Next]_vars, ~disturbed'
  PROVE  ~disturbed
<1>1. \A t : StartTick(t) => ~disturbed
  BY Zenon DEF StartTick
<1>2. \A t : Work(t) => disturbed' = disturbed
  BY DEF Work, Reconcile, BeginRun, ReadNonce, Send, SendReplyLost, SendAccepted,
         SendRefused, SendBanned, AwaitReceipt
<1>3. Crash => disturbed' = TRUE
  BY Zenon DEF Crash
<1>4. \A i, at : AddIntent(i, at) \/ CancelIntent(i) \/ LosePolicy(i) => disturbed' = disturbed
  BY DEF AddIntent, CancelIntent, LosePolicy
<1>5. \A k : Mine(k) \/ Drop(k) \/ Index(k) => disturbed' = disturbed
  BY DEF Mine, Drop, Index
<1>6. \A a : OwnerOperation(a) \/ PassTime => disturbed' = disturbed
  BY DEF OwnerOperation, PassTime
<1>7. UNCHANGED vars => disturbed' = disturbed
  BY DEF vars
<1>. QED
  BY <1>1, <1>2, <1>3, <1>4, <1>5, <1>6, <1>7, Zenon DEF Next

LEMMA SerialStep ==
  ASSUME ExecutorInv, ExecutorInv', InOrder, [Next]_vars, ~disturbed'
  PROVE  InOrder' /\ FinalKept
<1>1. CASE \E i \in Intent, at \in StartAt : AddIntent(i, at)
  BY <1>1, AddIntentInOrder
<1>2. CASE \E i \in Intent : CancelIntent(i)
  BY <1>2, CancelIntentInOrder
<1>3. CASE \E i \in Intent : LosePolicy(i)
  <2>1. UNCHANGED store /\ UNCHANGED tick /\ UNCHANGED ops
    BY <1>3 DEF LosePolicy, service
  <2>. QED
    BY <2>1, BystanderInOrder
<1>4. CASE \E t \in Ticker : StartTick(t)
  BY <1>4, StartTickInOrder
<1>5. CASE \E t \in Ticker : Work(t)
  BY <1>5, WorkInOrder
<1>6. CASE Crash
  <2>1. disturbed' = TRUE
    BY <1>6, Zenon DEF Crash
  <2>. QED
    BY <2>1, Zenon
<1>7. CASE \E k \in DOMAIN ops : Mine(k) \/ Drop(k) \/ Index(k)
  BY <1>7, SettlingInOrder
<1>8. CASE \E a \in Account : OwnerOperation(a)
  <2>1. UNCHANGED store /\ UNCHANGED tick /\ UNCHANGED ops
    BY <1>8 DEF OwnerOperation, service
  <2>. QED
    BY <2>1, BystanderInOrder
<1>9. CASE PassTime \/ UNCHANGED vars
  <2>1. UNCHANGED store /\ UNCHANGED tick /\ UNCHANGED ops
    BY <1>9 DEF PassTime, vars, service, chain
  <2>. QED
    BY <2>1, BystanderInOrder
<1>. QED
  BY <1>1, <1>2, <1>3, <1>4, <1>5, <1>6, <1>7, <1>8, <1>9 DEF Next

LEMMA SerialInvariant == Spec => [](ExecutorInv /\ SerialInv)
<1>1. ExecutorInv /\ SerialInv /\ [Next]_vars => SerialInv'
  <2>. SUFFICES ASSUME ExecutorInv, SerialInv, [Next]_vars, ~disturbed'
                PROVE  InOrder'
    BY DEF SerialInv
  <2>1. ExecutorInv' /\ TypeOK
    BY ExecutorStep DEF ExecutorInv
  <2>2. ~disturbed
    BY <2>1, DisturbedStays
  <2>3. InOrder
    BY <2>2, Zenon DEF SerialInv
  <2>. QED
    BY <2>1, <2>3, SerialStep
<1>. QED
  BY <1>1, InitiallyInOrder, InitiallyGood, ExecutorStep, PTL DEF Spec

\* runsCompleted may lag behind the chain while a receipt is awaited, but as
\* long as ticks neither overlap nor crash it lags by one payment at most, and
\* only while somebody waits for that payment or the run that made it failed.
THEOREM OneUncounted == Spec => []AtMostOneUncounted
<1>1. ExecutorInv /\ SerialInv => AtMostOneUncounted
  <2>. SUFFICES ASSUME ExecutorInv, SerialInv, ~disturbed, NEW i \in DOMAIN store
                PROVE  paid[i] - store[i].runsCompleted <=
                         IF InHand(i) \/ store[i].status \in {"confirming", "failed"} THEN 1 ELSE 0
    BY DEF AtMostOneUncounted
  <2>1. PICK r, O, W : r = store[i] /\ O = Open(i) /\ W = AwaitedFor(i)
    OBVIOUS
  <2>2. InOrder
    BY Zenon DEF SerialInv
  <2>3. Accounted(r, O, W) /\ r \in Record /\ i \in Intent
    BY <2>1, <2>2 DEF InOrder, AllAccounted, ExecutorInv, TypeOK
  <2>4. r.runsCompleted \in Nat
    BY <2>3 DEF Record
  <2>5. IsFiniteSet(O)
    BY <2>1, OpenFinite
  <2>6. paid[i] \in Nat /\ paid[i] <= Cardinality(O) /\ Cardinality(O) \in Nat
    <3>1. MinedOf(i) \subseteq O
      BY <2>1 DEF MinedOf, Open
    <3>2. Cardinality(MinedOf(i)) <= Cardinality(O) /\ IsFiniteSet(MinedOf(i))
      BY <2>5, <3>1, FS_Subset
    <3>3. paid[i] = Cardinality(MinedOf(i))
      BY <2>3 DEF ExecutorInv, PaidExact
    <3>. QED
      BY <2>5, <3>2, <3>3, FS_CardinalityType
  <2>7. \A k : Cardinality(O \ {k}) \in Nat /\ Cardinality(O) <= Cardinality(O \ {k}) + 1
    <3>. SUFFICES ASSUME NEW k
                  PROVE  /\ Cardinality(O \ {k}) \in Nat
                         /\ Cardinality(O) <= Cardinality(O \ {k}) + 1
      OBVIOUS
    <3>1. IsFiniteSet(O \ {k}) /\ Cardinality(O \ {k}) \in Nat
      BY <2>5, FS_RemoveElement, FS_CardinalityType
    <3>2. Cardinality(O \ {k}) = IF k \in O THEN Cardinality(O) - 1 ELSE Cardinality(O)
      BY <2>5, FS_RemoveElement
    <3>. QED
      BY <2>6, <3>1, <3>2
  <2>8. CASE r.status = "failed"
    BY <2>1, <2>3, <2>4, <2>6, <2>8 DEF Accounted
  <2>9. CASE r.status = "confirming"
    <3>1. Cardinality(O \ {r.pending}) <= r.runsCompleted
      BY <2>3, <2>9 DEF Accounted
    <3>2. /\ Cardinality(O \ {r.pending}) \in Nat
          /\ Cardinality(O) <= Cardinality(O \ {r.pending}) + 1
      BY <2>7
    <3>3. paid[i] - r.runsCompleted <= 1
      BY <2>4, <2>6, <3>1, <3>2
    <3>. QED
      BY <2>1, <2>9, <3>3
  <2>10. CASE r.status \notin {"failed", "confirming"}
    <3>1. Cardinality(O \ W) <= r.runsCompleted
      BY <2>3, <2>10 DEF Accounted
    <3>2. CASE W = {}
      <4>1. O \ W = O
        BY <3>2
      <4>2. paid[i] - r.runsCompleted <= 0
        BY <2>4, <2>6, <3>1, <4>1
      <4>. QED
        BY <2>1, <2>4, <2>6, <4>2
    <3>3. CASE W # {}
      <4>1. PICK t \in Ticker : tick[t].pc = "wait" /\ tick[t].cur.id = i
        BY <2>1, <3>3 DEF AwaitedFor
      <4>2. W = {tick[t].op}
        BY <2>1, <2>2, <4>1, OneIsAwaited
      <4>3. tick[t].cur \in Record
        BY <4>1, HeldGood
      <4>4. InHand(i)
        BY <4>1, <4>3, NoIntentAssumption DEF InHand
      <4>5. /\ Cardinality(O \ W) \in Nat
            /\ Cardinality(O) <= Cardinality(O \ W) + 1
        BY <2>7, <4>2
      <4>6. paid[i] - r.runsCompleted <= 1
        BY <2>4, <2>6, <3>1, <4>5
      <4>. QED
        BY <2>1, <4>4, <4>6
    <3>. QED
      BY <3>2, <3>3
  <2>. QED
    BY <2>8, <2>9, <2>10
<1>. QED
  BY <1>1, SerialInvariant, PTL

\* The records a tick goes by are read once, before its first await, and patched
\* into the file after the last one; without an overlap or a crash no such patch
\* reopens an intent that is completed or has failed.
THEOREM FinalStays == Spec => TerminalStays
<1>1. ExecutorInv /\ ExecutorInv' /\ SerialInv /\ [Next]_vars =>
        [~disturbed' => \A i \in DOMAIN store :
           store[i].status \in {"completed", "failed"} => store'[i].status = store[i].status]_vars
  <2>. SUFFICES ASSUME ExecutorInv, ExecutorInv', SerialInv, [Next]_vars, ~disturbed'
                PROVE  \A i \in DOMAIN store :
                         store[i].status \in {"completed", "failed"} =>
                           store'[i].status = store[i].status
    OBVIOUS
  <2>1. ~disturbed
    BY DisturbedStays DEF ExecutorInv
  <2>2. FinalKept
    BY <2>1, SerialStep, Zenon DEF SerialInv
  <2>. QED
    BY <2>2 DEF FinalKept
<1>. QED
  BY <1>1, SerialInvariant, PTL DEF Spec, TerminalStays
=============================================================================
