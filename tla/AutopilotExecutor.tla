--------------------------- MODULE AutopilotExecutor ---------------------------
(***************************************************************************)
(* The Autopilot executor of the paymaster service (autopilot-executor.ts  *)
(* over autopilot-intents.ts): scheduled payments paid by session-key user *)
(* operations.                                                             *)
(*                                                                         *)
(* Node runs one callback at a time, so what stands between two awaits of  *)
(* runAutopilotOnce is one action here, and the intent file is read and    *)
(* written inside actions.  setInterval starts a tick every minute whether *)
(* or not the last one is over, and a tick may wait minutes for a receipt: *)
(* Ticker is the set of ticks that may run at the same time.               *)
(*                                                                         *)
(* The EntryPoint's nonces and the bundler's pool are external: an         *)
(* operation is pooled, then mined (and paid, or reverted) when its nonce  *)
(* is the account's, or dropped; its receipt is indexed some time later.   *)
(***************************************************************************)
EXTENDS Integers, Sequences

CONSTANTS
  Intent,       \* intent ids
  Account,      \* smart accounts
  AccountOf,    \* intent -> its smart account
  MaxRuns,      \* intent -> maxRuns
  Interval,     \* intent -> intervalSeconds, 0 for a one-shot intent (null)
  StartAt,      \* values of startAt that are tried
  Ticker,       \* ticks that may run at the same time
  NoOp,         \* no pending user operation (pendingUserOpHash undefined)
  NoIntent,     \* no intent in hand
  MaxTime,      \* bound on the clock
  MaxOps,       \* bound on submitted operations
  MaxNonce,     \* bound on an account's nonce
  MaxCrashes    \* bound on crashes of the service

ASSUME AutopilotAssumption ==
  /\ AccountOf \in [Intent -> Account]
  /\ MaxRuns \in [Intent -> Nat \ {0}]
  /\ Interval \in [Intent -> Nat]
  /\ StartAt \subseteq Nat
  /\ {MaxTime, MaxOps, MaxNonce, MaxCrashes} \subseteq Nat
  /\ NoOp \notin Nat

Status == {"scheduled", "confirming", "completed", "failed", "cancelled"}
Receipt == {"pooled", "mined", "reverted", "dropped"}
Time == 0..MaxTime
OpId == 1..MaxOps

\* AutopilotIntent: the fields the executor changes, and its id.
Record ==
  [id : Intent, status : Status, runsCompleted : Nat, nextRunAt : Nat,
   pending : OpId \cup {NoOp}]

ASSUME NoIntentAssumption == NoIntent \notin Record

Operation ==
  [intent : Intent, nonce : Nat, state : Receipt, indexed : BOOLEAN]

\* A tick: the lists it read when it began, the intent in hand (as read then),
\* the nonce and operation of the run, and whether it is the fallback attempt.
TickState ==
  [pc : {"idle", "loop", "nonce", "send", "wait"},
   confirming : SUBSET Record, due : SUBSET Record,
   cur : Record \cup {NoIntent}, nonce : Nat, op : OpId \cup {NoOp},
   fallback : BOOLEAN]

VARIABLES
  store,        \* the intent file: id -> record, for the ids added so far
  tick,         \* Ticker -> TickState
  policyUsable, \* intent -> its policy is live, covers the amount, and has a key
  ops,          \* the operations the bundler accepted, in order
  nonce,        \* account -> EntryPoint nonce
  now,
  crashes,
  paid,         \* history: intent -> payments that were mined
  disturbed     \* history: ticks have overlapped, or a crash cut one off

service == <<store, tick>>
chain == <<policyUsable, ops, nonce, paid>>
vars == <<store, tick, policyUsable, ops, nonce, now, crashes, paid, disturbed>>

TypeOK ==
  /\ DOMAIN store \subseteq Intent
  /\ store \in [DOMAIN store -> Record]
  /\ tick \in [Ticker -> TickState]
  /\ policyUsable \in [Intent -> BOOLEAN]
  /\ ops \in Seq(Operation) /\ Len(ops) <= MaxOps
  /\ nonce \in [Account -> 0..MaxNonce]
  /\ now \in Time
  /\ crashes \in 0..MaxCrashes
  /\ paid \in [Intent -> Nat]
  /\ disturbed \in BOOLEAN

Idle == [pc |-> "idle", confirming |-> {}, due |-> {}, cur |-> NoIntent,
         nonce |-> 0, op |-> NoOp, fallback |-> FALSE]

Init ==
  /\ store = << >>
  /\ tick = [t \in Ticker |-> Idle]
  /\ policyUsable = [i \in Intent |-> TRUE]
  /\ ops = << >>
  /\ nonce = [a \in Account |-> 0]
  /\ now = 0 /\ crashes = 0
  /\ paid = [i \in Intent |-> 0]
  /\ disturbed = FALSE

-----------------------------------------------------------------------------
(* The intent store *)

\* createValidatedIntent, addIntent
AddIntent(i, startAt) ==
  /\ i \notin DOMAIN store
  /\ policyUsable[i]
  /\ store' = [j \in DOMAIN store \cup {i} |->
                 IF j = i THEN [id |-> i, status |-> "scheduled", runsCompleted |-> 0,
                                nextRunAt |-> startAt, pending |-> NoOp]
                          ELSE store[j]]
  /\ UNCHANGED <<tick, chain, now, crashes, disturbed>>

\* cancelIntent: an intent that is not scheduled is left alone.
CancelIntent(i) ==
  /\ i \in DOMAIN store
  /\ store[i].status = "scheduled"
  /\ store' = [store EXCEPT ![i].status = "cancelled"]
  /\ UNCHANGED <<tick, chain, now, crashes, disturbed>>

ConfirmingIntents == {s \in {store[i] : i \in DOMAIN store} :
                        s.status = "confirming" /\ s.pending # NoOp}

\* Mutant: whatever is not closed for good is due, a failed intent too.
DueUnlessDone == {s \in {store[i] : i \in DOMAIN store} :
                    s.status \notin {"completed", "cancelled"} /\ s.nextRunAt <= now}

DueIntents == {s \in {store[i] : i \in DOMAIN store} :
                 s.status = "scheduled" /\ s.nextRunAt <= now}

\* updateIntent patches the record as it is now, whatever the tick read before.
MarkFailed(i) == store' = [store EXCEPT ![i].status = "failed"]

MarkReverted(i) ==
  store' = [store EXCEPT ![i].status = "failed", ![i].pending = NoOp]

\* The patch after a mined payment is computed from the record s the tick read.
MarkPaid(s) ==
  LET runs == s.runsCompleted + 1
      done == Interval[s.id] = 0 \/ runs >= MaxRuns[s.id] IN
  store' = [store EXCEPT
              ![s.id].runsCompleted = runs,
              ![s.id].pending = NoOp,
              ![s.id].status = IF done THEN "completed" ELSE "scheduled",
              ![s.id].nextRunAt = IF done THEN s.nextRunAt
                                          ELSE s.nextRunAt + Interval[s.id]]

-----------------------------------------------------------------------------
(* runAutopilotOnce *)

\* The tick is done with one intent: on to the next of its lists.
Proceed(t, confirming, due) ==
  tick' = [tick EXCEPT ![t] = IF confirming \cup due = {} THEN Idle
                              ELSE [Idle EXCEPT !.pc = "loop",
                                                !.confirming = confirming,
                                                !.due = due]]

\* A tick with empty lists returns at once and is left out.
StartTick(t) ==
  /\ tick[t].pc = "idle"
  /\ ConfirmingIntents \cup DueIntents # {}
  /\ Proceed(t, ConfirmingIntents, DueIntents)
  /\ disturbed' = (disturbed \/ \E u \in Ticker : u # t /\ tick[u].pc # "idle")
  /\ UNCHANGED <<store, chain, now, crashes>>

\* Mutant: a reverted operation is waited for like a missing one.
ReconcileMinedOnly(t) ==
  /\ tick[t].pc = "loop"
  /\ \E s \in tick[t].confirming :
       LET o == ops[s.pending] IN
       /\ IF o.indexed /\ o.state = "mined" THEN MarkPaid(s) ELSE UNCHANGED store
       /\ Proceed(t, tick[t].confirming \ {s}, tick[t].due)
  /\ UNCHANGED <<chain, now, crashes, disturbed>>

\* The receipt of a pending operation is polled until it is indexed or the time
\* is up; a tick that finds nothing leaves the intent confirming.
Reconcile(t) ==
  /\ tick[t].pc = "loop"
  /\ \E s \in tick[t].confirming :
       LET o == ops[s.pending] IN
       /\ CASE o.indexed /\ o.state = "mined" -> MarkPaid(s)
            [] o.indexed /\ o.state = "reverted" -> MarkReverted(s.id)
            [] OTHER -> UNCHANGED store
       /\ Proceed(t, tick[t].confirming \ {s}, tick[t].due)
  /\ UNCHANGED <<chain, now, crashes, disturbed>>

\* runIntent reads the policy again: an unusable one fails the intent.
PolicyRefuses(t, s) ==
  /\ ~policyUsable[s.id]
  /\ MarkFailed(s.id)
  /\ Proceed(t, {}, tick[t].due \ {s})

\* resolveSessionGasMode finds no route: the intent stays scheduled.
Pause(t, s) ==
  /\ Proceed(t, {}, tick[t].due \ {s})
  /\ UNCHANGED store

\* A read throws before anything is signed: the catch of the loop fails a
\* one-shot intent and leaves a recurring one on its schedule.
ReadThrows(t, s) ==
  /\ IF Interval[s.id] = 0 THEN MarkFailed(s.id) ELSE UNCHANGED store
  /\ Proceed(t, {}, tick[t].due \ {s})

StartRun(t, s) ==
  /\ policyUsable[s.id]
  /\ tick' = [tick EXCEPT ![t].pc = "nonce", ![t].cur = s, ![t].due = @ \ {s}]
  /\ UNCHANGED store

\* runIntent up to the first submission.  The policy and the gas route are read
\* at two awaits, but nothing shared is read or written between them.
BeginRun(t) ==
  /\ tick[t].pc = "loop"
  /\ tick[t].confirming = {}
  /\ \E s \in tick[t].due :
       PolicyRefuses(t, s) \/ Pause(t, s) \/ ReadThrows(t, s) \/ StartRun(t, s)
  /\ UNCHANGED <<chain, now, crashes, disturbed>>

\* buildAndSignSession takes the nonce the chain has now.
ReadNonce(t) ==
  /\ tick[t].pc = "nonce"
  /\ tick' = [tick EXCEPT ![t].pc = "send",
                          ![t].nonce = nonce[AccountOf[tick[t].cur.id]]]
  /\ UNCHANGED <<store, chain, now, crashes, disturbed>>

\* The bundler's pool accepts an operation with the account's nonce; one that
\* waits under the same nonce is replaced.
Pooled(ops0, i, n) ==
  Append([k \in DOMAIN ops0 |->
            IF ops0[k].state = "pooled" /\ ops0[k].nonce = n
                 /\ AccountOf[ops0[k].intent] = AccountOf[i]
            THEN [ops0[k] EXCEPT !.state = "dropped"] ELSE ops0[k]],
         [intent |-> i, nonce |-> n, state |-> "pooled", indexed |-> FALSE])

SendAccepted(t) ==
  LET i == tick[t].cur.id IN
  /\ tick[t].pc = "send"
  /\ Len(ops) < MaxOps
  /\ tick[t].nonce = nonce[AccountOf[i]]
  /\ ops' = Pooled(ops, i, tick[t].nonce)
  /\ UNCHANGED <<policyUsable, nonce, paid, now, crashes, disturbed>>

\* sendUserOperation returns the hash and waitForUserOp begins.
Send(t) ==
  /\ SendAccepted(t)
  /\ tick' = [tick EXCEPT ![t].pc = "wait", ![t].op = Len(ops) + 1,
                          ![t].nonce = 0, ![t].fallback = FALSE]
  /\ UNCHANGED store

\* The operation is accepted and the answer is lost: the call throws.
SendReplyLost(t) ==
  /\ SendAccepted(t)
  /\ MarkFailed(tick[t].cur.id)
  /\ Proceed(t, {}, tick[t].due)

\* The operation is refused, or a read before it fails.
SendRefused(t) ==
  /\ tick[t].pc = "send"
  /\ MarkFailed(tick[t].cur.id)
  /\ Proceed(t, {}, tick[t].due)
  /\ UNCHANGED <<chain, now, crashes, disturbed>>

\* "banned paymaster": one more attempt on another gas route, or a pause when
\* the policy has none.
SendBanned(t) ==
  /\ tick[t].pc = "send"
  /\ ~tick[t].fallback
  /\ \/ tick' = [tick EXCEPT ![t].pc = "nonce", ![t].nonce = 0, ![t].fallback = TRUE]
     \/ Proceed(t, {}, tick[t].due)
  /\ UNCHANGED <<store, chain, now, crashes, disturbed>>

\* Mutant: an operation without a receipt leaves the intent scheduled.
AwaitAndRetry(t) ==
  LET s == tick[t].cur
      o == ops[tick[t].op] IN
  /\ tick[t].pc = "wait"
  /\ CASE o.indexed /\ o.state = "mined" -> MarkPaid(s)
       [] o.indexed /\ o.state = "reverted" -> MarkReverted(s.id)
       [] OTHER -> UNCHANGED store
  /\ Proceed(t, {}, tick[t].due)
  /\ UNCHANGED <<chain, now, crashes, disturbed>>

\* Mutant: any receipt counts as a payment.
AwaitAnyReceipt(t) ==
  LET s == tick[t].cur IN
  /\ tick[t].pc = "wait"
  /\ IF ops[tick[t].op].indexed
     THEN MarkPaid(s)
     ELSE store' = [store EXCEPT ![s.id].status = "confirming",
                                 ![s.id].pending = tick[t].op]
  /\ Proceed(t, {}, tick[t].due)
  /\ UNCHANGED <<chain, now, crashes, disturbed>>

\* waitForUserOp and confirmReceipt: the receipt is seen, or both give up and
\* the intent waits as confirming.
AwaitReceipt(t) ==
  LET s == tick[t].cur
      o == ops[tick[t].op] IN
  /\ tick[t].pc = "wait"
  /\ CASE o.indexed /\ o.state = "mined" -> MarkPaid(s)
       [] o.indexed /\ o.state = "reverted" -> MarkReverted(s.id)
       [] OTHER -> store' = [store EXCEPT ![s.id].status = "confirming",
                                          ![s.id].pending = tick[t].op]
  /\ Proceed(t, {}, tick[t].due)
  /\ UNCHANGED <<chain, now, crashes, disturbed>>

\* The process dies and is started again: the file is what is left.
Crash ==
  /\ crashes < MaxCrashes
  /\ \E t \in Ticker : tick[t].pc # "idle"
  /\ crashes' = crashes + 1
  /\ tick' = [t \in Ticker |-> Idle]
  /\ disturbed' = TRUE
  /\ UNCHANGED <<store, chain, now>>

-----------------------------------------------------------------------------
(* The chain and the bundler *)

\* The policy is checked when the operation is mined: a payment is made only
\* under a live policy.
Mine(k) ==
  LET a == AccountOf[ops[k].intent] IN
  /\ ops[k].state = "pooled"
  /\ ops[k].nonce = nonce[a]
  /\ nonce[a] < MaxNonce
  /\ nonce' = [nonce EXCEPT ![a] = @ + 1]
  /\ \/ /\ policyUsable[ops[k].intent]
        /\ ops' = [ops EXCEPT ![k].state = "mined"]
        /\ paid' = [paid EXCEPT ![ops[k].intent] = @ + 1]
     \/ /\ ops' = [ops EXCEPT ![k].state = "reverted"]
        /\ UNCHANGED paid
  /\ UNCHANGED <<service, policyUsable, now, crashes, disturbed>>

Drop(k) ==
  /\ ops[k].state = "pooled"
  /\ ops' = [ops EXCEPT ![k].state = "dropped"]
  /\ UNCHANGED <<service, policyUsable, nonce, paid, now, crashes, disturbed>>

\* The bundler's index catches up with the chain.
Index(k) ==
  /\ ops[k].state \in {"mined", "reverted"}
  /\ ~ops[k].indexed
  /\ ops' = [ops EXCEPT ![k].indexed = TRUE]
  /\ UNCHANGED <<service, policyUsable, nonce, paid, now, crashes, disturbed>>

\* The account's owner sends an operation of her own.
OwnerOperation(a) ==
  /\ nonce[a] < MaxNonce
  /\ nonce' = [nonce EXCEPT ![a] = @ + 1]
  /\ UNCHANGED <<service, policyUsable, ops, paid, now, crashes, disturbed>>

\* The policy is revoked, expires, or is changed so that it refuses the amount.
LosePolicy(i) ==
  /\ policyUsable[i]
  /\ policyUsable' = [policyUsable EXCEPT ![i] = FALSE]
  /\ UNCHANGED <<service, ops, nonce, paid, now, crashes, disturbed>>

PassTime ==
  /\ now < MaxTime
  /\ now' = now + 1
  /\ UNCHANGED <<service, chain, crashes, disturbed>>

-----------------------------------------------------------------------------
Work(t) ==
  \/ Reconcile(t) \/ BeginRun(t) \/ ReadNonce(t) \/ Send(t)
  \/ SendReplyLost(t) \/ SendRefused(t) \/ SendBanned(t) \/ AwaitReceipt(t)

Next ==
  \/ \E i \in Intent : \/ \E at \in StartAt : AddIntent(i, at)
                       \/ CancelIntent(i)
                       \/ LosePolicy(i)
  \/ \E t \in Ticker : StartTick(t) \/ Work(t)
  \/ Crash
  \/ \E k \in DOMAIN ops : Mine(k) \/ Drop(k) \/ Index(k)
  \/ \E a \in Account : OwnerOperation(a)
  \/ PassTime

\* setInterval keeps starting ticks, an await is answered or times out, and the
\* bundler indexes what was mined.
Fairness ==
  /\ \A t \in Ticker : WF_vars(StartTick(t)) /\ WF_vars(Work(t))
  /\ \A k \in OpId : WF_vars(k \in DOMAIN ops /\ Index(k))

Spec == Init /\ [][Next]_vars /\ Fairness

-----------------------------------------------------------------------------
(* Properties *)

Limit(i) == IF Interval[i] = 0 THEN 1 ELSE MaxRuns[i]

\* autopilot-executor.ts: "NEVER auto-retry an unconfirmed op, or a recurring
\* intent could double-pay an op that actually mined".  No intent is paid more
\* often than it was scheduled for.
AtMostMaxRuns == \A i \in Intent : paid[i] <= Limit(i)

\* As long as no tick overlaps another and no crash cuts one off, every payment
\* that was mined is counted, but for one: that of an operation somebody still
\* waits for, or of a run that failed without an answer.  As runs are counted up
\* to the limit, no intent is overpaid.
InHand(i) == \E t \in Ticker : tick[t].cur # NoIntent /\ tick[t].cur.id = i

AtMostOneUncounted ==
  ~disturbed => \A i \in DOMAIN store :
    paid[i] - store[i].runsCompleted <=
      IF InHand(i) \/ store[i].status \in {"confirming", "failed"} THEN 1 ELSE 0

\* Overlaps and crashes or not, a run is counted only when a payment of its own
\* was mined: lost and stale updates of the file lose counts, they never
\* invent one.
CountedOnlyIfPaid ==
  \A i \in DOMAIN store : store[i].runsCompleted <= paid[i]

\* Completed and failed intents are never started again: no late answer brings
\* one back (a cancelled one can come back, see README).
TerminalStays ==
  [][~disturbed' => \A i \in DOMAIN store :
       store[i].status \in {"completed", "failed"} => store'[i].status = store[i].status]_vars

Awaits(i, k) ==
  i \in DOMAIN store /\ store[i].status = "confirming" /\ store[i].pending = k

\* A payment the chain has settled does not stay confirming: some later tick
\* reads its receipt, whatever other ticks, crashes and cancellations do.
SettledIsNoticed ==
  \A i \in Intent, k \in OpId :
    (Awaits(i, k) /\ ops[k].state \in {"mined", "reverted"}) ~> ~Awaits(i, k)
================================================================================
