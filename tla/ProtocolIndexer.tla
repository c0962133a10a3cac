---------------------------- MODULE ProtocolIndexer ----------------------------
(***************************************************************************)
(* The protocol indexer of the paymaster service (indexer/*.ts): a polling *)
(* pass that reads a range of confirmed blocks with four collectors, puts  *)
(* the events in a bounded file and then moves a cursor kept in another    *)
(* file, and the aggregation of the file into the statistics the API       *)
(* serves.  The chain may replace its last blocks, the process may die     *)
(* between the two writes or inside one, and reads may fail.               *)
(***************************************************************************)
EXTENDS Integers, FiniteSets, Sequences, FiniteSetsExt, Functions

CONSTANTS
  ChainCall,      \* what may be mined: [what, account, policy, amount, until]
  NoCall,         \* an empty block
  NoName,         \* an event without account or policy
  Confirmations,  \* INDEXER_CONFIRMATION_BLOCKS
  MaxRange,       \* INDEXER_MAX_BLOCK_RANGE
  EventsMax,      \* PROTOCOL_EVENTS_MAX
  ReorgDepth,     \* how many blocks a reorganisation replaces at most
  MaxHeight,      \* bound on blocks
  MaxResolutions, \* bound on recorded domain resolutions
  MaxIndexFaults  \* bound on failed reads, guessed timestamps and crashes

ASSUME IndexerAssumption ==
  /\ {Confirmations, EventsMax, ReorgDepth, MaxHeight, MaxResolutions, MaxIndexFaults} \subseteq Nat
  /\ MaxRange \in Nat \ {0}
  /\ ReorgDepth <= Confirmations

\* Amounts are numbers, a policy is created once (its id hashes a nonce), and
\* both its logs carry the account it was created for.
ASSUME ChainCallAssumption ==
  /\ NoCall \notin ChainCall
  /\ \A call \in ChainCall : call.amount \in Nat
  /\ \A c, d \in ChainCall : c.what = "createPolicy" /\ c.policy = d.policy =>
       /\ d.what = "createPolicy" => c = d
       /\ d.what = "revokePolicy" => c.account = d.account

VARIABLES
  blocks,       \* the chain: what each block holds, block 1 the start block
  events,       \* the store file: a set of QevieProtocolEvent
  cursor,       \* the cursor file: last block, 0 when there is none
  pass,         \* the locals of runIndexerOnce
  resolutions,  \* domain resolutions recorded
  guessed,      \* history: a timestamp was taken from the clock
  lost,         \* history: the store file was cut off while it was written
  overflowed,   \* history: events were dropped to keep the store bounded
  indexFaults

fileVars == <<events, overflowed>>
indexerVars == <<blocks, fileVars, cursor, pass, resolutions, guessed, lost, indexFaults>>

\* The logs of a call, by the name of their event.  execute, executeSession and
\* executeSessionBatch all go through _call, which emits Executed.
LogsOf(call) ==
  CASE call.what \in {"send", "approve"} -> {"Executed"}
    [] call.what \in {"sessionSend", "sessionApprove"} -> {"Executed", "SessionExecution"}
    [] call.what = "sessionBatch" -> {"Executed", "SessionBatchExecution"}
    [] call.what = "batchPay" -> {"Executed", "BatchPaid"}
    [] call.what = "sessionBatchPay" -> {"Executed", "SessionExecution", "BatchPaid"}
    [] call.what = "payRequest" -> {"Executed", "RequestPaid"}
    [] call.what = "charge" -> {"Executed", "Charged"}
    [] call.what = "createPolicy" -> {"Executed", "AgentPolicyCreated"}
    [] call.what = "revokePolicy" -> {"Executed", "AgentPolicyRevoked"}
    [] call.what = "guardianRevoke" -> {"AgentPolicyGuardianRevoked"}
    [] call.what = "sponsored" -> {"ModeBSponsored"}
    [] call.what = "gasCharged" -> {"ModeACharge"}
    [] call.what = "receipt" -> {"ReceiptCreated"}
    [] OTHER -> {}

\* Whose calldata is a transfer of the token: what the call pays itself.
TransferCall(call) == call.what \in {"send", "sessionSend", "sessionBatch"} /\ call.amount > 0
PayingCall(call) == TransferCall(call) \/
  call.what \in {"batchPay", "sessionBatchPay", "payRequest", "charge"}

\* eventId: transaction hash and log index, here the call and the event's name.
Event(type, log, call, account, amount) ==
  [id |-> <<log, call>>, type |-> type, status |-> "confirmed", account |-> account,
   policy |-> call.policy, amount |-> amount, until |-> call.until]

PaymentEvent(log, call) ==
  CASE log = "Executed" /\ TransferCall(call) ->
         {Event("PAYMENT_EXECUTED", log, call, call.account, call.amount)}
    [] log = "SessionExecution" ->
         {Event("SESSION_EXECUTED", log, call, call.account,
                IF TransferCall(call) THEN call.amount ELSE 0)}
    [] log = "SessionBatchExecution" ->
         {Event("SESSION_BATCH_EXECUTED", log, call, call.account, 0)}
    [] log = "BatchPaid" -> {Event("BATCH_EXECUTED", log, call, call.account, call.amount)}
    [] log = "RequestPaid" -> {Event("REQUEST_SETTLED", log, call, call.account, call.amount)}
    [] log = "Charged" -> {Event("SUBSCRIPTION_EXECUTED", log, call, call.account, call.amount)}
    [] OTHER -> {}

\* A guardian's revocation carries no account.
PolicyEvent(log, call) ==
  CASE log = "AgentPolicyCreated" -> {Event("POLICY_CREATED", log, call, call.account, 0)}
    [] log = "AgentPolicyRevoked" -> {Event("POLICY_REVOKED", log, call, call.account, 0)}
    [] log = "AgentPolicyGuardianRevoked" -> {Event("GUARDIAN_REVOKED", log, call, NoName, 0)}
    [] OTHER -> {}

PaymasterEvent(log, call) ==
  CASE log = "ModeBSponsored" -> {Event("PAYMASTER_SPONSORED", log, call, call.account, 0)}
    [] log = "ModeACharge" -> {Event("QUSDC_GAS_CHARGED", log, call, call.account, call.amount)}
    [] OTHER -> {}

ReceiptEvent(log, call) ==
  IF log = "ReceiptCreated" THEN {Event("RECEIPT_CREATED", log, call, call.account, call.amount)}
  ELSE {}

\* What one collector finds of a call, in the order the pass runs them.
Found(source, log, call) ==
  CASE source = 1 -> PolicyEvent(log, call)
    [] source = 2 -> PaymentEvent(log, call)
    [] source = 3 -> PaymasterEvent(log, call)
    [] source = 4 -> ReceiptEvent(log, call)

FoundInBlock(source, b) ==
  IF blocks[b] = NoCall THEN {}
  ELSE UNION {Found(source, log, blocks[b]) : log \in LogsOf(blocks[b])}
-----------------------------------------------------------------------------
Resting == [pc |-> "idle", from |-> 0, to |-> 0, source |-> 1, raw |-> {}]

IndexerInit ==
  /\ blocks = << >>
  /\ events = {}
  /\ cursor = 0
  /\ pass = Resting
  /\ resolutions = 0
  /\ guessed = FALSE
  /\ lost = FALSE
  /\ overflowed = FALSE
  /\ indexFaults = 0

IndexFault == indexFaults < MaxIndexFaults /\ indexFaults' = indexFaults + 1

\* A block's timestamp is its height, the clock never behind the last block.
Clock == Len(blocks)

Unmined == ChainCall \ {blocks[b] : b \in DOMAIN blocks}

\* A policy is revoked after it was created.
Ordered(chain) ==
  \A b \in DOMAIN chain : chain[b] # NoCall /\ chain[b].what \in {"revokePolicy", "guardianRevoke"} =>
    \E a \in 1..(b - 1) : chain[a] # NoCall /\ chain[a].what = "createPolicy" /\ chain[a].policy = chain[b].policy

MineBlock ==
  /\ Len(blocks) < MaxHeight
  /\ \E call \in Unmined \cup {NoCall} : blocks' = Append(blocks, call)
  /\ Ordered(blocks')
  /\ UNCHANGED <<fileVars, cursor, pass, resolutions, guessed, lost, indexFaults>>

\* The last blocks are replaced by as many: their calls change places or go
\* back to the mempool.
Reorganise ==
  \E d \in 1..ReorgDepth :
    /\ d < Len(blocks)
    /\ \E new \in [Len(blocks) - d + 1 .. Len(blocks) -> ChainCall \cup {NoCall}] :
         LET next == [b \in DOMAIN blocks |-> IF b > Len(blocks) - d THEN new[b] ELSE blocks[b]] IN
         /\ \A a, b \in DOMAIN blocks : a # b /\ next[a] = next[b] => next[a] = NoCall
         /\ Ordered(next)
         /\ blocks' = next
    /\ UNCHANGED <<fileVars, cursor, pass, resolutions, guessed, lost, indexFaults>>

SafeHead == Len(blocks) - Confirmations

\* The range of a pass, from the block after the cursor.
RangeEnd(from) == IF SafeHead - from + 1 > MaxRange THEN from + MaxRange - 1 ELSE SafeHead

BeginPass ==
  /\ pass.pc = "idle"
  /\ cursor + 1 <= SafeHead
  /\ pass' = [Resting EXCEPT !.pc = "collect", !.from = cursor + 1, !.to = RangeEnd(cursor + 1)]
  /\ UNCHANGED <<blocks, fileVars, cursor, resolutions, guessed, lost, indexFaults>>

\* One collector's getLogs over the range, against the chain as it is by then.
Collect ==
  /\ pass.pc = "collect"
  /\ pass' = [pass EXCEPT
       !.raw = @ \cup UNION {{[event |-> e, block |-> b] : e \in FoundInBlock(pass.source, b)} :
                                b \in pass.from..pass.to},
       !.source = IF @ = 4 THEN 1 ELSE @ + 1,
       !.pc = IF pass.source = 4 THEN "stamp" ELSE "collect"]
  /\ UNCHANGED <<blocks, fileVars, cursor, resolutions, guessed, lost, indexFaults>>

\* A read that fails ends the pass and leaves the cursor where it is.
PassFailsUnended ==
  /\ pass.pc = "collect"
  /\ IndexFault
  /\ pass' = [pass EXCEPT !.pc = "failed"]
  /\ UNCHANGED <<blocks, fileVars, cursor, resolutions, guessed, lost>>

PassFails ==
  /\ pass.pc = "collect"
  /\ IndexFault
  /\ pass' = Resting
  /\ UNCHANGED <<blocks, fileVars, cursor, resolutions, guessed, lost>>

Stamped(r, time) ==
  [id |-> r.event.id, type |-> r.event.type, status |-> r.event.status,
   account |-> r.event.account, policy |-> r.event.policy, amount |-> r.event.amount,
   until |-> r.event.until, timestamp |-> time, block |-> r.block]

Before(a, b) == a.timestamp < b.timestamp \/ (a.timestamp = b.timestamp /\ a.block < b.block)

\* The newest EventsMax of a set; events that tie stay in the order of the file,
\* which is left open.
OldestOf(all) ==
  {kept \in SUBSET all :
     /\ Cardinality(kept) = Min({Cardinality(all), EventsMax})
     /\ \A a \in kept, b \in all \ kept : ~Before(b, a)}
NewestOf(all) ==
  {kept \in SUBSET all :
     /\ Cardinality(kept) = Min({Cardinality(all), EventsMax})
     /\ \A a \in kept, b \in all \ kept : ~Before(a, b)}

UpsertEvents(incoming) ==
  LET merged == {e \in events : \A i \in incoming : i.id # e.id} \cup incoming IN
  /\ events' \in NewestOf(merged)
  /\ overflowed' = (overflowed \/ Cardinality(merged) > EventsMax)

\* withTimestamps and upsertEvents: a block that cannot be read gives its events
\* the time of the clock.
StoreEvents ==
  /\ pass.pc = "stamp"
  /\ \/ /\ UpsertEvents({Stamped(r, r.block) : r \in pass.raw})
        /\ UNCHANGED <<guessed, indexFaults>>
     \/ \E unread \in {r.block : r \in pass.raw} :
        /\ IndexFault
        /\ guessed' = TRUE
        /\ UpsertEvents({Stamped(r, IF r.block = unread THEN Clock ELSE r.block) : r \in pass.raw})
  /\ pass' = [pass EXCEPT !.pc = "stored", !.raw = {}]
  /\ UNCHANGED <<blocks, cursor, resolutions, lost>>

SetCursor ==
  /\ pass.pc = "stored"
  /\ cursor' = pass.to
  /\ pass' = Resting
  /\ UNCHANGED <<blocks, fileVars, resolutions, guessed, lost, indexFaults>>

\* The process dies, possibly inside a write: the file is then unreadable and
\* read as empty.
CrashIndexer ==
  /\ pass.pc # "idle"
  /\ IndexFault
  /\ pass' = Resting
  /\ \/ UNCHANGED <<events, cursor, lost>>
     \/ pass.pc = "stamp" /\ events' = {} /\ lost' = TRUE /\ UNCHANGED cursor
     \/ pass.pc = "stored" /\ cursor' = 0 /\ UNCHANGED <<events, lost>>
  /\ UNCHANGED <<blocks, overflowed, resolutions, guessed>>

\* recordDomainResolution, called by the /resolve-recipient route while a pass
\* is at one of its awaits.
RecordDomainResolution(ok) ==
  /\ resolutions < MaxResolutions
  /\ resolutions' = resolutions + 1
  /\ UpsertEvents({[id |-> <<"domain", resolutions>>,
        type |-> IF ok THEN "DOMAIN_RESOLVED" ELSE "DOMAIN_RESOLUTION_FAILED",
        status |-> IF ok THEN "confirmed" ELSE "failed", account |-> NoName, policy |-> NoName,
        amount |-> 0, until |-> 0, timestamp |-> Clock, block |-> 0]})
  /\ UNCHANGED <<blocks, cursor, pass, guessed, lost, indexFaults>>

PassStep == BeginPass \/ Collect \/ StoreEvents \/ SetCursor

IndexerNext ==
  \/ MineBlock
  \/ Reorganise
  \/ PassStep
  \/ PassFails
  \/ CrashIndexer
  \/ \E ok \in BOOLEAN : RecordDomainResolution(ok)

\* The interval timer runs on and the reads of a pass return.
IndexerSpec == IndexerInit /\ [][IndexerNext]_indexerVars /\ WF_indexerVars(PassStep)
-----------------------------------------------------------------------------
\* Aggregation, over a set of stored events.
VolumeType == {"PAYMENT_EXECUTED", "SESSION_EXECUTED", "BATCH_EXECUTED",
               "REQUEST_SETTLED", "SUBSCRIPTION_EXECUTED"}
SumAmounts(es) == FoldFunction(LAMBDA x, y : x + y, 0, [e \in es |-> e.amount])
SumVolume(es) == SumAmounts({e \in es : e.status = "confirmed" /\ e.type \in VolumeType})
Count(es, type) == Cardinality({e \in es : e.type = type /\ e.status = "confirmed"})

\* foldPolicies: a policy is what its creation says, revoked if its owner's
\* revocation is among the events, before or after the creation.
FoldPolicies(es) ==
  LET created == {e \in es : e.type = "POLICY_CREATED"}
      gone == {e \in es : e.type = "POLICY_REVOKED"} IN
  {[policy |-> c.policy, until |-> c.until, revoked |-> \E r \in gone : r.policy = c.policy] :
     c \in created}
  \cup {[policy |-> r.policy, until |-> 0, revoked |-> TRUE] :
     r \in {g \in gone : \A c \in created : c.policy # g.policy}}

ExpiredBy(p, now) == ~p.revoked /\ p.until # 0 /\ p.until <= now
ClassifyPolicies(ps, now) ==
  [confirmed |-> ps, revoked |-> {p \in ps : p.revoked}, expired |-> {p \in ps : ExpiredBy(p, now)},
   active |-> {p \in ps : ~p.revoked /\ ~ExpiredBy(p, now)}]
ActivePolicies(es, now) == {p.policy : p \in ClassifyPolicies(FoldPolicies(es), now).active}

Autopilot(es) == Count(es, "SESSION_EXECUTED") + Count(es, "SESSION_BATCH_EXECUTED")
Payments(es) == Count(es, "PAYMENT_EXECUTED") + Count(es, "SESSION_EXECUTED") +
  Count(es, "BATCH_EXECUTED") + Count(es, "REQUEST_SETTLED") + Count(es, "SUBSCRIPTION_EXECUTED")

AggregateProtocolStats(es, now, day) ==
  [totalVolume |-> SumVolume(es),
   volume24h |-> SumVolume({e \in es : e.timestamp >= now - day}),
   volume7d |-> SumVolume({e \in es : e.timestamp >= now - 7 * day}),
   autopilotExecutions |-> Autopilot(es),
   totalPayments |-> Payments(es),
   policies |-> ClassifyPolicies(FoldPolicies(es), now),
   guardianVetoes |-> Count(es, "GUARDIAN_REVOKED"),
   sponsoredActions |-> Count(es, "PAYMASTER_SPONSORED"),
   qusdcGasRecovered |-> SumAmounts({e \in es : e.type = "QUSDC_GAS_CHARGED"}),
   receiptsCreated |-> Count(es, "RECEIPT_CREATED"),
   resolutions |-> Cardinality({e \in es : e.type \in {"DOMAIN_RESOLVED", "DOMAIN_RESOLUTION_FAILED"}})]

AggregateMyStats(es, account, now) ==
  LET mine == {e \in es : e.account = account} IN
  [activePolicies |-> ActivePolicies(mine, now), autopilotExecutions |-> Autopilot(mine),
   qusdcVolume |-> SumVolume(mine), blockedActions |-> Count(mine, "GUARDIAN_REVOKED")]

-----------------------------------------------------------------------------
(***************************************************************************)
(* What the file holds has happened: an event of a call stays in the store *)
(* only while its block is part of the chain, whatever reorganisation came *)
(* between the reading of the head, the logs and the timestamps.           *)
(***************************************************************************)
IndexedIsFinal ==
  \A e \in events : e.block > 0 =>
    e.block <= SafeHead /\ e.id[2] = blocks[e.block] /\ e.id[1] \in LogsOf(blocks[e.block])

(***************************************************************************)
(* Behind the cursor nothing is missing: as long as the store had room and *)
(* its file was not cut off, every event the collectors look for in the    *)
(* blocks the cursor has passed is there, through failed passes, a crash   *)
(* between the two files and a lost cursor.                                *)
(***************************************************************************)
NothingMissed ==
  ~lost /\ ~overflowed =>
    \A b \in 1..cursor, source \in 1..4 : \A f \in FoundInBlock(source, b) :
      \E e \in events : e.id = f.id

(***************************************************************************)
(* A policy its owner revoked is not shown as active once the pass is      *)
(* behind the revocation: dropping the oldest events never drops the       *)
(* revocation and keeps the creation, unless a timestamp was guessed too.  *)
(***************************************************************************)
RevokedNeverActive ==
  ~lost /\ ~(guessed /\ overflowed) =>
    \A b \in 1..cursor : blocks[b] # NoCall /\ blocks[b].what = "revokePolicy" =>
      blocks[b].policy \notin ActivePolicies(events, Clock)

\* What an account is told of itself is part of what is told of all.
OwnStatsWithinAll ==
  LET all == AggregateProtocolStats(events, Clock, 1) IN
  \A account \in {e.account : e \in events} :
    LET own == AggregateMyStats(events, account, Clock) IN
    /\ own.qusdcVolume <= all.totalVolume
    /\ own.autopilotExecutions <= all.autopilotExecutions
    /\ own.activePolicies \subseteq {p.policy : p \in all.policies.active}

\* The index says what the chain says: nothing that has not happened, everything
\* that has, and no policy that is gone.
IndexIsExact == IndexedIsFinal /\ NothingMissed /\ RevokedNeverActive /\ OwnStatsWithinAll

(***************************************************************************)
(* A confirmed block is indexed in the end: with finitely many failures    *)
(* the cursor passes every block that became final.                        *)
(***************************************************************************)
BlocksAreIndexed == \A b \in 1..MaxHeight : (SafeHead >= b) ~> (cursor >= b)
=============================================================================
