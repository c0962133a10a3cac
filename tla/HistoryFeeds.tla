------------------------------ MODULE HistoryFeeds ------------------------------
(***************************************************************************)
(* What the app reads back from the chain (history.ts): the requests and   *)
(* the batches of an account and the feeds.  A scan reads the logs of a    *)
(* window of blocks page by page; all scans share a gate of log queries.   *)
(* Logs up to the block a scan starts from do not change, so what a query  *)
(* returns does not depend on when it runs; the records of requests are    *)
(* read afterwards, each at its own time.                                  *)
(***************************************************************************)
EXTENDS Integers, Sequences, FiniteSets, Functions

CONSTANTS
  Address,         \* addresses
  Anyone,          \* the payer of an open request
  Tracked,         \* smart account and owner of the app
  Me,              \* the smart account
  HistoryWindow,   \* HISTORY_BLOCK_WINDOW
  FeedWindow,      \* FEED_BLOCK_WINDOW
  LogSpan,         \* MAX_LOG_BLOCK_SPAN
  LogSlots,        \* MAX_CONCURRENT_LOG_QUERIES
  FeedSize,        \* length of a feed
  MaxBlocks, MaxHistoryScans, MaxQueryFaults   \* bounds

ASSUME FeedAssumption ==
  /\ Tracked \subseteq Address /\ IsFiniteSet(Tracked) /\ Me \in Tracked /\ Anyone \notin Address
  /\ {HistoryWindow, FeedWindow, LogSpan, MaxBlocks, MaxHistoryScans, MaxQueryFaults} \subseteq Nat
  /\ {LogSlots, FeedSize} \subseteq Nat \ {0}

VARIABLES
  logs,       \* block -> its events, in order
  reqs,       \* the request contract: [requestor, payer, status]
  scan,       \* runs of the functions of history.ts
  waiters,    \* logQueryWaiters: the scan of each
  woken,      \* scan -> its queries that have been woken and have not gone on
  active,     \* scan -> its queries in flight
  queryFaults

feedVars == <<logs, reqs, scan, waiters, woken, active, queryFaults>>

FeedInit ==
  /\ logs = << >>
  /\ reqs = << >>
  /\ scan = << >>
  /\ waiters = << >>
  /\ woken = << >>
  /\ active = << >>
  /\ queryFaults = 0
-----------------------------------------------------------------------------
Transfer(from, to) == [kind |-> "transfer", from |-> from, to |-> to, req |-> 0]
Mentions(kind, from, to, r) == [kind |-> kind, from |-> from, to |-> to, req |-> r]

Mine(events) ==
  /\ Len(logs) < MaxBlocks
  /\ logs' = Append(logs, events)
  /\ UNCHANGED <<scan, waiters, woken, active, queryFaults>>

\* PaymentRequest: createRequest, payRequest, cancelRequest
RequestCreated(requestor, payer) ==
  /\ Mine(<<Mentions("created", requestor, payer, Len(reqs) + 1)>>)
  /\ reqs' = Append(reqs, [requestor |-> requestor, payer |-> payer, status |-> "unpaid"])

RequestPaid(r, payer) ==
  /\ reqs[r].status = "unpaid"
  /\ reqs[r].payer \in {payer, Anyone}
  /\ Mine(<<Transfer(payer, reqs[r].requestor), Mentions("paid", payer, reqs[r].requestor, r)>>)
  /\ reqs' = [reqs EXCEPT ![r].status = "paid"]

RequestCancelled(r) ==
  /\ reqs[r].status = "unpaid"
  /\ Mine(<<Mentions("cancelled", reqs[r].requestor, reqs[r].payer, r)>>)
  /\ reqs' = [reqs EXCEPT ![r].status = "cancelled"]

\* A payment, and a batch of one with its event.
Paid(from, to, batch) ==
  /\ Mine(<<Transfer(from, to)>> \o
          (IF batch THEN <<Mentions("batch", from, to, 0)>> ELSE << >>))
  /\ UNCHANGED reqs
-----------------------------------------------------------------------------
\* Filters of the queries of each phase: an event, the argument that must be one
\* of a set, and the set.
Filters(kind, phase) ==
  CASE <<kind, phase>> = <<"requests", 1>> -> {<<"created", arg, {Me}>> : arg \in {"from", "to"}}
    [] <<kind, phase>> = <<"requests", 2>> -> {<<e, "from", Address>> : e \in {"paid", "cancelled"}}
    [] <<kind, phase>> = <<"batches", 1>> -> {<<"batch", "from", {Me}>>}
    [] <<kind, phase>> = <<"wallet", 1>> -> {<<"transfer", arg, {a}>> : arg \in {"from", "to"}, a \in Tracked}
    [] <<kind, phase>> = <<"wallet", 2>> ->
         {<<e, "from", {a}>> : e \in {"batch", "created", "paid"}, a \in Tracked}
           \cup {<<"created", "to", {a}>> : a \in Tracked}
    [] <<kind, phase>> = <<"global", 1>> ->
         {<<e, "from", Address>> : e \in {"created", "paid", "batch"}}
    [] OTHER -> {}

\* Mutant: a page starts at the last block of the one before, which is asked for
\* again, and the last page may be left out.
BlockRangesShort(from, to) ==
  {<<s, s + LogSpan>> : s \in {b \in from..to : (b - from) % (LogSpan + 1) = 0 /\ b + LogSpan <= to}}

\* blockRanges
BlockRanges(from, to) ==
  {<<s, IF s + LogSpan < to THEN s + LogSpan ELSE to>> :
     s \in {b \in from..to : (b - from) % (LogSpan + 1) = 0}}

\* Where a log is: its block and its index there.
Positions == {p \in (1..Len(logs)) \X (1..2) : p[2] <= Len(logs[p[1]])}
LogAt(p) == logs[p[1]][p[2]]

\* getPagedTransferLogs, getPagedContractEvents for one filter
Paged(filter, s) ==
  {p \in Positions : /\ LogAt(p).kind = filter[1]
                     /\ LogAt(p)[filter[2]] \in filter[3]
                     /\ \E range \in BlockRanges(scan[s].from, scan[s].latest) :
                          p[1] \in range[1]..range[2]}

\* The logs of a phase; a log that several filters give is kept once.
Found(s, phase) == UNION {Paged(filter, s) : filter \in Filters(scan[s].kind, phase)}

Queries(s, phase) ==
  Cardinality(Filters(scan[s].kind, phase))
    * Cardinality(BlockRanges(scan[s].from, scan[s].latest))
-----------------------------------------------------------------------------
InFlight(a) == FoldFunction(LAMBDA x, y : x + y, 0, a)

\* withLogQuerySlot for the n queries of a phase, which are made at once.
Issue(s, n) ==
  LET free == LogSlots - InFlight(active)
      now == IF free <= 0 THEN 0 ELSE IF n < free THEN n ELSE free IN
  /\ active' = [active EXCEPT ![s] = @ + now]
  /\ waiters' = waiters \o [i \in 1..(n - now) |-> s]

\* getBlockNumber has answered, and the first queries are made.  scan is its
\* place in the sequences.
StartScan(kind) ==
  LET window == IF kind \in {"requests", "batches"} THEN HistoryWindow ELSE FeedWindow
      s == Len(scan) + 1 IN
  /\ Len(scan) < MaxHistoryScans
  /\ scan' = Append(scan, [kind |-> kind, latest |-> Len(logs), phase |-> 0, toGo |-> 0,
       from |-> IF Len(logs) > window THEN Len(logs) - window ELSE 0, stage |-> "next",
       read |-> << >>, then |-> [r \in DOMAIN reqs |-> reqs[r].status]])
  /\ active' = Append(active, 0)
  /\ woken' = Append(woken, 0)
  /\ UNCHANGED <<logs, reqs, waiters, queryFaults>>

\* The next phase, when the last is through: queries, then the records of the
\* requests that were found.
NextPhase(s) ==
  LET phase == scan[s].phase + 1 IN
  /\ scan[s].stage = "next"
  /\ IF Filters(scan[s].kind, phase) # {}
          /\ ~(scan[s].kind = "requests" /\ phase = 2 /\ Found(s, 1) = {})
       THEN /\ Issue(s, Queries(s, phase))
            /\ scan' = [scan EXCEPT ![s].phase = phase, ![s].stage = "queries",
                                    ![s].toGo = Queries(s, phase)]
       ELSE /\ scan' = [scan EXCEPT ![s].stage = IF scan[s].kind = "requests" THEN "records" ELSE "shown"]
            /\ UNCHANGED <<waiters, active>>
  /\ UNCHANGED <<logs, reqs, woken, queryFaults>>

\* Mutant: a query that fails wakes nobody.
WakeNextIfOk(ok) ==
  IF waiters = << >> \/ ~ok THEN UNCHANGED <<waiters, woken>>
  ELSE /\ woken' = [woken EXCEPT ![Head(waiters)] = @ + 1]
       /\ waiters' = Tail(waiters)

\* The end of withLogQuerySlot: the first of those that wait is woken.
WakeNext(ok) ==
  IF waiters = << >> THEN UNCHANGED <<waiters, woken>>
  ELSE /\ woken' = [woken EXCEPT ![Head(waiters)] = @ + 1]
       /\ waiters' = Tail(waiters)

\* A query that was woken goes on, without looking at the count again.
GoOn(s) ==
  /\ woken[s] > 0
  /\ woken' = [woken EXCEPT ![s] = @ - 1]
  /\ active' = [active EXCEPT ![s] = @ + 1]
  /\ UNCHANGED <<logs, reqs, scan, waiters, queryFaults>>

\* A query answers, or fails and fails its scan, whose other queries go on.
QueryEnds(s, ok) ==
  /\ active[s] > 0
  /\ ok \/ queryFaults < MaxQueryFaults
  /\ active' = [active EXCEPT ![s] = @ - 1]
  /\ queryFaults' = queryFaults + (IF ok THEN 0 ELSE 1)
  /\ WakeNext(ok)
  /\ scan' = [scan EXCEPT ![s].toGo = @ - 1,
       ![s].stage = CASE scan[s].stage # "queries" -> @
                      [] ~ok -> "failed"
                      [] scan[s].toGo = 1 -> "next"
                      [] OTHER -> @]
  /\ UNCHANGED <<logs, reqs>>

Seen(s, event) == {LogAt(p).req : p \in {q \in Found(s, 2) : LogAt(q).kind = event}}

\* The status of a request: its events in the window, else the contract now.
StatusOf(s, r) ==
  IF r \in Seen(s, "cancelled") THEN "cancelled"
  ELSE IF r \in Seen(s, "paid") THEN "paid" ELSE reqs[r].status

Listed(s) == {LogAt(p).req : p \in Found(s, 1)}

\* getRequest for one of the requests that were found; the last ends the scan.
ReadRequest(s, r) ==
  LET read == [x \in DOMAIN scan[s].read \cup {r} |-> IF x = r THEN StatusOf(s, r) ELSE scan[s].read[x]] IN
  /\ scan[s].stage = "records"
  /\ r \in Listed(s) \ DOMAIN scan[s].read
  /\ scan' = [scan EXCEPT ![s].read = read,
                          ![s].stage = IF DOMAIN read = Listed(s) THEN "shown" ELSE @]
  /\ UNCHANGED <<logs, reqs, waiters, woken, active, queryFaults>>

NothingListed(s) ==
  /\ scan[s].stage = "records" /\ Listed(s) = {}
  /\ scan' = [scan EXCEPT ![s].stage = "shown"]
  /\ UNCHANGED <<logs, reqs, waiters, woken, active, queryFaults>>

\* Transfers, then requests, payments of requests and batches, which a stable
\* sort leaves in this order within a block; the newest FeedSize of them.
Rank(p) == CASE LogAt(p).kind = "transfer" -> 0 [] LogAt(p).kind = "created" -> 1
             [] LogAt(p).kind = "paid" -> 2 [] OTHER -> 3

Newer(p, q) == p[1] > q[1] \/ (p[1] = q[1] /\ Rank(p) < Rank(q))

Items(s) == Found(s, 1) \cup Found(s, 2)

Feed(s) == {p \in Items(s) : Cardinality({q \in Items(s) : Newer(q, p)}) < FeedSize}

FeedNext ==
  \/ \E requestor \in Address, payer \in Address \cup {Anyone} : RequestCreated(requestor, payer)
  \/ \E r \in DOMAIN reqs : RequestCancelled(r) \/ \E payer \in Address : RequestPaid(r, payer)
  \/ \E from, to \in Address, batch \in BOOLEAN : Paid(from, to, batch)
  \/ \E kind \in {"requests", "batches", "wallet", "global"} : StartScan(kind)
  \/ \E s \in DOMAIN scan :
       \/ NextPhase(s) \/ GoOn(s) \/ NothingListed(s)
       \/ \E ok \in BOOLEAN : QueryEnds(s, ok)
       \/ \E r \in DOMAIN reqs : ReadRequest(s, r)

FeedSpec == FeedInit /\ [][FeedNext]_feedVars
-----------------------------------------------------------------------------
(***************************************************************************)
(* No slot of the gate is lost (history.ts:29-46): while a query waits,    *)
(* as many as the gate lets through are in flight or have been woken and   *)
(* are about to be, whatever failed and whichever scans it belonged to; so *)
(* a scan is never stuck behind a gate with free slots.                    *)
(***************************************************************************)
NoSlotLost == waiters # << >> => InFlight(active) + InFlight(woken) >= LogSlots

\* The logs of the window of a scan.
LogsOfWindow(s) == {p \in Positions : p[1] \in scan[s].from..scan[s].latest}

\* What belongs in the feed of a scan.
Belongs(s, p) ==
  LET log == LogAt(p) IN
  IF scan[s].kind = "global" THEN log.kind \in {"created", "paid", "batch"}
  ELSE \/ log.kind = "transfer" /\ {log.from, log.to} \cap Tracked # {}
       \/ log.kind = "created" /\ {log.from, log.to} \cap Tracked # {}
       \/ log.kind \in {"batch", "paid"} /\ log.from \in Tracked

(***************************************************************************)
(* A scan that is shown has read its window whole, through pages, gate and *)
(* retries of other scans.  The requests: each one the account made or was *)
(* asked for in the window is there, with a status it had when the scan    *)
(* started or has had since.  A feed: the newest FeedSize of the logs that *)
(* name the account, and more only where the last ones tie.                *)
(***************************************************************************)
ShownScanIsWhole ==
  \A s \in DOMAIN scan : scan[s].stage = "shown" =>
    CASE scan[s].kind = "requests" ->
           \A p \in LogsOfWindow(s) :
             LogAt(p).kind = "created" /\ Me \in {LogAt(p).from, LogAt(p).to} =>
               LET r == LogAt(p).req IN
               /\ r \in DOMAIN scan[s].read
               /\ scan[s].read[r] \in {scan[s].then[r], reqs[r].status}
      [] scan[s].kind = "batches" ->
           Found(s, 1) = {p \in LogsOfWindow(s) : LogAt(p).kind = "batch" /\ LogAt(p).from = Me}
      [] OTHER ->
           LET all == {p \in LogsOfWindow(s) : Belongs(s, p)} IN
           /\ Feed(s) \subseteq all
           /\ Cardinality(Feed(s)) >= IF Cardinality(all) < FeedSize THEN Cardinality(all) ELSE FeedSize
           /\ \A p \in Feed(s), q \in all \ Feed(s) : p[1] >= q[1]
=============================================================================
