------------------------------- MODULE LinkHistory -------------------------------
(***************************************************************************)
(* Payment links and the history page of the app (lib/history.ts,          *)
(* History.tsx, PaymentLinks.tsx): the links kept in localStorage, the     *)
(* scans that look for the transfer that paid each of them, and the page   *)
(* that starts a scan when a tab is opened, gives up waiting after 25      *)
(* seconds and drops what a tab that was left had asked for.               *)
(***************************************************************************)
EXTENDS Integers, Sequences, FiniteSets

CONSTANTS
  Detail,        \* the detail tabs: of "links", "requests" and "batches"
  Wallet,        \* wallets that may be connected
  NoWallet,      \* none is
  LinkBatch,     \* what generate() makes at once: sequences of [amount, target]
  Second,        \* milliseconds in a second of block time
  Window,        \* HISTORY_BLOCK_WINDOW, in block time
  MaxStoredLinks,\* links saveCreatedLinks keeps (200)
  ScanName,      \* names of the scans that may run at one time
  MaxLinks,      \* bound on links made
  MaxTransfers,  \* bound on transfers
  MaxMillis,     \* bound on the clock
  MaxMoves       \* bound on what the user does on the page

Tab == {"overview"} \cup Detail

ASSUME HistoryAssumption ==
  /\ "links" \in Detail /\ Detail \subseteq {"links", "requests", "batches"}
  /\ NoWallet \notin Wallet
  /\ Second \in Nat \ {0}
  /\ {Window, MaxStoredLinks, MaxLinks, MaxTransfers, MaxMillis, MaxMoves} \subseteq Nat
  /\ LinkBatch \subseteq Seq([amount : Nat, target : Wallet]) \ {<< >>}

VARIABLES
  stored,    \* the links in localStorage, newest first
  linkCount, \* links made so far
  transfers, \* transfers of the token, oldest first; a transaction is its place
  millis,    \* Date.now()
  viewer,    \* the connected wallet
  tab,       \* the open tab
  shown,     \* detail tab -> "null", or what the last scan left: "list" or "empty"
  inFlight,  \* the ref of scans in flight
  spinner,   \* tabLoading, "none" for null
  scans,     \* name -> a running scan
  moves

chainVars == <<transfers, millis>>
storeVars == <<stored, linkCount>>
pageVars == <<viewer, tab, shown, inFlight, spinner, moves>>
historyVars == <<storeVars, chainVars, pageVars, scans>>

\* A scan is the effect's call (waiting or over, its result wanted or not) and
\* the getXHistory it awaits, which runs on after a timeout.
NoScan == [pc |-> "none", detail |-> "links", wallet |-> NoWallet, links |-> << >>,
           seen |-> {}, mounted |-> FALSE, waiting |-> FALSE]

HistoryInit ==
  /\ stored = << >>
  /\ linkCount = 0
  /\ transfers = << >>
  /\ millis = 0
  /\ viewer \in Wallet
  /\ tab = "overview"
  /\ shown = [d \in Detail |-> "null"]
  /\ inFlight = {}
  /\ spinner = "none"
  /\ scans = [s \in ScanName |-> NoScan]
  /\ moves = 0

Min2(a, b) == IF a < b THEN a ELSE b

Made(batch) ==
  [i \in 1..Len(batch) |->
     [id |-> linkCount + i, amount |-> batch[i].amount, target |-> batch[i].target,
      createdAt |-> millis, status |-> "unpaid", tx |-> 0]]

\* generate() and saveCreatedLinks: the new links before the old ones, the
\* newest MaxStoredLinks kept.  An open link has no amount, here 0.
CreateLinks(batch) ==
  /\ linkCount + Len(batch) <= MaxLinks
  /\ LET all == Made(batch) \o stored IN
     stored' = SubSeq(all, 1, Min2(Len(all), MaxStoredLinks))
  /\ linkCount' = linkCount + Len(batch)
  /\ UNCHANGED <<chainVars, pageVars, scans>>

\* A transfer is mined; its block has a time in whole seconds.
TransferMined(to, amount) ==
  /\ Len(transfers) < MaxTransfers
  /\ transfers' = Append(transfers, [to |-> to, amount |-> amount, at |-> (millis \div Second) * Second])
  /\ UNCHANGED <<storeVars, millis, pageVars, scans>>

MillisPass ==
  /\ millis < MaxMillis
  /\ millis' = millis + 1
  /\ UNCHANGED <<storeVars, transfers, pageVars, scans>>
-----------------------------------------------------------------------------
Eligible(links, wallet) ==
  {i \in DOMAIN links : links[i].status = "unpaid" /\ links[i].amount > 0 /\ links[i].target = wallet}

\* The effect of a render with the wallet w, the open tab t, the tabs' lists
\* sh and the ref fl, after the clean-up of the last one: what a scan still
\* running had to say is not wanted any more, and a scan of the open tab starts
\* unless its list is there or one is in flight.  getLinkHistory reads
\* localStorage before its first await and has nothing to look for without an
\* eligible link.
Wants(w, t, sh, fl) == w # NoWallet /\ t \in Detail /\ sh[t] = "null" /\ t \notin fl

NewScan(w, t) ==
  [pc |-> IF t = "links" /\ Eligible(stored, w) = {} THEN "done" ELSE "reading",
   detail |-> t, wallet |-> w, links |-> stored, seen |-> {}, mounted |-> TRUE, waiting |-> TRUE]

Unmounted == [s \in ScanName |-> [scans[s] EXCEPT !.mounted = FALSE]]

Effect(w, t, sh, fl) ==
  IF Wants(w, t, sh, fl)
  THEN \E s \in ScanName :
         /\ scans[s].pc = "none"
         /\ scans' = [Unmounted EXCEPT ![s] = NewScan(w, t)]
         /\ inFlight' = fl \cup {t}
         /\ spinner' = t
  ELSE scans' = Unmounted /\ inFlight' = fl /\ UNCHANGED spinner

Move == moves < MaxMoves /\ moves' = moves + 1

OpenTab(t) ==
  /\ Move
  /\ t # tab
  /\ tab' = t
  /\ Effect(viewer, t, shown, inFlight)
  /\ UNCHANGED <<viewer, shown, storeVars, chainVars>>

\* Another wallet: the lists and the ref are cleared first.
Connect(w) ==
  /\ Move
  /\ w # viewer
  /\ viewer' = w
  /\ shown' = [d \in Detail |-> "null"]
  /\ Effect(w, tab, [d \in Detail |-> "null"], {})
  /\ UNCHANGED <<tab, storeVars, chainVars>>

\* getXHistory ends; nobody may be waiting for it any more.
Ended(s, pc) == IF scans[s].waiting THEN [scans[s] EXCEPT !.pc = pc] ELSE NoScan

\* The event logs and block times arrive; a transfer outside the window is not
\* among them.
InWindow(s) ==
  {n \in DOMAIN transfers : transfers[n].to = scans[s].wallet /\ transfers[n].at + Window >= millis}

ReadLogs(s) ==
  /\ scans[s].pc = "reading"
  /\ scans' = [scans EXCEPT ![s] =
       IF scans[s].detail = "links" THEN [@ EXCEPT !.pc = "match", !.seen = InWindow(s)]
       ELSE Ended(s, "done")]
  /\ UNCHANGED <<storeVars, chainVars, pageVars>>

ReadFails(s) ==
  /\ scans[s].pc = "reading"
  /\ scans' = [scans EXCEPT ![s] = Ended(s, "failed")]
  /\ UNCHANGED <<storeVars, chainVars, pageVars>>

\* The transfer a link takes of those not taken yet: the earliest of its amount
\* that is not older than the link, 0 when there is none.
PaysAnyAge(n, link) == transfers[n].amount = link.amount
Pays(n, link) == transfers[n].amount = link.amount /\ transfers[n].at >= link.createdAt

TransferFor(link, free) ==
  LET fit == {n \in free : Pays(n, link)} IN
  IF fit = {} THEN 0 ELSE CHOOSE n \in fit : \A m \in fit : n <= m

PaidWith(link, tx) == [link EXCEPT !.status = "paid", !.tx = tx]

Matched(links, wallet, free) ==
  LET taken[i \in 0..Len(links)] ==
        IF i = 0 THEN {}
        ELSE taken[i - 1] \cup
               IF i \in Eligible(links, wallet)
               THEN {TransferFor(links[i], free \ taken[i - 1])} \ {0} ELSE {}
      tx(i) == TransferFor(links[i], free \ taken[i - 1]) IN
  [i \in DOMAIN links |->
     IF i \in Eligible(links, wallet) /\ tx(i) # 0 THEN PaidWith(links[i], tx(i)) ELSE links[i]]

\* persistLinks writes the scan's whole copy.
MatchLinks(s) ==
  /\ scans[s].pc = "match"
  /\ stored' = Matched(scans[s].links, scans[s].wallet, scans[s].seen)
  /\ scans' = [scans EXCEPT ![s] = Ended(s, "done")]
  /\ UNCHANGED <<linkCount, chainVars, pageVars>>

\* The awaiting call goes on with a result or an error, the timeout's included.
Settle(s, result) ==
  LET d == scans[s].detail
      sh == IF scans[s].mounted THEN [shown EXCEPT ![d] = result] ELSE shown IN
  /\ scans[s].waiting
  /\ shown' = sh
  /\ inFlight' = inFlight \ {d}
  /\ spinner' = IF scans[s].mounted /\ spinner = d THEN "none" ELSE spinner
  /\ scans' = [t \in ScanName |->
       IF t # s THEN scans[t]
       ELSE IF scans[s].pc \in {"done", "failed"} THEN NoScan
       ELSE [scans[s] EXCEPT !.waiting = FALSE, !.mounted = FALSE]]
  /\ UNCHANGED <<viewer, tab, moves, storeVars, chainVars>>

ScanResolves(s) == scans[s].pc = "done" /\ Settle(s, "list")
ScanRejects(s) == scans[s].pc = "failed" /\ Settle(s, "empty")
ScanTimesOut(s) == scans[s].pc \in {"reading", "match"} /\ Settle(s, "empty")

ScanStep(s) == ReadLogs(s) \/ MatchLinks(s) \/ ScanResolves(s) \/ ScanRejects(s)

HistoryNext ==
  \/ \E batch \in LinkBatch : CreateLinks(batch)
  \/ \E batch \in LinkBatch : TransferMined(batch[1].target, batch[1].amount)
  \/ MillisPass
  \/ \E t \in Tab : OpenTab(t)
  \/ \E w \in Wallet \cup {NoWallet} : Connect(w)
  \/ \E s \in ScanName : ScanStep(s) \/ ReadFails(s) \/ ScanTimesOut(s)

\* What is awaited comes in the end.
HistorySpec ==
  HistoryInit /\ [][HistoryNext]_historyVars /\ \A s \in ScanName : WF_historyVars(ScanStep(s))
-----------------------------------------------------------------------------
PaidLinks == {i \in DOMAIN stored : stored[i].status = "paid"}
(***************************************************************************)
(* A link is shown as paid only if a transfer of its amount to its target  *)
(* was mined after it was made, whichever wallets were connected, however  *)
(* scans overlap, time out or write over one another's copies.             *)
(***************************************************************************)
PaidByTransfer ==
  \A i \in PaidLinks :
    /\ stored[i].tx \in DOMAIN transfers
    /\ transfers[stored[i].tx].to = stored[i].target
    /\ transfers[stored[i].tx].amount = stored[i].amount
    /\ transfers[stored[i].tx].at >= stored[i].createdAt
=============================================================================
