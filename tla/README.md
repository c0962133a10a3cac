# Qevie: a verification project

Qevie lets an account owner hand a *session key* to an agent that pays in QUSDC
within limits kept on chain, pays gas through a paymaster, and runs schedules
and CSV imports from a service.  This directory holds TLA+ models of the parts
where a mistake moves money or tells the user something false, what TLC checks
of them on small instances, and what TLAPS proves of them for every instance.

1. [The system](#1-the-system)
2. [The modules](#2-the-modules)
3. [What the runs show](#3-what-the-runs-show)
4. [What is proved](#4-what-is-proved)
5. [Where the code and its documentation disagree](#5-where-the-code-and-its-documentation-disagree)
6. [What is not modelled](#6-what-is-not-modelled)
7. [Plan](#7-plan)
8. [Running it](#8-running-it)

## 1. The system

| Component | State | Operations | What makes it correct |
| --- | --- | --- | --- |
| **Agent policy manager** `contracts/src/agent/` | policies (terms, active, guardian flag, three spend counters with two window starts), recipient lists, target list, nonces | createPolicy, revokePolicy, guardianRevoke, setRecipients, setAllowedTarget, transferOwnership, validate/recordSessionCall(Batch) | no counter passes its limit; a revoked policy never comes back; only listed targets and recipients |
| **Smart account** `contracts/src/account/QevieSmartAccount.sol` | owner, manager | validateUserOp, execute(Batch), executeSession(Batch), updateOwner | what leaves under a session key was recorded first, and was allowed when it left |
| **Gas paymaster** `contracts/src/paymaster/`, **gas routes** `sdk/src/gas.ts`, `app/src/lib/gasless.ts` | sponsored-op counts, daily and global budgets, QUSDC collected, caps and switches, EntryPoint deposit | validatePaymasterUserOp and postOp in Mode A (QUSDC gas) and Mode B (sponsored), owner functions; the clients' choices | budgets and caps hold, charges stay within their quote, what is withdrawn is there, a route means to the paymaster what it says to the user |
| **Autopilot executor** `paymaster-service/src/autopilot-*.ts` | the intent file, the ticks in progress | addIntent, cancelIntent, runAutopilotOnce every minute | no run is counted that was not paid, no settled payment is forgotten |
| **Autopilot set-up** `session-keys.ts`, `AutopilotNew.tsx`, `AutopilotPolicies.tsx` | the key file, policies and payments being created | mint a key, predict a policy id, create, validate and add an intent | an intent that is added is refused by nothing but a cap; the policy shown is the one created |
| **CSV bulk import** `sdk/src/csv/`, `csv-import*.ts`, `app/src/lib/xlsx.ts`, `BulkImport.tsx` | jobs, rows, passes, plans | parse, dedupe, preview; createJob, approve, confirm, resume, cancel, runCsvImportOnce | the records are the sheet's; no row and no known payment is made twice |
| **Payment rails** `contracts/src/subscriptions/`, `payments/` and **keeper** `keeper.ts` | subscriptions, requests, allowances, the keeper's list | subscribe, charge, cancel; create, pay, cancel a request; batchPay; keeper ticks | money moves only by a consent, on its terms, as often as agreed |
| **Identity** username and receipt registries, `Profile.tsx`, `Passport.tsx` | two name maps, receipts, pages | register, release, createReceipt; read a passport | a confirmed name leads to its account; a passport counts what was there |
| **Treasury rebalancer** `rebalancer.ts`, `dex-heartbeat.ts` | the owner's wallet, the runs under way | runRebalanceOnce on a timer: withdraw, transfer, swap, unwrap, fund, deposit; the heartbeat's sync | QUSDC is not lost between the steps, also of runs that overlap |
| **Protocol indexer** `paymaster-service/src/indexer/` | cursor, event store, statistics | runIndexerOnce | each event once, also over a crash and a reorganised chain |
| **Web application** `app/src/` | sessions, links, pages with requests out | connect, send, arm gas, scan, share, command | what a page shows is true of the chain and of what the user entered |
| **Agent commands** `sdk/src/agent/`, `AgentCommands.tsx` | none | parse, resolve, open a form | the form is what was said |

How they meet.  Accounts call the manager inside `EntryPoint.handleOps`, which
validates every operation of a bundle before it executes the first: what
validation saw may be changed by an operation executed in between.  The
paymaster is called in the same two phases and counts in `postOp`, after all
checks.  The service reaches the chain through the bundler, which answers late,
not at all, or about an operation it has not indexed yet; in the service,
`setInterval` starts ticks without asking whether the last one is over, and the
stores are JSON files that are read before an await and patched after it.  The
app and the service share the rows of a CSV job through HTTP reports.  The
app's pages start requests and are left, opened again and given other input
before the answers come.

Those are the hard behaviours: two-phase bundles, windows that roll over,
overlapping ticks, lost or late answers, crashes between a submission and its
record, stale snapshots.  `PROJECT.json` lists them as hazards, line by line,
with the property that watches each.

## 2. The modules

Contracts and what runs over them:

- **AgentPolicyManager.**  One action per external function, its caller as first
  parameter; anyone may call anything at any time.  `policies` is `_policies`,
  `accountOwner` the one thing the contract reads from elsewhere.  A policy id
  is its account and the nonce, in place of the hash.  Calls are decoded
  already: a `Call` says its selector, target and who is paid what;
  `CallAllowed` is `_validateSingleChecked`, `BatchAllowed`
  `_validateBatchChecked`, `WithinCaps` `_validateAggregateSpend`.  Amounts are
  0..MaxUint, and additions that leave that range revert as checked arithmetic
  does.
- **SessionExecution** EXTENDS it with the smart account's session path under
  `handleOps`: `Validate` fills `bundle`, `StartExecution` ends the first loop,
  `RunSessionOp`, `RunOwnerOp` and `RunWithoutEffect` take operations off the
  bundle, `Direct` is a transaction outside it.  `ledger` (what left, by policy
  and time) and `liveAtStart` are history.
- **PolicyMirror** is `sdk/src/csv/policy.ts`, the preview that repeats the
  manager's arithmetic off chain.  It has no state of its own; it is compared
  with the manager in every state of `SessionExecution`.
- **Paymaster** is `QeviePaymaster` in the same two loops.  `ValidateModeA` and
  `ValidateModeB` check and append to the bundle; an `Execute...` action runs
  the first operation and its `postOp`, including a `postOp` that reverts.  The
  EntryPoint's deposit is set aside at validation and given back after; the
  pair, balances and allowances move as others please.
- **GasRoute** EXTENDS it with the decisions of `gas.ts`, `gasless.ts`,
  `resolveSessionGasMode` and the allowlist service, as operators that are
  compared with what validation does in the same state to the operation that is
  really built.  Quotes are for `QuoteCost` (600k gas at one gwei, as `gas.ts`,
  `gasless.ts` and the executor have it); what is built costs `BuiltCost`, the
  default gas limits of the client (`GasUnits`, or `SessionUnits` for a session
  payment) at the resolved fee, which is several times as much.
- **ConsentLedger** is the abstract specification of the payment rails: a
  consent has terms and a quota, and money moves only by settling one, or by
  its owner's own hand.
- **PaymentRails** is `SubscriptionManager`, `PaymentRequest` and
  `BatchPayments` over one token with allowances; it implements the ledger
  (`RailsKeepConsents`, an INSTANCE with a refinement mapping from
  subscriptions and requests to consents).
- **SubscriptionKeeper** EXTENDS the rails with `keeper.ts` (overlapping ticks,
  operations that are slow, reverted or dropped, reads that fail) and the app's
  scan for subscriptions.

Services:

- **AutopilotExecutor.**  `store` is the intent file, `tick` what every running
  tick holds: the lists it read, the intent in hand, the nonce and the
  operation.  What Node runs between two awaits is one action: `StartTick`,
  `Reconcile`, `BeginRun`, `ReadNonce`, `Send` or one of its failures,
  `AwaitReceipt`.  The bundler's pool, the nonces and the index are external:
  `Mine`, `Drop`, `Index`.  `disturbed` remembers that ticks overlapped or a
  crash cut one off.
- **AutopilotSetup** is how an intent comes to be: a key is minted and kept in a
  file that a crash may empty, recipients are resolved, the policy's id is
  predicted from a nonce and an operation creates it, and
  `createValidatedIntent` checks an intent over several reads, the gas route
  (`GasMode`, which may be PAUSED) last.  A policy has its caps and spent
  counters, which the validation does not compare and other payments raise;
  `RefusedBy` collects everything that would refuse the intent now.
- **CsvFile** is one file from the cells of a sheet to stored records, with the
  quoting that `xlsx.ts` writes and `csv/parse.ts` takes apart.  A text is a
  sequence of symbols: the characters CSV gives a meaning, and words.
- **CsvImport** takes over there.  `job` and `row` are the two stores; `exec`
  the executor's pass (one at a time, as `processing` has it), `resume` a
  `resumeJob` that is reconciling, `app` the page that works through a user's
  plan and reports.  Writes that ignore what the status became meanwhile are
  modelled as such.
- **ProtocolIndexer** is the polling pass: four collectors over a range of
  confirmed blocks, a bounded store, a cursor in another file; the chain
  replaces its last blocks, the process dies between or inside writes.
- **Treasury** is the rebalancer: any of the runs in `Runner` may be under way,
  since the timer does not ask whether an earlier one is over.  A run is one
  action per transaction (`SendStep`, in the order of `Following`), each of which
  may fail, time out and still be mined, or revert of itself because of another
  run (`StepReverts`); it starts only if the key is the paymaster's owner, and a
  dry run ends with its quote.  The runs share the wallet and what lies in the
  pair, and heartbeats and traders work beside them.

The application, each module one page or flow with its requests answered in any
order: **LinkHistory** (payment links and the scans that match them with
transfers), **HistoryFeeds** (the gate of log queries, scans, tabs),
**SendFlow** (the send page over both recipient resolvers), **AccountPages**
(the gas status hook, background approvals, payments that spend the same free
operations; the reads of a page fail one by one), **WalletSession** (connect, reconnect, switch, disconnect),
**ProfilePages** (names, receipts, profile and passport), **AgentCommands** (from a
sentence to a form).

The MC modules instantiate these.  Modules that share no state are put side by
side in one MC module (`MCServices`, `MCApp`, `MCCsvImport`), and a behaviour
chooses one of them at the start: interleaving them would multiply states and
reach nothing new.

## 3. What the runs show

| Run | Shows | Bounds |
| --- | --- | --- |
| `session` | under any client of the manager no counter passes its limit and no policy is revived, not by a second creation, nor by the former owner of an account that was sold; counters cover the money that left; any rolling day or week sees at most twice its limit; spends obey the lists of the moment and policies live when the bundle began; rows that a preview calls valid would run together | one account, which may be sold and bought back; a policy, and a second one created after its revocation; bundles of two with an owner's or a session operation first; days of 2 and weeks of 4 ticks: every window rolls over; the total limit is twice the weekly one, so that the rolling bound can be reached; four small files |
| `paymaster` | budgets and account caps are overshot by less than one bundle, counters equal what was sponsored, collected QUSDC is held, charges stay within quotes, and what the app announces is what validation says to the operation that is built | bundles of two from one account, budgets one operation can exhaust, a moving price, a day that ends; two units of QUSDC, which a quote can need in full, so that a spend makes its charge uncollectable; operations that cost twice their quote and more; two network prices, two preferences |
| `autopilot` | without overlap and crash at most one payment is ahead of the count, and none when nobody waits for it; with them, still no run is counted that was not paid; completed and failed intents stay; a settled payment is noticed | a weekly intent of two runs, two ticks, three operations, a crash |
| `csv` | a row is paid once if the end of its operations was seen and no resume ran beside the executor; a confirmed row was paid; an autopilot job does not repeat a payment known when its file was read; a sheet is read as it was written (assumed of the sheets, and evaluated), the records are the sheet's, and a payment is in a file once | three groups of files: an autopilot file of two rows with a crash, a user's file of a chunk and a single with a crash, an autopilot and a user's file with the same content; two operations each; every sheet of up to three rows out of eight |
| `services` | the rails implement the ledger and subscriptions are exact; what the app and the receipts say of them is true; a chargeable tracked subscription is charged; the index is the chain's and catches up; overlapping rebalancing runs lose at most a batch for each that is aborted and nothing otherwise; a low sink is served | two parties, two subscriptions, a request, two ticks, one fault; three blocks with a reorganisation and a crash; two runs, a trade, an abort and two operations from five starts: prices at which a run pays and at which it does not, a treasury of more than a batch, a key that is not the owner's, a dry run |
| `app` | eleven properties, one or two per flow: what is shown as paid was paid, to whom the name meant; approvals are shown truly and made once; the session is of the wallet's account; a confirmed name leads to its account; a passport is of a moment within its reads; a policy shown is the one created; no slot of the query gate is lost; a scan shown is whole; a form is what was said (sentences are read as they were meant: an assumption, evaluated); a scheduled payment is refused by caps only | two of everything that can race (scans, sends, tasks, registrations, set-ups, commands) and one fault |
| `session_after_revocation` | a policy revoked by the first operation of a bundle still pays in the second | as `session` |
| `autopilot_overlap` | two ticks pay a one-shot intent twice | two ticks, no crash needed |
| `csv_paid_twice` | a slow operation or a closed page makes a user's row payable again | one user's file |
| `doomed_operation` | the executor takes the QUSDC route for an account that can pay the quote and not the operation | as `paymaster`, smaller |
| `batch_receipts` | receipts are issued for a batch that reverted | one page |
| `username_taken` | the profile shows a username the account never had | two accounts, one name |

The bounds are small because the hazards are: two operations in a bundle are
enough for one to stand between the check and the effect of the other, two
ticks to overlap, two operations for a double payment, two windows for a
rollover.  Time is in ticks, with days and weeks of a few ticks so that both
kinds of window end within a run.  In `paymaster` the constraint `SwitchedOn`
does not continue states that are paused or have QUSDC gas off: the switches
only refuse operations, so every other state is reached with both on.  In
`session` the constraint `OneFullHistory` lets the first policy unfold while its
creator owns the account and until the bundle of its revocation is over; what
comes after (a sale, a second policy, which needs the first revoked) is looked at
for a day and a payment of each policy.  In `csv` the constraint `Simpler` leaves
out crashes and slow resumes for the group of two files, and has the second file
read once something was sent for the first; the single files have both.  The files of the groups that are not
looked at are `cancelled` with no rows stored, a state `cancelJob` produces
while a file is parsed.  In `services` and `app`, `OneOfEach`, `HistorySteps`,
`AccountSteps`, `FeedSteps`, `CommandSteps`, `SetupSteps` and `PassportSteps` keep the largest parts small,
each with its restriction in its comment; one consequence is that a second
creation of a policy is looked at without a payment scheduled beside it.

Deadlock is not checked where a run stops at its bounds with all work done;
`session` and `paymaster` are checked for it.

**Fairness.**  Stated where the code justifies it, and only there.

- *Executor.*  Weak fairness of `StartTick`: `setInterval` keeps firing.  Of a
  tick's work as a whole: every await in the loop has a timeout or is answered,
  and an exception is caught.  Of `Index`: the bundler finds the receipt of a
  mined operation eventually; without that the code cannot know.  Nothing is
  assumed of mining: an operation may stay pooled or be dropped, and then the
  intent stays confirming for ever (the code has no way out of it, and
  `cancelIntent` accepts only scheduled intents).  So `SettledIsNoticed` speaks
  only of settled operations.
- *Keeper.*  Weak fairness of each tick's steps, for the same reasons, and of
  `Mine`: an operation the bundler holds is included or dropped, else nothing
  can be charged.  Failed reads and drops are bounded by `MaxFaults`, so the
  keeper's retrying is what makes `TrackedIsCharged` hold.
- *Indexer and rebalancer.*  Weak fairness of the pass and of each run's steps:
  the timer fires and each call is answered or fails.  Failures are bounded in number;
  `BlocksAreIndexed` and `LowSinkIsServed` say the next pass or run gets over
  them.
- *The application* has no liveness property: the user may leave at any time.

## 4. What is proved

Every safety property of the passing runs has a theorem, for every value of the
constants that satisfies the named assumptions (two of them, under the condition
that texts are read as they are written): any number of accounts, policies,
ticks, recipients, scans, any bundle size, any clock bound.  Below is what each
argument rests on; the inductive invariants are stronger than the properties, and
the comments in the proof modules say why.

**SumTheorems.**  What the other proofs need of sums and of definitions by
recursion.  The library's induction theorems take an operator as a parameter,
which the provers cannot instantiate; `SubsetInduction` is instead about a *set*
of subsets, and rests on the strict subset order being well founded.  From it
follow that a sum over a finite set exists, does not depend on the order of the
fold, and what adding, removing or raising an entry does to it (`TotalAdd`,
`TotalRemove`, `TotalRaised`, `TotalLess`).  `LeastExists` and `UpToInduction`
are the least number of a set and induction up to a bound; `ChainExists` says
that a function defined along 1..n exists, so that a function chosen by a
recursive equation satisfies it.

**AgentPolicyManagerProofs.**  `ManagerTypeOK` and `ManagerWithinCaps` from
`IInv == TypeOK /\ CountersWithinCaps`.  The caps are inductive with the types:
a call is recorded only if it fits after the windows it may have to restart
(`AddSpendFits` compares the effective counters of the view with the counters
that `_refreshWindows` leaves).  `ManagerRevocationIsFinal` needs more: that
every policy's nonce is below its account's next one (`NoncesAreFresh`), or
`createPolicy` could write over a revoked policy.  `PreviewsWouldRun` compares
the preview of a file (PolicyMirror) with the contract: limits are never zero
once a policy exists (`TermsStayLimits`), what the preview has accrued before a
row is at least what the valid rows before it spend, and the counters it takes
from storage are at least those the contract compares, since a window that is
over counts from zero (`PreviewCountsMore`).

**SessionExecutionProofs.**  `SessionWithinCaps`: under `handleOps` the manager is only
called through its own functions (`SessionStepIsManagerStep`), so its theorem
carries over.  `SpendsAuthorized` rests on an invariant of the bundle, `BundleInv`:
every session operation still in it is authorised (its policy exists and was in
`liveAtStart`, its key and sender are those of the policy's terms), and no step
changes a policy's terms.  `CountersCover` and `RollingWindow` relate the
ledger, a sum over time, to the counters: nothing was moved after the end of a
window that was not restarted, so what lies in the current window is covered by
its counter; and a stretch of one window's length that reaches back behind the
start of the current window has that part in the window before, which was within
the limit when it was replaced.  The factor two is therefore the best there is.

**PaymasterProofs.**  `PaymasterTypeOK`, among it that the deposit never goes
negative; `CollectedBacked`; `ChargesWithinQuote`; and `ModeBOvershoot`.  The
last is not inductive: the count may be past the cap while more sponsored
operations wait.  `BudgetInv` and `FreeOpsInv` say how much of the bundle has
run (`Ran`) and which sponsored operations are still in it (`Sponsored`): as
long as one is left, the counter is below its limit plus what already ran,
times the largest cost.  `BudgetsTrue`: the day a counter stands for is never
ahead of the clock, nothing was sponsored on a later day, and each `postOp`
raises the sum by the one entry it adds.  `RoutesAreTaken` is about decisions,
not steps: the quote is monotone in the cost, so an account that cannot pay the
quote cannot pay the larger cost of what is built, which is why "needs QUSDC" is
always true; an account told "QUSDC gas" is accepted exactly when it can pay what
`quoteGas` shows, as long as the network is at the floor price; an account that
got a token has it until it ends (`TokenLife` is not zero); and the clients'
choices depend on the same two answers.  What does *not* hold, that the QUSDC
route can always be paid, is the run `doomed_operation`.

**ServicesProofs.**  The payment rails: `SubscriptionsAreExact`.  The count of
open subscriptions is their number (`SubCountsExact`, by cardinality of a set
that each call changes by one element), and no charge is ahead of its period.
The invariant behind it, `OnSchedule`, ties the next due date to the first one
and the payments made; ids given in order (`IdsInOrder`) keep a new subscription
from replacing an old one.  `RailsImplementLedger`: under the mapping to
consents, the initial state is the ledger's and every call a ledger step or a
stutter.

The keeper: `KeeperReportsCharges`.  A tick whose operation was mined holds the
number of a payment that no other tick and no receipt has, so the receipts of a
subscription inject into the payments made.  For the app's scan, ids are given
in order, so that the walk ends before a subscription only after as many failed
reads as end it.

The treasury: `LossBounded`.  What lies in the wallet, the pair or its reserves
without a swap is at most `MaxQusdc` for each abort plus the batches that runs have
in hand, as a sum over any finite set of runs.  As long as nothing was aborted, the
invariant says where exactly each unit is: the wallet's QUSDC is the sum over the
runs that have withdrawn and not transferred, what the pair holds or took in
without a swap the sum over those that have transferred and not swapped, and so on for WQIE and QIE; a swap
that takes another run's input leaves that run with a revert, which is an abort.

The index: `IndexTellsTheChain`.  Blocks up to the safe head never change,
because a reorganisation is no deeper than the confirmations (`BlocksSettle`),
so what was collected stays true (`IsStored`) and complete (`RawOK`).  The store
is full at times, and then a revocation may be dropped; `MissingAreOld` says
that whatever is missing behind the cursor is older than every chain event that
is left, so that the policy's creation, which is older still, is gone too.  A
timestamp taken from the clock breaks that order, which is why the property
excepts it.

**AppProofs.**  One part for each module of the application.

- *Names:* `ConfirmedResolves`, from `NamesLeadBack`: the name of an account is
  owned by it, through registrations that take the place of an old name,
  releases, and names taken by others after a release.
- *Passport:* `PassportIsOfItsReads` keeps a witness, a length of the registry
  between the first read and now, for which every list read so far is right.
- *Wallet:* `WalletIsFollowed`.  Before there is a listener every answer is the
  wallet's account; afterwards the newest run speaks for the wallet: it has still
  to ask, it holds the account, or the session is its own.
- *Set-up:* `ShownIsOwn` and `AddedIsRefusedByCapsOnly`.  Every policy is that of
  one set-up, which had read a smaller nonce, and has its key and its terms; what
  a request has checked still holds unless it saw a change.  Caps and spent
  counters are not among what it checked, so they are what may still refuse it.
- *Links:* `LinksArePaid`.  Every copy of a link, stored or held by a scan, is
  backed by a transfer if it is marked as paid.
- *Send:* `PageTellsTheTruth`.  While nothing disturbs it, the address shown is
  what the preview finds for the input, which is what the payment finds if it
  finds anything.
- *Arming:* `ArmingHolds`.  A component's flag is up while a run that is still
  mounted makes the approval, so a page has one; and unless one was begun beside
  another, at most one approval is mined or may still be, whichever of the reads
  before it failed.
- *Feeds:* `SlotsAreHandedOn`: the queries in flight and those woken up with a
  slot are as many as the gate lets through while anyone waits.
  `ScansAreWhole`: logs are only appended and a settled status is final; the
  ranges asked for cover the window; the newest logs that name the account are
  among the newest of each range.
- *Commands:* `OpensWhatWasSaid`, under `EachFormIsRead` (a sentence is read as
  it was meant, for every form the parser names; "every day for 4 weeks" is none of
  them, see section 5).  Each recipient that was resolved has an address its name has
  had since the command, the result that is shown has all of them
  (`CommandFaithful`), and a form that is open keeps saying so while names change
  and further commands run (`OpenFormStays`).

**AutopilotExecutorProofs.**  `CountsArePayments`: `runsCompleted` never passes
the payments mined.  The invariant is about every copy of a record there is, in
the file or in the lists of a tick, however old (`Good`): what it counts are
mined payments *other than* those somebody has still to count, the one the
record itself is waiting for and those ticks await.  A late patch computed from
an old record then still counts a payment of its own; that no two ticks await
one operation (`AwaitedOnce`) makes it the only one.  A crash only removes
copies.

`OneUncounted` and `FinalStays` are the other side, for as long as ticks neither
overlap nor crash (`~disturbed`).  Their invariant, `InOrder`, says that one tick
runs at a time (`Alone`); that what it has read is still what the file says, but
for a cancellation (`UpToDate`); and that of an intent's operations that were or
may still be mined, all are counted but the one a tick awaits, the one the
record is confirming, or the one a failed run left without an answer
(`Accounted`).  It is stronger than the property in counting operations that are
still pooled: `AtMostOneUncounted` alone says nothing of a payment that is mined
*after* its run was given up.  Whatever a tick does is then one of four steps:
it leaves a record alone, fails it, settles it from a receipt, or gets one more
operation accepted (`GoesOnUntouched`, `GoesOnFailed`, `GoesOnSettled`,
`SendInOrder`); the chain and the owner can only make open operations fewer.

**CsvImportProofs.**  `ConfirmedArePaid`: whoever holds an operation for a row,
in the stored record, in a snapshot that a resume or a pass took of it however
long ago, or in a wait for its receipt, holds one that executes that row
(`ImportInv`).  So a settlement by a stale snapshot or a late report may write
over a newer status, but the operation it trusts when it writes "confirmed" is
one of that row's own.  That the app's chunk is the one it sent (`NextChunk` of
a plan that does not change while it waits) and that a pass stays at its least
row need the existence of least elements.

`PaidOnce` is for rows whose operations' ends were all seen and jobs whose
resumes kept out of the executor's way.  `OrderInv` says which plans, snapshots
and passes are still up to date, and `OnceInv` that a row that may be selected
has no operation that was or may be mined.  `KnownAreLeftAlone` (`KnownInv`): a
known duplicate is in no plan and no pass of an autopilot job, so no operation
executes it.  `FilePaysEveryoneOnce` is about one file (CsvFile): the severity
of a row is that of its duplicates after the last row was resolved, and two rows
of one recipient, amount and type repeat each other whether or not their other
cells agree (`TwinsRepeat`).  `RecordsComeFromTheSheet` is under
`EachSheetIsRead` (what the app writes as CSV is what the service reads):
prepared rows stay at the places of the rows they were made from, whatever was
refused or not resolved between them (`SheetInv`), and the app reads back the
period of every schedule the service understood (`PeriodIsKept`, without any
condition).

**Assumptions.**  The constants' types, in the module that declares them, and a
few facts of the environment.  `ChainCallAssumption`: a policy is created once
and both its logs name its account (the contract hashes a nonce into the id and
emits `policy.smartAccount`; `ManagerRevocationIsFinal` proves the former of the
manager).  `HistoryAssumption`: links are saved in batches that are not empty.
`FeedAssumption`: finitely many accounts are tracked.  `FileAssumption`: periods,
decimals and the limit of rows are numbers.  `GasRouteAssumption`: a
token of the allowlist lives for some time.  `NoIntentAssumption`: a tick's empty
hand is not a record.

**Only model-checked.**  `EachSheetIsRead` and `EachFormIsRead` say that taking a
text apart gives back what it was written from.  They are about constants alone:
MCCsvImport and MCApp assume them, so that TLC evaluates them for every sheet and
every sentence of its runs, and the two theorems above take them as hypotheses.  Proving them is an induction over the
symbols of a text, of operators that fold over sequences.  `SettledIsNoticed`,
`TrackedIsCharged`, `BlocksAreIndexed` and `LowSinkIsServed` are liveness under
fairness, which the proof system does not cover.  The runs that expect a
violation refute what they check; there is nothing to prove about them.

## 5. Where the code and its documentation disagree

Six disagreements have a run with a counterexample:

- *Revocation and bundles* (`session_after_revocation`).  `recordSessionCall`
  does not repeat the live checks of validation; a spend validated before a
  revocation in the same bundle is made.  The true statement, proved: a spend is
  of a policy that was live when its bundle began.
- *Overlapping ticks* (`autopilot_overlap`) pay a one-shot intent twice, in
  spite of the comment that forbids it.
- *User imports* (`csv_paid_twice`).  `waitForUserOp` calls a timeout "failed",
  the app reports a revert, and the row may be planned again; a page closed
  before its report has the same effect.
- *QUSDC route* (`doomed_operation`).  The executor, `gas.ts` and `gasless.ts`
  quote QUSDC gas for 600k gas at one gwei; the operation is built with the default
  limits of the client, 3.6M and more, and validation asks for the QUSDC,
  allowance and caps of that.  An account between the two is refused, at every
  tick.  The true statement, proved: what is accepted is what can pay the amount
  `quoteGas` shows.
- *Receipts of a batch* (`batch_receipts`).  A reverted operation has a
  transaction hash too.
- *A name that is taken* (`username_taken`) is shown as registered.

Others were seen while modelling and have no run of their own.

**Limits.**  A `batchPay` is bounded by the aggregate limits only, so one
recipient can get more than `maxPerTx`.  The "hard" caps of Mode B are passed by
up to one bundle, less one operation (proved to be no more), and the optional
daily QUSDC cap in the same way.  `MIN_DEPOSIT_BUFFER` is never read.
`policy.owner` is a snapshot that a new account owner does not change.  The
preview of `csv/policy.ts` does not restart windows that have ended and treats
the last second of a policy differently from the chain.

**Gas.**  `requestPayment` and `cancelSubscription` do not use the mode that was
resolved.  `gas.ts:215` says it mirrors the executor's decision and leaves out
the allowlist token.  "QUSDC gas" in the app is announced from the same small
quote as the executor's.  `quoteGas` works with unresolved fees; SPONSORED is shown
while budgets are exhausted; `AutopilotGasStatus` says "valid gas route" without
looking.  Send submits "qusdc" also for NEEDS_QUSDC.  `arming` stays on after a
refresh, and an account whose free operations run out before the approval cannot
approve.  A bulk import uses one gas mode for all its operations.

**Scheduled payments.**  `autopilot-executor.ts:424` says a bad intent is rejected
when it is added rather than on chain; `createValidatedIntent` (481-548) compares
`maxPerTx` and none of the daily, weekly and total caps, so an intent over them is
added and refused at its runs (the property `OnlyCapsRefuseScheduled` says that
nothing else is missing).  A cancellation during a payment is overwritten by the
tick that paid; a cancelled intent can be scheduled again by the same patch.  A
dropped operation leaves its intent confirming for ever.  In the set-up, a slow
creation is reported as "failed onchain" and a retry makes a second live policy,
a predicted id may name no policy, a torn key file is read as empty, and a lost
answer of `/autopilot/intent` cannot be told from a refusal.

**Imports.**  A resume beside the executor writes a row back to `valid` after
its hash was recorded.  A cancellation is overwritten by a resume, by the end of
the preview and by a lost policy, and a pass that has selected its rows pays
them.  An autopilot row failed by a submission error is selected again though
its operation may be pending.  The history of duplicates leaves out cancelled
jobs.  A reconciled request or subscription row gets a receipt of a payment that
was not made.  `contentKey` leaves out the row's type, synonyms of a schedule
differ in it, and `totalBaseUnits` includes blocked duplicates.

**Subscriptions.**  Nothing in the repository calls `trackSubscription`.  The
keeper charges only what is payable to its own account, with a payment number
that may be stale; after a gap several periods are charged at once.  The app's
scan stops after six failed reads and at id 250; its "Completed" cannot be
reached.

**Index and treasury.**  A policy the guardian revoked still counts as active,
`blockedActions` is always 0, a session's `batchPay` counts twice in
`totalPayments`, and a transfer through a session twice in the protocol's volume,
since it emits both events that are counted.  The comment on the pair's invariant (`rebalancer.ts:197`) does
not hold when a `sync` or a trade comes in between; leftovers of an aborted run
are not picked up by the next, and of two overlapping runs the second swap may take
only its reduced amount for the QUSDC of both.

**Pages.**  A transfer can be matched again with a later link of equal amount;
links saved during a scan are lost; overlapping scans can make a paid link
unpaid.  A tab of the history may never resolve.  `Send` shows and receipts the
amount in the field while `payRequest` pays the request's, and shows the late
result of a first payment as a second's.  The address shown before approval
(README.md:43) may not be the one paid when a resolver is configured, a name
moves, or the field changes during a lookup.  A request's share link is a plain
payment link when the hash is missing.  `accountsChanged` is listened to only
after a silent reconnect; connects that overlap finish in any order.  Receipts
of a payment to oneself are counted twice, and retried requests for a receipt
make a second one.  Queries that wake from the gate do not look at it again.

**Commands.**  `parser.ts:7` promises a clarification for ambiguous input: "Pay
alice 5 and bob" pays alice, "Pay alice 1,000" pays 1, "every day for 4 weeks"
runs four times (the unit is read and dropped, `parser.ts:146` and 156), "Send 5
QUSDC to bob every week" is a single payment, and the memo of a recurring command
is dropped.  A number that was not said is "open-ended" in `types.ts:53`, and the
form fills in 12 (`Subscriptions.tsx:52`); the form is shown before anything is
signed.  Links from a command have no recipient, which `parsePaymentUri` refuses.

## 6. What is not modelled

- Formatting, encryption, signatures (a signature is valid or not), ABI
  encoding, the packing of operations, gas metering.  A CSV file is taken apart
  symbol by symbol; all other texts are values.
- Of the smart account: `setAgentPolicyManager`, the prefund, ERC-1271.  The
  **account factory** is a stateless CREATE2 deployment.
- Of the executor: receipts after a payment, `lastError`, and an intent file
  torn by a crash in the middle of a write (a hazard with a note; for the key
  file it is modelled in `AutopilotSetup`).
- Of the import: the 24-hour limit of the history, a second page working on the
  same job, a job that waits in a tick's list while its status changes.  The
  amounts are in `CsvFile`.
- Of the index: the status of the .qie protocol.  Of the receipts: the management
  of issuers.  Of the treasury: the testnet heartbeat, which writes the reserves
  of a stub pair.
- HTTP parsing, limits and read-only statistics; the Dashboard's loads, share
  links and the overview; the tools of `sdk/src/agent/tools`, which label a plan;
  read-only pages and the landing site; deployment and scripts.

The EntryPoint, the bundler, the DEX pair, the token and the clock are external:
they are modelled from how the code uses them and may do anything those uses
allow.

## 7. Plan

What is left, in order of what it would add:

1. A proof of `EachSheetIsRead` for every sheet, after the text is read by a
   function of the position instead of a fold (as PolicyMirror is), so that
   `UpToInduction` applies.
2. The executor over `SessionExecution`: a schedule that overlapping ticks
   overpay still stays within its policy.
3. A receipt and a crash inside the write of the intent file, as the key file
   has it.
4. Larger instances of `services` and `app`, one run per flow.

## 8. Running it

    tlc -workers 2 -config MCPaymaster.cfg MCPaymaster.tla
    tlapm PaymasterProofs.tla

`PROJECT.json` names each run's module and configuration, a mutant for each
property (a definition replaced by one with a plausible bug, which the property
detects), the source lines of every definition, the hazards and the theorems.
The runs take from seconds to a few minutes each with two workers.
