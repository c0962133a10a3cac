-------------------------------- MODULE Treasury --------------------------------
(***************************************************************************)
(* The rebalancer of the paymaster service, which turns the QUSDC the      *)
(* paymaster collected for gas into the native QIE it spends, and the dex  *)
(* heartbeat that runs beside it with the same key on the same pair.  A    *)
(* run is a sequence of transactions, each sent and awaited; one that      *)
(* fails ends the run where it is.  The timer starts runs whether or not   *)
(* earlier ones are over, so several share the owner's wallet.             *)
(***************************************************************************)
EXTENDS Integers, FiniteSets, Functions

CONSTANTS
  Runner,                 \* the runs that may be under way at a time
  SinkFloor, SinkTarget,  \* [ep, signer] -> REBALANCER_*_FLOOR_WEI, _TARGET_WEI
  MinQusdc, MaxQusdc,     \* REBALANCER_MIN_QUSDC, REBALANCER_MAX_QUSDC
  SlippageBps,            \* REBALANCER_SLIPPAGE_BPS
  Treasuries,             \* initial states: [collected, sinks, reserve, settings]
  TradeSize,              \* what others sell to the pair at a time
  MaxTrades,              \* bound on others' trades and heartbeats
  MaxSpends,              \* bound on gas the sinks pay
  MaxAborts               \* bound on transactions that fail or time out

Sink == {"ep", "signer"}

ASSUME TreasuryAssumption ==
  /\ IsFiniteSet(Runner)
  /\ {SinkFloor, SinkTarget} \subseteq [Sink -> Nat]
  /\ \A k \in Sink : SinkFloor[k] <= SinkTarget[k]
  /\ {MinQusdc, MaxQusdc, MaxTrades, MaxSpends, MaxAborts} \subseteq Nat
  /\ SlippageBps \in 0..10000
  /\ TradeSize \subseteq Nat
  /\ Treasuries \subseteq
       [collected : Nat, sinks : [Sink -> Nat], reserve : [qusdc : Nat, wqie : Nat],
        settings : [owner : BOOLEAN, live : BOOLEAN]]

VARIABLES
  settings,   \* whether the key is the paymaster's owner, and REBALANCER_LIVE
  collected,  \* collectedQUSDC of the paymaster
  sinks,      \* EntryPoint deposit, and QIE of the service's signer
  wallet,     \* the owner's [qusdc, wqie, qie] from these runs
  reserve,    \* the pair's [qusdc, wqie]
  inPair,     \* QUSDC sent to the pair that its reserves do not count yet
  strandedIn, \* history: QUSDC of ours the reserves took in without a swap
  run,        \* [Runner -> the locals of runRebalanceOnce]
  aborts, trades, spends

balances == <<collected, sinks, wallet, reserve, inPair, strandedIn>>
treasuryVars == <<settings, balances, run, aborts, trades, spends>>

NoRun == [pc |-> "idle", batch |-> 0, deficit |-> 0, ask |-> 0, toSigner |-> 0]

TreasuryInit ==
  /\ \E t \in Treasuries :
       collected = t.collected /\ sinks = t.sinks /\ reserve = t.reserve /\ settings = t.settings
  /\ wallet = [qusdc |-> 0, wqie |-> 0, qie |-> 0]
  /\ inPair = 0
  /\ strandedIn = 0
  /\ run = [t \in Runner |-> NoRun]
  /\ aborts = 0
  /\ trades = 0
  /\ spends = 0

Least(a, b) == IF a < b THEN a ELSE b

\* getAmountOut: constant product with a fee of three thousandths.
GetAmountOut(in, reserveIn, reserveOut) ==
  IF in <= 0 \/ reserveIn <= 0 \/ reserveOut <= 0 THEN 0
  ELSE (in * 997 * reserveOut) \div (reserveIn * 1000 + in * 997)

Deficit(k) == IF sinks[k] < SinkFloor[k] THEN SinkTarget[k] - sinks[k] ELSE 0

WantsRun == (\E k \in Sink : Deficit(k) > 0) /\ collected >= MinQusdc

Starts(t, batch) ==
  /\ run[t].pc = "idle"
  /\ settings.owner
  /\ WantsRun
  /\ run' = [run EXCEPT ![t] =
               [NoRun EXCEPT !.pc = "quote", !.batch = batch, !.deficit = Deficit("signer")]]
  /\ UNCHANGED <<settings, balances, aborts, trades, spends>>

BeginAtMaximum(t) == collected >= MaxQusdc /\ Starts(t, MaxQusdc)

\* The owner, readState and the checks: how much to withdraw and what the
\* signer lacks.
BeginRebalance(t) == Starts(t, Least(collected, MaxQusdc))

\* What a run would ask of the pair: the quote less the slippage.
AskFor(batch) ==
  (GetAmountOut(batch, reserve.qusdc, reserve.wqie) * (10000 - SlippageBps)) \div 10000

\* A dry run ends with its plan.
Quote(t) ==
  /\ run[t].pc = "quote"
  /\ LET ask == AskFor(run[t].batch) IN
     run' = [run EXCEPT ![t] =
               IF ask <= 0 \/ ~settings.live THEN NoRun
               ELSE [@ EXCEPT !.pc = "withdraw", !.ask = ask,
                              !.toSigner = Least(ask, run[t].deficit)]]
  /\ UNCHANGED <<settings, balances, aborts, trades, spends>>

\* What each transaction of a run does when it succeeds.
WithdrawQusdc(batch) ==
  /\ collected >= batch
  /\ collected' = collected - batch
  /\ wallet' = [wallet EXCEPT !.qusdc = @ + batch]
  /\ UNCHANGED <<sinks, reserve, inPair, strandedIn>>

TransferToPair(batch) ==
  /\ wallet.qusdc >= batch
  /\ wallet' = [wallet EXCEPT !.qusdc = @ - batch]
  /\ inPair' = inPair + batch
  /\ UNCHANGED <<collected, sinks, reserve, strandedIn>>

\* The pair takes what it received beyond its reserves for the input and lets
\* the output go if the product, less the fee, has not fallen.  What another
\* run put there goes with it.
PairGives(out) ==
  /\ out < reserve.wqie
  /\ (1000 * (reserve.qusdc + inPair) - 3 * inPair) * (reserve.wqie - out)
       >= 1000 * reserve.qusdc * reserve.wqie

Swap(batch, ask) ==
  /\ PairGives(ask)
  /\ reserve' = [qusdc |-> reserve.qusdc + inPair, wqie |-> reserve.wqie - ask]
  /\ strandedIn' = strandedIn + inPair - batch
  /\ inPair' = 0
  /\ wallet' = [wallet EXCEPT !.wqie = @ + ask]
  /\ UNCHANGED <<collected, sinks>>

Unwrap(ask) ==
  /\ wallet.wqie >= ask
  /\ wallet' = [wallet EXCEPT !.wqie = @ - ask, !.qie = @ + ask]
  /\ UNCHANGED <<collected, sinks, reserve, inPair, strandedIn>>

Fund(k, amount) ==
  /\ wallet.qie >= amount
  /\ wallet' = [wallet EXCEPT !.qie = @ - amount]
  /\ sinks' = [sinks EXCEPT ![k] = @ + amount]
  /\ UNCHANGED <<collected, reserve, inPair, strandedIn>>

\* The signer first, up to its target, and all the rest to the deposit.
ToEntryPointDeficit(r) == Least(r.ask - r.toSigner, Deficit("ep"))
ToEntryPoint(r) == r.ask - r.toSigner

Effect(r) ==
  CASE r.pc = "withdraw" -> WithdrawQusdc(r.batch)
    [] r.pc = "transfer" -> TransferToPair(r.batch)
    [] r.pc = "swap" -> Swap(r.batch, r.ask)
    [] r.pc = "unwrap" -> Unwrap(r.ask)
    [] r.pc = "signer" -> Fund("signer", r.toSigner)
    [] r.pc = "deposit" -> Fund("ep", ToEntryPoint(r))

Steps == {"withdraw", "transfer", "swap", "unwrap", "signer", "deposit"}
Following(r) ==
  CASE r.pc = "withdraw" -> "transfer"
    [] r.pc = "transfer" -> "swap"
    [] r.pc = "swap" -> "unwrap"
    [] r.pc = "unwrap" -> IF r.toSigner > 0 THEN "signer"
                          ELSE IF ToEntryPoint(r) > 0 THEN "deposit" ELSE "idle"
    [] r.pc = "signer" -> IF ToEntryPoint(r) > 0 THEN "deposit" ELSE "idle"
    [] r.pc = "deposit" -> "idle"

SendStep(t) ==
  /\ run[t].pc \in Steps
  /\ Effect(run[t])
  /\ run' = [run EXCEPT ![t] =
               IF Following(@) = "idle" THEN NoRun ELSE [@ EXCEPT !.pc = Following(run[t])]]
  /\ UNCHANGED <<settings, aborts, trades, spends>>

GivenUp(t) ==
  /\ aborts' = aborts + 1
  /\ run' = [run EXCEPT ![t] = NoRun]
  /\ UNCHANGED <<settings, trades, spends>>

\* confirm throws: the transaction reverts, is refused, or is not mined in time
\* although it takes effect.
AbortRun(t) ==
  /\ run[t].pc \in Steps
  /\ aborts < MaxAborts
  /\ GivenUp(t)
  /\ UNCHANGED balances \/ Effect(run[t])

\* What reverts of itself: a withdrawal after another run's, and a swap for
\* which the pair has moved or another run took the input.
StepReverts(t) ==
  /\ \/ run[t].pc = "withdraw" /\ collected < run[t].batch
     \/ run[t].pc = "swap" /\ ~PairGives(run[t].ask)
  /\ GivenUp(t)
  /\ UNCHANGED balances

\* The pair after others' business: what is in it counts as theirs.
TakenIn(r) ==
  /\ trades < MaxTrades
  /\ trades' = trades + 1
  /\ reserve' = [r EXCEPT !.qusdc = @ + inPair]
  /\ strandedIn' = strandedIn + inPair
  /\ inPair' = 0
  /\ UNCHANGED <<settings, collected, sinks, wallet, run, aborts, spends>>

\* The heartbeat's sync().
BeatMainnet == TakenIn(reserve)

Trade(size) ==
  \/ TakenIn([qusdc |-> reserve.qusdc + size,
              wqie |-> reserve.wqie - GetAmountOut(size, reserve.qusdc, reserve.wqie)])
  \/ TakenIn([qusdc |-> reserve.qusdc - GetAmountOut(size, reserve.wqie, reserve.qusdc),
              wqie |-> reserve.wqie + size])

\* Gas paid by a sink; an operation in Mode A brings QUSDC in.
SpendGas(k) ==
  /\ spends < MaxSpends
  /\ sinks[k] > 0
  /\ spends' = spends + 1
  /\ sinks' = [sinks EXCEPT ![k] = @ - 1]
  /\ collected' \in {collected, collected + 1}
  /\ UNCHANGED <<settings, wallet, reserve, inPair, strandedIn, run, aborts, trades>>

RunStep(t) == BeginRebalance(t) \/ Quote(t) \/ SendStep(t) \/ StepReverts(t)

TreasuryNext ==
  \/ \E t \in Runner : RunStep(t) \/ AbortRun(t)
  \/ BeatMainnet
  \/ \E size \in TradeSize : Trade(size)
  \/ \E k \in Sink : SpendGas(k)

\* The interval timer runs on and transactions are mined or time out.
TreasurySpec ==
  /\ TreasuryInit /\ [][TreasuryNext]_treasuryVars
  /\ \A t \in Runner : WF_treasuryVars(RunStep(t))
-----------------------------------------------------------------------------
\* What the runs have taken out of the paymaster and not yet swapped.
InHand == [t \in Runner |-> IF run[t].pc \in {"transfer", "swap"} THEN run[t].batch ELSE 0]

(***************************************************************************)
(* Money leaves the loop only with a run that was aborted, and at most one *)
(* batch with each, although runs overlap and spend from one wallet: what  *)
(* lies in the owner's wallet, in the pair or in its reserves without a    *)
(* swap, beyond what runs have in hand, is bounded by the aborts; without  *)
(* an abort the runs leave nothing behind when all are over.               *)
(***************************************************************************)
LossPerAbortBounded ==
  /\ wallet.qusdc + inPair + strandedIn
       <= MaxQusdc * aborts + FoldFunction(LAMBDA x, y : x + y, 0, InHand)
  /\ aborts = 0 /\ (\A t \in Runner : run[t].pc = "idle") =>
       wallet = [qusdc |-> 0, wqie |-> 0, qie |-> 0] /\ inPair = 0 /\ strandedIn = 0

RunPays ==
  /\ settings.owner /\ settings.live
  /\ WantsRun
  /\ AskFor(Least(collected, MaxQusdc)) > 0

(***************************************************************************)
(* A sink below its floor does not wait for ever while there is collected  *)
(* QUSDC enough for a run, the pair gives anything for it, and the key is  *)
(* the owner's and live.                                                   *)
(***************************************************************************)
LowSinkIsServed == []<>~RunPays
=============================================================================
