-------------------------------- MODULE GasRoute --------------------------------
(***************************************************************************)
(* How the app, the SDK and the executor choose who pays the gas of the    *)
(* next operation, over the views of the paymaster: gas.ts, gasless.ts,    *)
(* resolveSessionGasMode, and the service that issues allowlist tokens.    *)
(* The choices keep no state; what they promise is compared with what the  *)
(* paymaster's validation then does in the same state.                     *)
(*                                                                         *)
(* In the operators below, listed is the set of accounts the service gives *)
(* a token (listed by hand, owner of a domain, or everybody) and readable  *)
(* says that the reads of the paymaster are answered.                      *)
(***************************************************************************)
EXTENDS Paymaster

CONSTANTS
  QuoteCost,   \* DEFAULT_MAX_GAS_COST_WEI: what a route is quoted for
  GasUnits,    \* the gas limits of DEFAULT_GAS together, which owners send
  SessionUnits,\* and those of executeSessionPayment, which raises the call's
  FeeFloor,    \* maxFeePerGas of DEFAULT_GAS
  TokenLife,   \* EXPIRY_WINDOW_SECONDS
  Prefs,       \* preferences of policies that are tried
  GasPrice,    \* prices of the network that are tried
  ServiceKey   \* whose key the service signs tokens with

ASSUME GasRouteAssumption ==
  /\ {QuoteCost, GasUnits, SessionUnits, FeeFloor} \subseteq Nat
  /\ QuoteCost <= GasUnits * FeeFloor    \* 600k gas and 3.6M, at 1 gwei
  /\ GasUnits <= SessionUnits
  /\ TokenLife \in Nat \ {0}
  /\ GasPrice \subseteq Nat
  /\ TokenLife <= MaxExpiryWindow
  /\ ServiceKey \in Address

\* GasPolicyPrefs, of a policy or of a call; pauseWhenGasUnavailable is not
\* looked at.
PrefsType == [sponsored : BOOLEAN, qusdc : BOOLEAN, native : BOOLEAN]

ASSUME PrefsAssumption == Prefs \subseteq PrefsType

AppPrefs == [sponsored |-> TRUE, qusdc |-> TRUE, native |-> FALSE]

NoToken == [expiry |-> 0, signer |-> "nobody"]

\* issueAllowlistToken, as getAllowlistToken has it from the service.
AllowlistToken(a, listed) ==
  IF a \in listed THEN [expiry |-> now + TokenLife, signer |-> ServiceKey] ELSE NoToken

-----------------------------------------------------------------------------
(* gas.ts *)

\* getSponsoredStatus; an unreadable paymaster sponsors nothing.
SponsoredStatus(a, readable) ==
  LET limit == IF readable THEN PerAccountCap ELSE 3
      remaining == IF readable THEN RemainingFreeOps(a) ELSE 0 IN
  [used |-> IF limit >= remaining THEN limit - remaining ELSE 0,
   limit |-> limit, remaining |-> remaining]

\* Mutant: the view is asked for the pool's price alone.
QusdcQuoteUnfunded(a, readable) ==
  [available |-> readable /\ qusdcGasEnabled /\ PriceUsable,
   quoted |-> IF readable THEN QuoteQUSDC(QuoteCost) ELSE 0]

\* quoteQusdcGas
QusdcQuote(a, readable) ==
  [available |-> readable /\ QusdcGasAvailable(a, QuoteCost),
   quoted |-> IF readable /\ qusdcGasEnabled /\ PriceUsable THEN QuoteQUSDC(QuoteCost) ELSE 0]

\* getGasModeOptions: the modes that are offered as available.
GasModeOptions(a, readable) ==
  {m \in {"SPONSORED_ONBOARDING", "QUSDC_GAS"} :
     IF m = "QUSDC_GAS" THEN QusdcQuote(a, readable).available
                        ELSE SponsoredStatus(a, readable).remaining > 0}

\* resolveGasMode.  Whether the account gets a token is not asked.
ResolveGasMode(a, prefs, readable) ==
  IF prefs.sponsored /\ SponsoredStatus(a, readable).remaining > 0 THEN "SPONSORED_ONBOARDING"
  ELSE IF prefs.qusdc /\ QusdcQuote(a, readable).available THEN "QUSDC_GAS"
  ELSE IF prefs.native THEN "NATIVE_QIE" ELSE "PAUSED"

\* toBuilderGasMode
ToBuilderGasMode(mode) ==
  CASE mode = "SPONSORED_ONBOARDING" -> "sponsored"
    [] mode = "QUSDC_GAS" -> "qusdc"
    [] mode = "NATIVE_QIE" -> "self"
    [] mode = "PAUSED" -> "none"

\* client.getAutopilotGasStatus, which the policy's preferences steer, and the
\* label of a CSV preview: a user's file is asked for with every route allowed.
PreviewGasLabel(a, source, prefs, readable) ==
  IF source = "AUTOPILOT" THEN ResolveGasMode(a, prefs, readable)
  ELSE ResolveGasMode(a, [AppPrefs EXCEPT !.native = TRUE], readable)

-----------------------------------------------------------------------------
(* The executor *)

\* resolveSessionGasMode
SessionGasMode(a, prefs, listed, readable) ==
  LET free == prefs.sponsored /\ readable /\ RemainingFreeOps(a) > 0 IN
  IF free /\ AllowlistToken(a, listed) # NoToken THEN "sponsored"
  ELSE IF prefs.qusdc /\ readable /\ QusdcGasAvailable(a, QuoteCost) THEN "qusdc"
  ELSE IF prefs.native THEN "self" ELSE "none"

-----------------------------------------------------------------------------
(* The app *)

\* gaslessParams.  A stale price is asked for again after a pause: what counts
\* is the state of the last read.
GaslessParams(a, listed, readable) ==
  IF readable /\ RemainingFreeOps(a) > 0 /\ AllowlistToken(a, listed) # NoToken
  THEN [mode |-> "sponsored", ui |-> "SPONSORED_ONBOARDING"]
  ELSE [mode |-> "qusdc",
        ui |-> IF QusdcQuote(a, readable).available THEN "QUSDC_GAS" ELSE "NEEDS_QUSDC"]

-----------------------------------------------------------------------------
(* What is built and quoted *)

\* resolveFees: a quarter above the price of the network, at least the floor.
MaxFee(gasPrice) ==
  LET buffered == gasPrice + gasPrice \div 4 IN
  IF buffered > FeeFloor THEN buffered ELSE FeeFloor

\* The most an operation built with these gas limits may cost: what validation
\* is asked to accept, whatever the route was quoted for.
BuiltCost(units, gasPrice) == units * MaxFee(gasPrice)

\* The QUSDC that account.quoteGas shows: the same limits, at the fee of the
\* configuration.
AccountQuoteGas(mode) ==
  IF mode = "qusdc" THEN QuoteQUSDC(GasUnits * FeeFloor) ELSE 0

\* The operation a route leads to.
RouteOp(a, mode, listed, targets, cost) ==
  [mode |-> IF mode = "sponsored" THEN "B" ELSE "A", sender |-> a, targets |-> targets,
   maxCost |-> cost, spend |-> 0, trades |-> FALSE,
   expiry |-> AllowlistToken(a, listed).expiry, signer |-> AllowlistToken(a, listed).signer]

-----------------------------------------------------------------------------
(* Properties *)

BudgetLeft == SpentToday < DailyBudget /\ globalBudgetSpent < GlobalBudget

\* The account has the QUSDC, has approved it, and no cap forbids it.
CanPay(a, quoted) ==
  /\ WithinQusdcCaps(quoted)
  /\ balance[a] >= quoted
  /\ allowance[a] >= quoted

\* What the app announces (gaslessParams) against what _validateModeA and
\* _validateModeB do in that state with the operation that is then built, for
\* calls of allow-listed targets.  A sponsored operation is refused only by a
\* budget or because the signer was replaced.  One told to need QUSDC is refused
\* as it stands.  "QUSDC gas" was quoted for less gas than is built: it is
\* accepted if the account can pay what account.quoteGas shows and the network's
\* price is at the floor, and never if it cannot.  Reads see the chain between
\* bundles; a paused paymaster refuses everything before either of the two, and
\* the routes do not ask whether it is paused.
RouteIsAccepted ==
  phase = "idle" =>
    \A a \in Account, gasPrice \in GasPrice :
      \A listed \in IF RemainingFreeOps(a) = 0 THEN {{}} ELSE {{}, {a}} :
      LET route == GaslessParams(a, listed, TRUE)
          op == RouteOp(a, route.mode, listed, allowedTargets, BuiltCost(GasUnits, gasPrice)) IN
      CASE route.ui = "SPONSORED_ONBOARDING" ->
             BudgetLeft /\ trustedSigner = ServiceKey => ModeBValid(op)
        [] route.ui = "QUSDC_GAS" ->
             /\ ModeAValid(op) => CanPay(a, AccountQuoteGas("qusdc"))
             /\ MaxFee(gasPrice) = FeeFloor =>
                  (CanPay(a, AccountQuoteGas("qusdc")) => ModeAValid(op))
        [] route.ui = "NEEDS_QUSDC" -> ~ModeAValid(op)

\* autopilot-executor.ts:137: the executor pays gas in QUSDC "only if the account
\* can actually do so right now", so as not to "submit a doomed op": whenever it
\* takes that route, the paymaster accepts the operation that is built.
QusdcRouteIsPayable ==
  phase = "idle" =>
    \A a \in Account, gasPrice \in GasPrice, prefs \in Prefs :
      SessionGasMode(a, prefs, {}, TRUE) = "qusdc" =>
        ModeAValid(RouteOp(a, "qusdc", {}, allowedTargets, BuiltCost(SessionUnits, gasPrice)))

\* gas.ts:214: resolveGasMode "mirrors the Autopilot executor's decision".  It
\* does for an account that gets a token or has no free operation left, when
\* reads fail too; then the app's own route is the same one, and a preview
\* that names native gas stands for an account that needs QUSDC.
RoutesAgreeWhenListed ==
  phase = "idle" =>
    \A a \in Account, readable \in BOOLEAN :
      \A listed \in IF RemainingFreeOps(a) = 0 THEN {{}} ELSE {{a}} :
        LET mode == SessionGasMode(a, AppPrefs, listed, readable)
            route == GaslessParams(a, listed, readable)
            label == PreviewGasLabel(a, "USER_WALLET", AppPrefs, readable) IN
        /\ \A prefs \in Prefs :
             ToBuilderGasMode(PreviewGasLabel(a, "AUTOPILOT", prefs, readable))
               = SessionGasMode(a, prefs, listed, readable)
        /\ IF mode = "none" THEN route.ui = "NEEDS_QUSDC" ELSE route.mode = mode
        /\ (mode = "none") <=> (GasModeOptions(a, readable) = {})
        /\ (mode = "none") <=> (label = "NATIVE_QIE")

\* A route is the one that is taken, and means what it says to the paymaster.
RoutesHold == RouteIsAccepted /\ RoutesAgreeWhenListed
=============================================================================
