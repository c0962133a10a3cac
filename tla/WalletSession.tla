----------------------------- MODULE WalletSession -----------------------------
(***************************************************************************)
(* The connection of the app to the wallet of the browser (useWallet.ts):  *)
(* the silent reconnection of a returning user, connections that the user  *)
(* or a switch of accounts in the wallet starts, and the disconnection.    *)
(*                                                                         *)
(* A run is one call of connect, or the effect that reconnects.  It waits  *)
(* for the provider, asks it for the account, and has the smart account    *)
(* derived.                                                                *)
(***************************************************************************)
EXTENDS Naturals, Sequences

CONSTANTS
  Acct,        \* accounts of the wallet
  NoAcct,      \* undefined
  MaxRuns,     \* bound on runs of one page load
  MaxSwitches  \* bound on switches, disconnections and reloads

ASSUME WalletAssumption ==
  /\ NoAcct \notin Acct
  /\ {MaxRuns, MaxSwitches} \subseteq Nat

VARIABLES
  present,     \* the wallet has injected its provider
  granted,     \* the account the wallet lets the site see
  saved,       \* qevie_signer_address in the local storage
  session,     \* the account that signer, signerAddress and address are of
  connecting,  \* isConnecting
  listening,   \* accountsChanged is listened to
  run,         \* the runs of this page load, the oldest first
  switches,    \* history: how many switches, disconnections and reloads
  upset        \* history: an answer overtook a later one, or never came, or
               \* a switch of accounts was not heard

walletVars ==
  <<present, granted, saved, session, connecting, listening, run, switches, upset>>

NewRun(kind) == [kind |-> kind, stage |-> "provider", acct |-> NoAcct]

Live(r) == run[r].stage \notin {"failed", "done"}

\* The effect of the mount: a run, if an account was saved.
Mounted(account) == IF account = NoAcct THEN << >> ELSE <<NewRun("reconnect")>>

WalletInit ==
  /\ present \in BOOLEAN
  /\ granted \in Acct \cup {NoAcct}
  /\ saved \in Acct \cup {NoAcct}
  /\ session = NoAcct
  /\ connecting = FALSE
  /\ listening = FALSE
  /\ run = Mounted(saved)
  /\ switches = 0
  /\ upset = FALSE

\* In-app browsers inject the provider after the app has mounted.
Inject ==
  /\ ~present
  /\ present' = TRUE
  /\ UNCHANGED <<granted, saved, session, connecting, listening, run, switches, upset>>

\* The button, which is off while a connection is under way and is not shown
\* to a connected user.
PressConnect ==
  /\ session = NoAcct /\ ~connecting
  /\ Len(run) < MaxRuns
  /\ run' = Append(run, NewRun("connect"))
  /\ connecting' = TRUE
  /\ UNCHANGED <<present, granted, saved, session, listening, switches, upset>>

\* What every end of connect does, and no end of the reconnection.
EndsConnecting(r) == connecting' = (connecting /\ run[r].kind # "connect")

\* resolveProvider.
ResolveProvider(r) ==
  /\ run[r].stage = "provider"
  /\ \/ /\ present
        /\ run' = [run EXCEPT ![r].stage = "ask"]
        /\ UNCHANGED <<connecting, upset>>
     \/ /\ ~present
        /\ run' = [run EXCEPT ![r].stage = "failed"]
        /\ upset' = TRUE
        /\ EndsConnecting(r)
  /\ UNCHANGED <<present, granted, saved, session, listening, switches>>

\* eth_accounts for the reconnection: without an account nobody is saved.
\* eth_requestAccounts for a connection: the wallet asks its user if it has to,
\* which may be refused, or be under way already; the listener hears of it.
AskAccounts(r) ==
  /\ run[r].stage = "ask"
  /\ \/ /\ granted # NoAcct
        /\ run' = [run EXCEPT ![r].stage = "derive", ![r].acct = granted]
        /\ UNCHANGED <<granted, saved, connecting, upset>>
     \/ /\ run[r].kind = "reconnect" /\ granted = NoAcct
        /\ run' = [run EXCEPT ![r].stage = "done"]
        /\ saved' = NoAcct
        /\ UNCHANGED <<granted, connecting, upset>>
     \/ /\ run[r].kind = "connect" /\ granted = NoAcct
        /\ listening => Len(run) < MaxRuns
        /\ granted' \in Acct
        /\ run' = [run EXCEPT ![r].stage = "derive", ![r].acct = granted']
                    \o (IF listening THEN <<NewRun("connect")>> ELSE << >>)
        /\ connecting' = (connecting \/ listening)
        /\ UNCHANGED <<saved, upset>>
     \/ /\ run' = [run EXCEPT ![r].stage = "failed"]
        /\ upset' = TRUE
        /\ EndsConnecting(r)
        /\ UNCHANGED <<granted, saved>>
  /\ UNCHANGED <<present, session, listening, switches>>

Overtaken(r) == \E later \in r + 1..Len(run) : run[later].stage = "done"

\* getSmartAccountAddress within its 12 seconds, and what follows: session and
\* storage, and the listener, which only the reconnection installs.
SmartAccountDerived(r) ==
  /\ run[r].stage = "derive"
  /\ EndsConnecting(r)
  /\ \/ /\ run' = [run EXCEPT ![r].stage = "done"]
        /\ session' = run[r].acct
        /\ saved' = run[r].acct
        /\ listening' = (listening \/ run[r].kind = "reconnect")
        /\ upset' = (upset \/ Overtaken(r))
     \/ /\ run' = [run EXCEPT ![r].stage = "failed"]
        /\ upset' = TRUE
        /\ UNCHANGED <<session, saved, listening>>
  /\ UNCHANGED <<present, granted, switches>>

\* disconnect, which stops no run.
Disconnected ==
  /\ session' = NoAcct
  /\ saved' = NoAcct

Disconnect ==
  /\ session # NoAcct
  /\ switches < MaxSwitches
  /\ switches' = switches + 1
  /\ Disconnected
  /\ UNCHANGED <<present, granted, connecting, listening, run, upset>>

\* Mutant: a switch that comes while a connection is under way is not followed.
SwitchAccountBusy(account) ==
  /\ present
  /\ account # granted
  /\ switches < MaxSwitches
  /\ granted' = account
  /\ switches' = switches + 1
  /\ \/ /\ ~listening
        /\ upset' = TRUE
        /\ UNCHANGED <<saved, session, connecting, run>>
     \/ /\ listening /\ account = NoAcct
        /\ Disconnected
        /\ upset' = (upset \/ \E r \in DOMAIN run : Live(r))
        /\ UNCHANGED <<connecting, run>>
     \/ /\ listening /\ account # NoAcct
        /\ Len(run) < MaxRuns
        /\ run' = IF connecting THEN run ELSE Append(run, NewRun("connect"))
        /\ connecting' = TRUE
        /\ UNCHANGED <<saved, session, upset>>
  /\ UNCHANGED <<present, listening>>

\* The user switches accounts in the wallet, or takes the site's access away.
\* The listener connects again, also while a connection is under way.
SwitchAccount(account) ==
  /\ present
  /\ account # granted
  /\ switches < MaxSwitches
  /\ granted' = account
  /\ switches' = switches + 1
  /\ \/ /\ ~listening
        /\ upset' = TRUE
        /\ UNCHANGED <<saved, session, connecting, run>>
     \/ /\ listening /\ account = NoAcct
        /\ Disconnected
        /\ upset' = (upset \/ \E r \in DOMAIN run : Live(r))
        /\ UNCHANGED <<connecting, run>>
     \/ /\ listening /\ account # NoAcct
        /\ Len(run) < MaxRuns
        /\ run' = Append(run, NewRun("connect"))
        /\ connecting' = TRUE
        /\ UNCHANGED <<saved, session, upset>>
  /\ UNCHANGED <<present, listening>>

\* The page is loaded again: nothing but the storage survives.
Reload ==
  /\ switches < MaxSwitches
  /\ switches' = switches + 1
  /\ session' = NoAcct
  /\ connecting' = FALSE
  /\ listening' = FALSE
  /\ run' = Mounted(saved)
  /\ upset' = FALSE
  /\ UNCHANGED <<present, granted, saved>>

WalletNext ==
  \/ Inject
  \/ PressConnect
  \/ \E r \in DOMAIN run : ResolveProvider(r) \/ AskAccounts(r) \/ SmartAccountDerived(r)
  \/ Disconnect
  \/ \E account \in Acct \cup {NoAcct} : SwitchAccount(account)
  \/ Reload

WalletSpec == WalletInit /\ [][WalletNext]_walletVars
-----------------------------------------------------------------------------
(***************************************************************************)
(* "React to the user switching accounts": once the listener is installed  *)
(* and no connection is under way, the session is of the account the       *)
(* wallet is on, however many switches came during a connection, unless an *)
(* answer overtook a later one, or a switch came before there was a        *)
(* listener.                                                               *)
(***************************************************************************)
SessionFollowsWallet ==
  listening /\ ~upset /\ (\A r \in DOMAIN run : ~Live(r)) => session \in {granted, NoAcct}
=============================================================================
