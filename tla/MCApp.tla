--------------------------------- MODULE MCApp ---------------------------------
(***************************************************************************)
(* The web application, for TLC: the payment links with the history page,  *)
(* the send page, the pages that operate the account, the connection to    *)
(* the wallet, the profile and passport pages, the set-up of an autopilot  *)
(* payment, the feeds, and the agent commands.  They share no state that   *)
(* the others read, so a behaviour has one of them open and the others     *)
(* rest.                                                                   *)
(***************************************************************************)
EXTENDS LinkHistory, SendFlow, AccountPages, WalletSession, ProfilePages, AutopilotSetup,
  HistoryFeeds, AgentCommands

CONSTANTS p1, p2

\* What the proofs about the commands take as a hypothesis.
ASSUME SentencesAreRead == EachFormIsRead

VARIABLE open

appVars == <<historyVars, sendVars, accountVars, walletVars, profileVars, setupVars, feedVars,
             commandVars, open>>

Open(p, step) ==
  /\ open = p
  /\ step
  /\ p # "history" => UNCHANGED historyVars
  /\ p # "send" => UNCHANGED sendVars
  /\ p # "account" => UNCHANGED accountVars
  /\ p # "wallet" => UNCHANGED walletVars
  /\ p \notin {"profile", "passport"} => UNCHANGED profileVars
  /\ p # "setup" => UNCHANGED setupVars
  /\ p # "feed" => UNCHANGED feedVars
  /\ p # "command" => UNCHANGED commandVars
  /\ UNCHANGED open

\* The services start with a name or without it: the username is p2's, the
\* domain p1's in the registry and p2's for the resolver.
AppInit ==
  /\ HistoryInit
  /\ SendInit
  /\ AccountInit
  /\ WalletInit
  /\ ProfileInit
  /\ SetupInit
  /\ FeedInit
  /\ CommandInit
  /\ open \in {"history", "send", "account", "wallet", "profile", "passport", "setup", "feed",
               "command"}
  /\ \A w \in Alias : aliasOf[w] = p1
  /\ \A n \in Nick : ownerOf[n] = p1
  /\ open # "wallet" => saved = NoAcct /\ ~present /\ granted = NoAcct
  /\ \A n \in Name : /\ names["username"][n] \in {NoOne, p2}
                     /\ names["registry"][n] \in {NoOne, p1}
                     /\ names["resolver"][n] = p2
  /\ requestor \in {NoOne, p1}
  /\ open # "send" => requestor = NoOne
  /\ open # "send" \/ requestor # NoOne =>
       domainConfig = {} /\ \A n \in Name : names["username"][n] = p2 /\ names["registry"][n] = p1

\* The last link is made while the user does less on the page.
HistorySteps == HistoryNext /\ (moves' = MaxMoves => linkCount' < MaxLinks)

\* The runs under way end after the last operation, and no new one begins.
AccountSteps ==
  /\ AccountNext
  /\ Len(userOps) = MaxAccountOps => \A t \in DOMAIN task : task[t] = Over => task'[t] = Over

\* Two scans of the chain run beside each other while it is short.
FeedSteps == FeedNext /\ (Len(scan') = 2 => Len(logs') <= 1)

\* The second of two commands is always the same.
CommandSteps ==
  IF commands = << >> THEN CommandNext
  ELSE Say(Intent("send", <<Order("bob", "5")>>, << >>)) \/ PlanNext

\* A payment is scheduled, and what it relies on changes twice, while there is
\* one creation.
SetupSteps == SetupNext /\ (requests' # << >> \/ changes' = 2 => Len(setups') <= 1)

\* The registry of names with the profile page ...
ProfileSteps == ProfileNext /\ UNCHANGED <<registered, passport>>

\* ... and with the passport page, while a name is registered and given up.
PassportSteps ==
  /\ ProfileNext
  /\ Len(registration') <= 1
  /\ \A o \in DOMAIN registration' : registration'[o].stage = "poll"
  /\ \A a \in Holder : profile'[a].answer = "none"

AppNext ==
  \/ Open("history", HistorySteps)
  \/ Open("send", SendNext)
  \/ Open("account", AccountSteps)
  \/ Open("wallet", WalletNext)
  \/ Open("profile", ProfileSteps)
  \/ Open("passport", PassportSteps)
  \/ Open("setup", SetupSteps)
  \/ Open("feed", FeedSteps)
  \/ Open("command", CommandSteps)

AppSpec == AppInit /\ [][AppNext]_appVars
-----------------------------------------------------------------------------
mcKinds == [p \in Page |-> {"batch", "bulk"}]

mcLinkBatch == {<<[amount |-> 1, target |-> p1]>>,
                <<[amount |-> 1, target |-> p1], [amount |-> 1, target |-> p1]>>}

\* The daily cap is used up by one payment; the other kind of terms is for
\* other actions and stops without sponsored gas.
mcCaps == [c \in Counter |-> IF c = "daily" THEN 1 ELSE 2]

mcTerms == {[maxPerTx |-> 1, caps |-> mcCaps, after |-> 0, until |-> 2, single |-> TRUE,
             qusdcGas |-> TRUE],
            [maxPerTx |-> 2, caps |-> mcCaps, after |-> 0, until |-> 1, single |-> FALSE,
             qusdcGas |-> FALSE]}
================================================================================
