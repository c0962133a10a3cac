----------------------------- MODULE AutopilotSetup -----------------------------
(***************************************************************************)
(* How an autopilot payment comes to be (AutopilotNew.tsx,                 *)
(* AutopilotPolicies.tsx, client.createSessionPolicy, session-keys.ts and  *)
(* createValidatedIntent of the executor): a key is minted and kept by the *)
(* service, the recipients are resolved, the id of the policy is predicted *)
(* from a nonce and an operation creates it; a payment is then scheduled   *)
(* after checks that read chain and key file at different moments.  One    *)
(* smart account; what the policy enforces later is AgentPolicyManager.    *)
(***************************************************************************)
EXTENDS Integers, Sequences, FiniteSets

CONSTANTS
  Payee,         \* addresses that are paid
  Unresolved,    \* a name without an address
  Alias,         \* names a user may write for a recipient
  Terms,         \* what a user may ask for, see TermsType
  PaymentFee,    \* QUSDC gas of a payment that is not sponsored
  StartBalance,  \* QUSDC of the account
  MaxSetups, MaxRequests, MaxChanges   \* bounds

\* The counters of a policy, each with its cap.
Counter == {"daily", "weekly", "total"}
NothingSpent == [c \in Counter |-> 0]

\* The page always allows sponsored gas, and QUSDC gas or a pause after it.
TermsType ==
  [maxPerTx : Nat, caps : [Counter -> Nat], after : Nat, until : Nat, single : BOOLEAN,
   qusdcGas : BOOLEAN]

ASSUME SetupAssumption ==
  /\ Unresolved \notin Payee
  /\ Terms \subseteq TermsType
  /\ {PaymentFee, StartBalance, MaxSetups, MaxRequests, MaxChanges} \subseteq Nat

Recipient == Payee \cup Alias
OwnKey == 0           \* the key of the advanced form; the service mints 1, 2, ...

VARIABLES
  aliasOf,       \* what a name stands for now
  keyFile,       \* keys in session-keys.json; a file cut off is read as empty
  minted,        \* number of keys minted
  policies,      \* on chain: [setup, key, nonce, to, terms, active, spent]
  setups,        \* runs of createPolicy of the page
  acctNonce,     \* of the smart account
  requests,      \* runs of createValidatedIntent
  intents,       \* of the service: [request, policy, to, amount, key]
  funds,         \* [balance, sponsored, quoted]: of the smart account; whether it has
                 \* sponsored operations left and the paymaster quotes QUSDC gas for it
  clock, changes

setupVars == <<aliasOf, keyFile, minted, policies, setups, acctNonce, requests,
               intents, funds, clock, changes>>

SetupInit ==
  /\ aliasOf \in [Alias -> Payee]
  /\ keyFile = {}
  /\ minted = 0
  /\ policies = << >>
  /\ setups = << >>
  /\ acctNonce = 0
  /\ requests = << >>
  /\ intents = << >>
  /\ funds = [balance |-> StartBalance, sponsored |-> TRUE, quoted |-> TRUE]
  /\ clock = 0
  /\ changes = 0
-----------------------------------------------------------------------------
\* The button is off while a creation runs, but the page may be opened again.
PressCreate(who, terms, advanced) ==
  /\ Len(setups) < MaxSetups
  /\ setups' = Append(setups,
       [stage |-> IF advanced THEN "resolve" ELSE "key", key |-> OwnKey, who |-> who,
        to |-> {}, terms |-> terms, nonce |-> 0, opNonce |-> 0, status |-> "none"])
  /\ UNCHANGED <<aliasOf, keyFile, minted, policies, acctNonce, requests, intents, funds,
                 clock, changes>>

\* saveStore of what loadStore has read and the new record.
SaveKey(k) == keyFile \cup {k}

\* Requests whose validation is under way see a change of what they rely on.
Unsteady == [q \in DOMAIN requests |-> [requests[q] EXCEPT !.steady = FALSE]]

\* POST /session-key: the answer may be lost, and the service may die while it
\* writes the file.
ProvisionSessionKey(s) ==
  /\ setups[s].stage = "key"
  /\ minted' = minted + 1
  /\ \/ /\ keyFile' = SaveKey(minted')
        /\ \E stage \in {"resolve", "error"} :
             setups' = [setups EXCEPT ![s].stage = stage, ![s].key = minted']
        /\ UNCHANGED <<requests, changes>>
     \/ /\ changes < MaxChanges
        /\ changes' = changes + 1
        /\ keyFile' = {}
        /\ setups' = [setups EXCEPT ![s].stage = "error"]
        /\ requests' = Unsteady
  /\ UNCHANGED <<aliasOf, policies, acctNonce, intents, funds, clock>>

Resolved(w) == IF w \in Payee THEN w ELSE aliasOf[w]

\* One of the resolutions that run beside each other; the last is followed by
\* the check of the dates.
ResolveOne(s, w) ==
  /\ setups[s].stage = "resolve"
  /\ w \in setups[s].who
  /\ setups' = [setups EXCEPT ![s] =
       IF Resolved(w) = Unresolved THEN [@ EXCEPT !.stage = "error"]
       ELSE [@ EXCEPT !.who = setups[s].who \ {w}, !.to = setups[s].to \cup {Resolved(w)},
              !.stage = IF setups[s].who # {w} THEN "resolve"
                        ELSE IF setups[s].terms.until > clock
                                /\ setups[s].terms.until > setups[s].terms.after
                             THEN "nonce" ELSE "error"]]
  /\ UNCHANGED <<aliasOf, keyFile, minted, policies, acctNonce, requests, intents, funds,
                 clock, changes>>

\* createSessionPolicy reads policyNonce, from which it predicts the id.
ReadPolicyNonce(s) ==
  /\ setups[s].stage = "nonce"
  /\ setups' = [setups EXCEPT ![s].stage = "sign", ![s].nonce = Len(policies)]
  /\ UNCHANGED <<aliasOf, keyFile, minted, policies, acctNonce, requests, intents, funds,
                 clock, changes>>

\* _submitOpNoWait: refused, accepted, or accepted without an answer.
SubmitPolicy(s) ==
  /\ setups[s].stage = "sign"
  /\ \E outcome \in {<<"error", "none">>, <<"wait", "pool">>, <<"error", "pool">>} :
       setups' = [setups EXCEPT ![s].stage = outcome[1], ![s].status = outcome[2],
                                ![s].opNonce = acctNonce]
  /\ UNCHANGED <<aliasOf, keyFile, minted, policies, acctNonce, requests, intents, funds,
                 clock, changes>>

\* AgentPolicyManager.createPolicy, called by the account
MinePolicy(s) ==
  /\ setups[s].status = "pool"
  /\ setups[s].opNonce = acctNonce
  /\ acctNonce' = acctNonce + 1
  /\ IF setups[s].terms.until > clock
       THEN /\ policies' = Append(policies,
                 [setup |-> s, key |-> setups[s].key, nonce |-> Len(policies),
                  to |-> setups[s].to, terms |-> setups[s].terms, active |-> TRUE,
                  spent |-> NothingSpent])
            /\ setups' = [setups EXCEPT ![s].status = "mined"]
       ELSE /\ setups' = [setups EXCEPT ![s].status = "reverted"]
            /\ UNCHANGED policies
  /\ UNCHANGED <<aliasOf, keyFile, minted, requests, intents, funds, clock, changes>>

DropPolicy(s) ==
  /\ setups[s].status = "pool"
  /\ setups' = [setups EXCEPT ![s].status = "dropped"]
  /\ UNCHANGED <<aliasOf, keyFile, minted, policies, acctNonce, requests, intents, funds,
                 clock, changes>>

\* Mutant: the id is shown as soon as the bundler has the operation.
AwaitPolicyNot(s) ==
  /\ setups[s].stage = "wait"
  /\ setups' = [setups EXCEPT ![s].stage = "shown"]
  /\ UNCHANGED <<aliasOf, keyFile, minted, policies, acctNonce, requests, intents, funds,
                 clock, changes>>

\* waitForUserOp: "failed", an error on the page, also when the polls are used up.
AwaitPolicy(s) ==
  /\ setups[s].stage = "wait"
  /\ \E answer \in IF setups[s].status = "mined" THEN {"shown", "error"} ELSE {"error"} :
       setups' = [setups EXCEPT ![s].stage = answer]
  /\ UNCHANGED <<aliasOf, keyFile, minted, policies, acctNonce, requests, intents, funds,
                 clock, changes>>
-----------------------------------------------------------------------------
\* policyBadge: what the policies page calls usable, on its clock.
Usable(p) == policies[p].active /\ policies[p].terms.until >= clock /\ policies[p].terms.after <= clock

\* ScheduleForm.  The policies a page has are read without their recipients, so
\* the recipient is typed.
Schedule(p, to, amount) ==
  /\ Len(requests) < MaxRequests
  /\ Usable(p)
  /\ requests' = Append(requests, [policy |-> p, to |-> to, amount |-> amount,
                                   stage |-> "policy", balance |-> 0, steady |-> TRUE])
  /\ UNCHANGED <<aliasOf, keyFile, minted, policies, setups, acctNonce, intents, funds,
                 clock, changes>>

Continue(q, ok, stage) ==
  /\ requests' = [requests EXCEPT ![q].stage = IF ok THEN stage ELSE "refused"]
  /\ UNCHANGED <<aliasOf, keyFile, minted, policies, setups, acctNonce, intents, funds,
                 clock, changes>>

\* createValidatedIntent: the policy, and what is checked on it.
ReadPolicy(q) ==
  LET policy == policies[requests[q].policy] IN
  /\ requests[q].stage = "policy"
  /\ Continue(q, /\ policy.active
                 /\ policy.terms.until > clock
                 /\ policy.terms.single
                 /\ requests[q].amount \in 1..policy.terms.maxPerTx, "recipient")

\* Mutant: the key is not asked for.
ReadRecipientOnly(q) ==
  /\ requests[q].stage = "recipient"
  /\ Continue(q, requests[q].to \in policies[requests[q].policy].to, "balance")

\* isRecipientAllowed, and the key of the policy in the file.
ReadRecipient(q) ==
  LET policy == policies[requests[q].policy] IN
  /\ requests[q].stage = "recipient"
  /\ Continue(q, requests[q].to \in policy.to /\ policy.key \in keyFile, "balance")

\* assertAffordable reads the balance ...
ReadBalance(q) ==
  /\ requests[q].stage = "balance"
  /\ requests' = [requests EXCEPT ![q].stage = "gas", ![q].balance = funds.balance]
  /\ UNCHANGED <<aliasOf, keyFile, minted, policies, setups, acctNonce, intents, funds,
                 clock, changes>>

\* resolveGasMode with the preferences of the policy
GasMode(terms) ==
  CASE funds.sponsored -> "SPONSORED_ONBOARDING"
    [] ~funds.sponsored /\ terms.qusdcGas /\ funds.quoted -> "QUSDC_GAS"
    [] OTHER -> "PAUSED"

GasCost(terms) == IF GasMode(terms) = "QUSDC_GAS" THEN PaymentFee ELSE 0

\* ... and then the gas route, and the intent is added.
AddIntent(q) ==
  LET terms == policies[requests[q].policy].terms IN
  /\ requests[q].stage = "gas"
  /\ IF GasMode(terms) # "PAUSED" /\ requests[q].balance >= requests[q].amount + GasCost(terms)
       THEN /\ requests' = [requests EXCEPT ![q].stage = "added"]
            /\ intents' = Append(intents,
                 [request |-> q, policy |-> requests[q].policy, to |-> requests[q].to,
                  amount |-> requests[q].amount, key |-> policies[requests[q].policy].key])
       ELSE /\ requests' = [requests EXCEPT ![q].stage = "refused"]
            /\ UNCHANGED intents
  /\ UNCHANGED <<aliasOf, keyFile, minted, policies, setups, acctNonce, funds, clock, changes>>
-----------------------------------------------------------------------------
\* The caps of its policy that a payment would exceed.
ExceededCaps(p, amount) ==
  {c \in Counter : policies[p].spent[c] + amount > policies[p].terms.caps[c]}

InDates(p) == clock \in policies[p].terms.after..policies[p].terms.until

\* The owner, the guardian, other payments and time.
Change ==
  /\ changes < MaxChanges
  /\ changes' = changes + 1
  /\ requests' = Unsteady
  /\ \/ /\ \E p \in DOMAIN policies : policies[p].active /\
             policies' = [policies EXCEPT ![p].active = FALSE]
        /\ UNCHANGED <<funds, clock, aliasOf, acctNonce>>
     \/ /\ \E p \in DOMAIN policies, to \in SUBSET Payee : to # policies[p].to /\
             policies' = [policies EXCEPT ![p].to = to]
        /\ UNCHANGED <<funds, clock, aliasOf, acctNonce>>
     \/ /\ \E p \in DOMAIN policies, amount \in 1..funds.balance :
             /\ policies[p].active /\ InDates(p)
             /\ amount <= policies[p].terms.maxPerTx /\ ExceededCaps(p, amount) = {}
             /\ policies' = [policies EXCEPT ![p].spent = [c \in Counter |-> @[c] + amount]]
             /\ funds' = [funds EXCEPT !.balance = @ - amount]
        /\ acctNonce' = acctNonce + 1
        /\ UNCHANGED <<clock, aliasOf>>
     \/ /\ \E p \in DOMAIN policies, c \in {"daily", "weekly"} : policies[p].spent[c] > 0 /\
             policies' = [policies EXCEPT ![p].spent[c] = 0]
        /\ UNCHANGED <<funds, clock, aliasOf, acctNonce>>
     \/ /\ \E balance \in 0..StartBalance, sponsored \in {FALSE, funds.sponsored}, quoted \in BOOLEAN :
             funds' = [balance |-> balance, sponsored |-> sponsored, quoted |-> quoted]
        /\ acctNonce' = acctNonce + 1
        /\ UNCHANGED <<policies, clock, aliasOf>>
     \/ /\ clock' = clock + 1
        /\ UNCHANGED <<policies, funds, aliasOf, acctNonce>>
     \/ /\ aliasOf' \in [Alias -> Payee \cup {Unresolved}]
        /\ UNCHANGED <<policies, funds, clock, acctNonce>>
  /\ UNCHANGED <<keyFile, minted, setups, intents>>

SetupNext ==
  \/ \E who \in SUBSET Recipient \ {{}}, terms \in Terms, advanced \in BOOLEAN :
       PressCreate(who, terms, advanced)
  \/ \E s \in DOMAIN setups :
       \/ ProvisionSessionKey(s) \/ \E w \in setups[s].who : ResolveOne(s, w)
       \/ ReadPolicyNonce(s) \/ SubmitPolicy(s) \/ MinePolicy(s) \/ DropPolicy(s) \/ AwaitPolicy(s)
  \/ \E p \in DOMAIN policies, to \in Payee, amount \in 1..StartBalance : Schedule(p, to, amount)
  \/ \E q \in DOMAIN requests : ReadPolicy(q) \/ ReadRecipient(q) \/ ReadBalance(q) \/ AddIntent(q)
  \/ Change

SetupSpec == SetupInit /\ [][SetupNext]_setupVars
-----------------------------------------------------------------------------
\* Another creation was mined after s had read the nonce and before its own.
OvertakenByAnother(s) ==
  \E p \in DOMAIN policies :
    policies[p].setup # s /\ p > setups[s].nonce
      /\ \A own \in DOMAIN policies : policies[own].setup = s => p < own

(***************************************************************************)
(* The policy id the page shows as created is that of the policy its       *)
(* operation created, unless another creation (of an earlier press that    *)
(* was reported failed, or of another tab) was mined in between; with a    *)
(* key minted for it, it is then the id of no policy, never of another     *)
(* one (client.ts:311, AutopilotNew.tsx:124).                              *)
(***************************************************************************)
ShownPolicyIsOwn ==
  \A s \in DOMAIN setups : setups[s].stage = "shown" =>
    LET Named == {p \in DOMAIN policies : policies[p].key = setups[s].key
                                           /\ policies[p].nonce = setups[s].nonce} IN
    /\ setups[s].key # OwnKey => \A p \in Named : policies[p].setup = s
    /\ ~OvertakenByAnother(s) => \E p \in Named : policies[p].setup = s /\ policies[p].terms = setups[s].terms

\* What refuses the intent if it is due now, in the executor (runIntent) or on
\* chain (validateSessionCall, the paymaster, the token).
RefusedBy(i) ==
  LET intent == intents[i]
      policy == policies[intent.policy]
      met == [active |-> policy.active,
              dates |-> InDates(intent.policy),
              selector |-> policy.terms.single,
              recipient |-> intent.to \in policy.to,
              maxPerTx |-> intent.amount <= policy.terms.maxPerTx,
              key |-> intent.key \in keyFile,
              gas |-> GasMode(policy.terms) # "PAUSED",
              funds |-> funds.balance >= intent.amount + GasCost(policy.terms)] IN
  {r \in DOMAIN met : ~met[r]} \cup ExceededCaps(intent.policy, intent.amount)

(***************************************************************************)
(* autopilot-executor.ts:424: "a bad intent is rejected at enqueue time    *)
(* rather than failing later on-chain".  The validation compares no        *)
(* counter of the policy (autopilot-executor.ts:481-548), so an intent     *)
(* over the daily, weekly or total cap is added.  Nothing else refuses an  *)
(* intent at the moment it is added, if nothing it relies on has changed   *)
(* during its validation, whatever happened before: keys minted, lost and  *)
(* minted again, policies revoked or with other recipients, money and      *)
(* sponsored operations used up.                                           *)
(***************************************************************************)
OnlyCapsRefuseScheduled ==
  [][\A i \in DOMAIN intents' \ DOMAIN intents :
       requests[intents'[i].request].steady => RefusedBy(i)' \subseteq Counter]_setupVars
=============================================================================
