------------------------------ MODULE ProfilePages ------------------------------
(***************************************************************************)
(* Who an account is known as and what it is known for: the username and   *)
(* the receipt registries, the SDK's registerUsername and getPassport, and *)
(* the pages Profile.tsx and Passport.tsx.  A username is registered by an *)
(* operation of the account, which the SDK confirms by the registry before *)
(* it asks the bundler; a passport is put together from reads that see the *)
(* registry at different moments.                                          *)
(***************************************************************************)
EXTENDS Integers, Sequences, FiniteSets

CONSTANTS
  Holder,         \* smart accounts
  Nobody,         \* the zero address, null
  Username,       \* names that pass the checks of page and contract
  NoName,         \* the empty name
  MaxRegistrations, MaxVisits, MaxReceipts, MaxPassports   \* bounds

ASSUME ProfileAssumption ==
  /\ Nobody \notin Holder
  /\ NoName \notin Username
  /\ {MaxRegistrations, MaxVisits, MaxReceipts, MaxPassports} \subseteq Nat

VARIABLES
  accountOf,      \* _usernameToAccount
  usernameOf,     \* _accountToUsername
  registration,   \* operations: [account, username, status, stage]
  profile,        \* account -> its profile page
  held,           \* history: names an account has had
  registered,     \* the receipts of the registry, oldest first
  passport,       \* runs of the passport page's effect
  visits          \* names given up and pages loaded again

nameRegistry == <<accountOf, usernameOf, held>>
profileVars == <<nameRegistry, registration, profile, registered, passport, visits>>

\* What the page shows as the registered name, and the answer of its first
\* read while that is on its way.
Opened(a) == [shown |-> NoName, busy |-> FALSE, answer |-> "none"]

ProfileInit ==
  /\ accountOf = [u \in Username |-> Nobody]
  /\ usernameOf = [a \in Holder |-> NoName]
  /\ held = [a \in Holder |-> {}]
  /\ registration = << >>
  /\ profile = [a \in Holder |-> Opened(a)]
  /\ registered = << >>
  /\ passport = << >>
  /\ visits = 0
-----------------------------------------------------------------------------
Registrable(a, u) == accountOf[u] = Nobody /\ usernameOf[a] = NoName

\* UsernameRegistry.register, with the operation that calls it.
Register(o) ==
  LET a == registration[o].account
      u == registration[o].username
      status == IF Registrable(a, u) THEN "mined" ELSE "reverted" IN
  /\ registration[o].status = "pool"
  /\ registration' = [registration EXCEPT ![o].status = status]
  /\ IF status = "mined"
       THEN /\ accountOf' = [accountOf EXCEPT ![u] = a]
            /\ usernameOf' = [usernameOf EXCEPT ![a] = u]
            /\ held' = [held EXCEPT ![a] = @ \cup {u}]
       ELSE UNCHANGED nameRegistry
  /\ UNCHANGED <<profile, registered, passport, visits>>

DropRegistration(o) ==
  /\ registration[o].status = "pool"
  /\ registration' = [registration EXCEPT ![o].status = "dropped"]
  /\ UNCHANGED <<nameRegistry, profile, registered, passport, visits>>

\* Mutant: the name is free again and the account keeps it.
ReleaseHalf(a) ==
  /\ usernameOf[a] # NoName
  /\ visits < MaxVisits
  /\ visits' = visits + 1
  /\ accountOf' = [accountOf EXCEPT ![usernameOf[a]] = Nobody]
  /\ UNCHANGED <<usernameOf, held, registration, profile, registered, passport>>

\* UsernameRegistry.release
Release(a) ==
  /\ usernameOf[a] # NoName
  /\ visits < MaxVisits
  /\ visits' = visits + 1
  /\ accountOf' = [accountOf EXCEPT ![usernameOf[a]] = Nobody]
  /\ usernameOf' = [usernameOf EXCEPT ![a] = NoName]
  /\ UNCHANGED <<held, registration, profile, registered, passport>>
-----------------------------------------------------------------------------
\* The page is opened or loaded again; what a former page still waits for is
\* not shown.
OpenProfile(a) ==
  /\ profile[a] # Opened(a)
  /\ visits < MaxVisits
  /\ visits' = visits + 1
  /\ profile' = [profile EXCEPT ![a] = Opened(a)]
  /\ registration' = [o \in DOMAIN registration |->
       IF registration[o].account = a THEN [registration[o] EXCEPT !.stage = "over"]
       ELSE registration[o]]
  /\ UNCHANGED <<nameRegistry, registered, passport>>

\* The reverse lookup of the effect; a failure is taken for no name.
LookUp(a) ==
  /\ profile[a].answer = "none"
  /\ \E answer \in {usernameOf[a], NoName} :
       profile' = [profile EXCEPT ![a].answer = answer]
  /\ UNCHANGED <<nameRegistry, registration, registered, passport, visits>>

ShowLookUp(a) ==
  /\ profile[a].answer \notin {"none", "shown"}
  /\ profile' = [profile EXCEPT ![a].answer = "shown",
       ![a].shown = IF profile[a].answer = NoName THEN @ ELSE profile[a].answer]
  /\ UNCHANGED <<nameRegistry, registration, registered, passport, visits>>

\* handleRegister up to the operation, which the bundler may refuse.
RegisterUsername(a, u) ==
  /\ profile[a].shown = NoName
  /\ ~profile[a].busy
  /\ Len(registration) < MaxRegistrations
  /\ profile' = [profile EXCEPT ![a].busy = TRUE]
  /\ registration' = Append(registration,
       [account |-> a, username |-> u, status |-> "pool", stage |-> "poll"])
  /\ UNCHANGED <<nameRegistry, registered, passport, visits>>

\* handleRegister after registerUsername, whatever its result says.
ShowRegistered(o) ==
  /\ profile' = [profile EXCEPT ![registration[o].account].busy = FALSE,
                                ![registration[o].account].shown = registration[o].username]
  /\ registration' = [registration EXCEPT ![o].stage = "over"]

\* _waitForRegisteredUsername
Confirmed(o) == usernameOf[registration[o].account] = registration[o].username

PollRegistry(o) ==
  /\ registration[o].stage = "poll"
  /\ IF Confirmed(o) THEN ShowRegistered(o)
     ELSE /\ registration' = [registration EXCEPT ![o].stage = "wait"]
          /\ UNCHANGED profile
  /\ UNCHANGED <<nameRegistry, registered, passport, visits>>

\* waitForUserOp, which answers "failed" for a revert and for polls used up.
AwaitRegistration(o) ==
  /\ registration[o].stage = "wait"
  /\ ShowRegistered(o)
  /\ UNCHANGED <<nameRegistry, registered, passport, visits>>

\* A read of the registry fails: the page shows the error.
RegistrationFails(o) ==
  /\ registration[o].stage = "poll"
  /\ registration' = [registration EXCEPT ![o].stage = "over"]
  /\ profile' = [profile EXCEPT ![registration[o].account].busy = FALSE]
  /\ UNCHANGED <<nameRegistry, registered, passport, visits>>
-----------------------------------------------------------------------------
\* ReceiptRegistry.createReceipt, by the service's issuer.
CreateReceipt(payer, payee, private) ==
  /\ Len(registered) < MaxReceipts
  /\ registered' = Append(registered, [payer |-> payer, payee |-> payee, private |-> private])
  /\ UNCHANGED <<nameRegistry, registration, profile, passport, visits>>

ReceiptsOf(role, a) == {i \in DOMAIN registered : registered[i][role] = a}

\* Distinct receipts that name the account.
ReceiptCount(a) == Cardinality(ReceiptsOf("payer", a) \cup ReceiptsOf("payee", a))

\* The effect of the page for a name or an account; a former run is unmounted.
OpenPassport(key) ==
  /\ Len(passport) < MaxPassports
  /\ passport' = Append([i \in DOMAIN passport |-> [passport[i] EXCEPT !.mounted = FALSE]],
       [key |-> key, account |-> IF key \in Holder THEN key ELSE Nobody, stage |-> "resolve",
        payer |-> << >>, payee |-> << >>, mounted |-> TRUE, before |-> 0])
  /\ UNCHANGED <<nameRegistry, registration, profile, registered, visits>>

ResolvePassport(i) ==
  LET account == IF passport[i].account # Nobody THEN passport[i].account
                 ELSE accountOf[passport[i].key] IN
  /\ passport[i].stage = "resolve"
  /\ passport' = [passport EXCEPT ![i] = IF account = Nobody
       THEN [@ EXCEPT !.stage = "error"]
       ELSE [@ EXCEPT !.stage = "read", !.account = account, !.before = ReceiptCount(account)]]
  /\ UNCHANGED <<nameRegistry, registration, profile, registered, visits>>

\* listByPayer and listByPayee, in either order.
ListBy(i, role) ==
  /\ passport[i].stage = "read"
  /\ passport[i][role] = << >>
  /\ passport' = [passport EXCEPT ![i][role] = <<ReceiptsOf(role, passport[i].account)>>]
  /\ UNCHANGED <<nameRegistry, registration, profile, registered, visits>>

\* Mutant: a receipt of both lists stays twice.
ListForAccountTwice(i) ==
  LET byPayer == passport[i].payer[1]
      byPayee == passport[i].payee[1] IN
  {<<r, "payer">> : r \in byPayer} \cup {<<r, "payee">> : r \in byPayee}

\* listForAccount, once each
ListForAccount(i) ==
  LET byPayer == passport[i].payer[1]
      byPayee == passport[i].payee[1] IN
  {<<r, "payer">> : r \in byPayer} \cup {<<r, "payee">> : r \in byPayee \ byPayer}

AggregatePassport(i) ==
  LET list == ListForAccount(i)
      a == passport[i].account
      In(role) == {e \in list : registered[e[1]][role] = a} IN
  [total |-> Cardinality(list),
   sent |-> Cardinality(In("payer")),
   received |-> Cardinality(In("payee")),
   volumePrivate |-> \E e \in list : registered[e[1]].private]

ShowPassport(i) ==
  /\ passport[i].stage = "read"
  /\ passport[i].payer # << >> /\ passport[i].payee # << >>
  /\ passport' = [passport EXCEPT ![i].stage = IF passport[i].mounted THEN "shown" ELSE "over"]
  /\ UNCHANGED <<nameRegistry, registration, profile, registered, visits>>

ProfileNext ==
  \/ \E o \in DOMAIN registration :
       Register(o) \/ DropRegistration(o) \/ PollRegistry(o) \/ AwaitRegistration(o)
         \/ RegistrationFails(o)
  \/ \E a \in Holder : Release(a) \/ OpenProfile(a) \/ LookUp(a) \/ ShowLookUp(a)
  \/ \E a \in Holder, u \in Username : RegisterUsername(a, u)
  \/ \E payer, payee \in Holder, private \in BOOLEAN : CreateReceipt(payer, payee, private)
  \/ \E key \in Holder \cup Username : OpenPassport(key)
  \/ \E i \in DOMAIN passport : ResolvePassport(i) \/ ShowPassport(i)
       \/ \E role \in {"payer", "payee"} : ListBy(i, role)

ProfileSpec == ProfileInit /\ [][ProfileNext]_profileVars
-----------------------------------------------------------------------------
(***************************************************************************)
(* Registration "has a direct on-chain success signal" (client.ts:691):    *)
(* when the registry confirms it, payments to the name go to the account.  *)
(* What is read is the account's name, what a payer reads is the name's    *)
(* account: it takes the two mappings to be each other's inverse through   *)
(* registrations, releases and registrations by others.                    *)
(***************************************************************************)
ConfirmedNameResolves ==
  \A o \in DOMAIN registration :
    registration[o].stage = "poll" /\ Confirmed(o) =>
      accountOf[registration[o].username] = registration[o].account

(***************************************************************************)
(* README.md:216: the page shows the registered username "instead of       *)
(* leaving the form in an ambiguous state": a name it shows has been the   *)
(* account's.  Broken: the result of registerUsername is not looked at.    *)
(***************************************************************************)
ShownNameWasHeld == \A a \in Holder : profile[a].shown \in held[a] \cup {NoName}

(***************************************************************************)
(* A passport that is shown is of some moment between its first read and   *)
(* now: it counts every receipt of the account that was there before it    *)
(* was read, and none twice, though the payer's and the payee's lists are  *)
(* read apart; what it calls sent and received covers it.                  *)
(***************************************************************************)
PassportWithinItsReads ==
  \A i \in DOMAIN passport : passport[i].stage = "shown" =>
    LET stats == AggregatePassport(i) IN
    /\ passport[i].before <= stats.total
    /\ stats.total <= ReceiptCount(passport[i].account)
    /\ stats.total <= stats.sent + stats.received
=============================================================================
