-------------------------------- MODULE AppProofs --------------------------------
(***************************************************************************)
(* Proofs about the pages of the web application, each for any wallets,    *)
(* people, amounts and interleaving of its callbacks: the profile and the  *)
(* passport, the connection to the wallet, the set-up of an autopilot      *)
(* payment, the payment links with the history page, the send page, the    *)
(* pages that operate the account, the feeds, and the agent commands.      *)
(* They share no state, so each part is about the specification of its     *)
(* own module.                                                             *)
(***************************************************************************)
EXTENDS LinkHistory, SendFlow, AccountPages, WalletSession, ProfilePages, AutopilotSetup,
  HistoryFeeds, AgentCommands, SequenceTheorems, SumTheorems
-----------------------------------------------------------------------------
Registration ==
  [account : Holder, username : Username, status : {"pool", "mined", "reverted", "dropped"},
   stage : {"poll", "wait", "over"}]

\* What an account is called leads back to it.
NamesLeadBack ==
  \A a \in Holder : usernameOf[a] # NoName => accountOf[usernameOf[a]] = a

NamesInv ==
  /\ accountOf \in [Username -> Holder \cup {Nobody}]
  /\ usernameOf \in [Holder -> Username \cup {NoName}]
  /\ registration \in Seq(Registration)
  /\ NamesLeadBack

LEMMA NamesInitially == ProfileInit => NamesInv
BY DEF ProfileInit, NamesInv, NamesLeadBack

\* Steps that leave the mappings alone and only move operations on.
LEMMA NamesUntouched ==
  ASSUME NamesInv, UNCHANGED <<accountOf, usernameOf>>, registration' \in Seq(Registration)
  PROVE  NamesInv'
BY DEF NamesInv, NamesLeadBack

LEMMA RegistrationsTyped ==
  ASSUME NamesInv, NEW o \in DOMAIN registration
  PROVE  registration[o] \in Registration
BY DEF NamesInv

LEMMA RegistrationMoves ==
  ASSUME NamesInv, NEW o \in DOMAIN registration,
         \/ \E x \in {"pool", "mined", "reverted", "dropped"} :
              registration' = [registration EXCEPT ![o].status = x]
         \/ \E x \in {"poll", "wait", "over"} :
              registration' = [registration EXCEPT ![o].stage = x]
  PROVE  registration' \in Seq(Registration)
<1>1. registration \in Seq(Registration) /\ registration[o] \in Registration
  BY RegistrationsTyped DEF NamesInv
<1>2. PICK r \in Registration : registration' = [registration EXCEPT ![o] = r]
  <2>1. ASSUME NEW x \in {"pool", "mined", "reverted", "dropped"},
               registration' = [registration EXCEPT ![o].status = x]
        PROVE  \E r \in Registration : registration' = [registration EXCEPT ![o] = r]
    <3>1. [registration[o] EXCEPT !.status = x] \in Registration
      BY <1>1 DEF Registration
    <3>. QED
      BY <2>1, <3>1
  <2>2. ASSUME NEW x \in {"poll", "wait", "over"},
               registration' = [registration EXCEPT ![o].stage = x]
        PROVE  \E r \in Registration : registration' = [registration EXCEPT ![o] = r]
    <3>1. [registration[o] EXCEPT !.stage = x] \in Registration
      BY <1>1 DEF Registration
    <3>. QED
      BY <2>2, <3>1
  <2>. QED
    BY <2>1, <2>2
<1>. QED
  BY <1>1, <1>2

LEMMA RegisterKeeps ==
  ASSUME NamesInv, NEW o \in DOMAIN registration, Register(o)
  PROVE  NamesInv'
<1>. PICK a, u : a = registration[o].account /\ u = registration[o].username
  OBVIOUS
<1>1. a \in Holder /\ u \in Username
  BY RegistrationsTyped DEF Registration
<1>2. registration' \in Seq(Registration)
  <2>1. \E x \in {"mined", "reverted"} : registration' = [registration EXCEPT ![o].status = x]
    BY DEF Register
  <2>. QED
    BY <2>1, RegistrationMoves
<1>3. CASE Registrable(a, u)
  <2>1. /\ accountOf' = [accountOf EXCEPT ![u] = a]
        /\ usernameOf' = [usernameOf EXCEPT ![a] = u]
    BY <1>3 DEF Register
  <2>2. accountOf[u] = Nobody /\ usernameOf[a] = NoName
    BY <1>3 DEF Registrable
  <2>3. /\ accountOf' \in [Username -> Holder \cup {Nobody}]
        /\ usernameOf' \in [Holder -> Username \cup {NoName}]
    BY <1>1, <2>1 DEF NamesInv
  <2>4. ASSUME NEW b \in Holder, usernameOf'[b] # NoName
        PROVE  accountOf'[usernameOf'[b]] = b
    <3>1. CASE b = a
      BY <1>1, <2>1, <3>1 DEF NamesInv
    <3>2. CASE b # a
      <4>1. usernameOf'[b] = usernameOf[b] /\ usernameOf[b] # NoName
        BY <2>1, <2>4, <3>2 DEF NamesInv
      <4>2. accountOf[usernameOf[b]] = b /\ usernameOf[b] \in Username
        BY <4>1 DEF NamesInv, NamesLeadBack
      <4>3. usernameOf[b] # u
        BY <2>2, <4>2, ProfileAssumption
      <4>. QED
        BY <2>1, <4>1, <4>2, <4>3 DEF NamesInv
    <3>. QED
      BY <3>1, <3>2
  <2>. QED
    BY <1>2, <2>3, <2>4 DEF NamesInv, NamesLeadBack
<1>4. CASE ~Registrable(a, u)
  <2>1. UNCHANGED <<accountOf, usernameOf>>
    BY <1>4 DEF Register, nameRegistry
  <2>. QED
    BY <1>2, <2>1, NamesUntouched
<1>. QED
  BY <1>3, <1>4

LEMMA ReleaseKeeps ==
  ASSUME NamesInv, NEW a \in Holder, Release(a)
  PROVE  NamesInv'
<1>. PICK u : u = usernameOf[a]
  OBVIOUS
<1>1. /\ u # NoName /\ u \in Username /\ accountOf[u] = a
      /\ accountOf' = [accountOf EXCEPT ![u] = Nobody]
      /\ usernameOf' = [usernameOf EXCEPT ![a] = NoName]
      /\ registration' = registration
  BY DEF Release, NamesInv, NamesLeadBack
<1>2. /\ accountOf' \in [Username -> Holder \cup {Nobody}]
      /\ usernameOf' \in [Holder -> Username \cup {NoName}]
  BY <1>1 DEF NamesInv
<1>3. ASSUME NEW b \in Holder, usernameOf'[b] # NoName
      PROVE  accountOf'[usernameOf'[b]] = b
  <2>1. b # a /\ usernameOf'[b] = usernameOf[b]
    BY <1>1, <1>3 DEF NamesInv
  <2>2. accountOf[usernameOf[b]] = b /\ usernameOf[b] \in Username
    BY <1>3, <2>1 DEF NamesInv, NamesLeadBack
  <2>3. usernameOf[b] # u
    BY <1>1, <2>1, <2>2
  <2>. QED
    BY <1>1, <2>1, <2>2, <2>3 DEF NamesInv
<1>. QED
  BY <1>1, <1>2, <1>3 DEF NamesInv, NamesLeadBack

LEMMA NamesKept == NamesInv /\ [ProfileNext]_profileVars => NamesInv'
<1>. SUFFICES ASSUME NamesInv, [ProfileNext]_profileVars
              PROVE  NamesInv'
  OBVIOUS
<1>. USE DEF nameRegistry
<1>0. registration \in Seq(Registration)
  BY DEF NamesInv
<1>1. ASSUME NEW o \in DOMAIN registration, Register(o)
      PROVE  NamesInv'
  BY <1>1, RegisterKeeps
<1>2. ASSUME NEW o \in DOMAIN registration,
             DropRegistration(o) \/ PollRegistry(o) \/ AwaitRegistration(o) \/ RegistrationFails(o)
      PROVE  NamesInv'
  <2>1. UNCHANGED <<accountOf, usernameOf>>
    BY <1>2 DEF DropRegistration, PollRegistry, AwaitRegistration, RegistrationFails
  <2>2. \/ registration' = [registration EXCEPT ![o].status = "dropped"]
        \/ registration' = [registration EXCEPT ![o].stage = "wait"]
        \/ registration' = [registration EXCEPT ![o].stage = "over"]
    BY <1>2 DEF DropRegistration, PollRegistry, AwaitRegistration, RegistrationFails, ShowRegistered
  <2>3. registration' \in Seq(Registration)
    BY <2>2, RegistrationMoves
  <2>. QED
    BY <2>1, <2>3, NamesUntouched
<1>3. ASSUME NEW a \in Holder, Release(a)
      PROVE  NamesInv'
  BY <1>3, ReleaseKeeps
<1>4. ASSUME NEW a \in Holder, OpenProfile(a)
      PROVE  NamesInv'
  <2>1. \A o \in DOMAIN registration : /\ registration[o] \in Registration
          /\ [registration[o] EXCEPT !.stage = "over"] \in Registration
    <3>. SUFFICES ASSUME NEW o \in DOMAIN registration
                  PROVE  /\ registration[o] \in Registration
                         /\ [registration[o] EXCEPT !.stage = "over"] \in Registration
      OBVIOUS
    <3>1. registration[o] \in Registration
      BY RegistrationsTyped
    <3>. QED
      BY <3>1 DEF Registration
  <2>2. registration' \in Seq(Registration)
    BY <1>0, <1>4, <2>1 DEF OpenProfile
  <2>. QED
    BY <1>4, <2>2, NamesUntouched DEF OpenProfile
<1>5. ASSUME NEW a \in Holder, LookUp(a) \/ ShowLookUp(a)
      PROVE  NamesInv'
  BY <1>0, <1>5, NamesUntouched DEF LookUp, ShowLookUp
<1>6. ASSUME NEW a \in Holder, NEW u \in Username, RegisterUsername(a, u)
      PROVE  NamesInv'
  <2>1. [account |-> a, username |-> u, status |-> "pool", stage |-> "poll"] \in Registration
    BY DEF Registration
  <2>2. registration' \in Seq(Registration)
    BY <1>0, <1>6, <2>1 DEF RegisterUsername
  <2>. QED
    BY <1>6, <2>2, NamesUntouched DEF RegisterUsername
<1>7. ASSUME \/ \E payer, payee \in Holder, private \in BOOLEAN : CreateReceipt(payer, payee, private)
             \/ \E key \in Holder \cup Username : OpenPassport(key)
             \/ \E i \in DOMAIN passport : ResolvePassport(i) \/ ShowPassport(i)
                  \/ \E role \in {"payer", "payee"} : ListBy(i, role)
      PROVE  NamesInv'
  <2>1. UNCHANGED <<accountOf, usernameOf, registration>>
    BY <1>7 DEF CreateReceipt, OpenPassport, ResolvePassport, ShowPassport, ListBy
  <2>. QED
    BY <1>0, <2>1, NamesUntouched
<1>8. CASE UNCHANGED profileVars
  BY <1>0, <1>8, NamesUntouched DEF profileVars
<1>. QED
  BY <1>1, <1>2, <1>3, <1>4, <1>5, <1>6, <1>7, <1>8 DEF ProfileNext

LEMMA NamesInvResolves == NamesInv => ConfirmedNameResolves
<1>. SUFFICES ASSUME NamesInv, NEW o \in DOMAIN registration, Confirmed(o)
              PROVE  accountOf[registration[o].username] = registration[o].account
  BY DEF ConfirmedNameResolves
<1>1. registration[o].account \in Holder /\ registration[o].username \in Username
  BY RegistrationsTyped DEF Registration
<1>. QED
  BY <1>1, ProfileAssumption DEF NamesInv, NamesLeadBack, Confirmed

(***************************************************************************)
(* When the registry confirms a registration to registerUsername, payments *)
(* to the name go to the account, for any number of accounts, names, pages *)
(* and operations that register and release beside it.                     *)
(***************************************************************************)
THEOREM ConfirmedResolves == ProfileSpec => []ConfirmedNameResolves
BY NamesInitially, NamesKept, NamesInvResolves, PTL DEF ProfileSpec

-----------------------------------------------------------------------------
(***************************************************************************)
(* The passport.  While it is read there is a moment, a length of the      *)
(* registry between the first read and now, whose receipts were counted    *)
(* then, and which both lists contain as far as they have been read.       *)
(***************************************************************************)
Receipt == [payer : Holder, payee : Holder, private : BOOLEAN]

PassportRun ==
  [key : Holder \cup Username, account : Holder \cup {Nobody},
   stage : {"resolve", "read", "shown", "over", "error"},
   payer : Seq(SUBSET Nat), payee : Seq(SUBSET Nat), mounted : BOOLEAN, before : Nat]

\* The receipts of an account among the first n.
EarlyReceipts(role, a, n) == {k \in ReceiptsOf(role, a) : k <= n}

\* A list that was read has them, and no receipt of others.
ListSound(list, role, a, n) ==
  list # << >> => EarlyReceipts(role, a, n) \subseteq list[1] /\ list[1] \subseteq ReceiptsOf(role, a)

ReadSince(pass, n) ==
  /\ n <= Len(registered)
  /\ pass.before = Cardinality(EarlyReceipts("payer", pass.account, n)
                                 \cup EarlyReceipts("payee", pass.account, n))
  /\ ListSound(pass.payer, "payer", pass.account, n)
  /\ ListSound(pass.payee, "payee", pass.account, n)

PassportSound(pass) ==
  /\ pass.stage = "resolve" => /\ pass.payer = << >> /\ pass.payee = << >>
                               /\ pass.account = Nobody => pass.key \in Username
  /\ pass.stage \in {"read", "shown"} => \E n \in Nat : ReadSince(pass, n)
  /\ pass.stage = "shown" => pass.payer # << >> /\ pass.payee # << >>

PassportInv ==
  /\ registered \in Seq(Receipt)
  /\ passport \in Seq(PassportRun)
  /\ \A i \in DOMAIN passport : PassportSound(passport[i])

LEMMA PassportInitially == ProfileInit => PassportInv
BY DEF ProfileInit, PassportInv

LEMMA ReceiptsFinite ==
  ASSUME registered \in Seq(Receipt), NEW role, NEW a
  PROVE  /\ ReceiptsOf(role, a) \subseteq 1..Len(registered)
         /\ ReceiptsOf(role, a) \in SUBSET Nat
         /\ IsFiniteSet(ReceiptsOf(role, a))
<1>1. DOMAIN registered = 1..Len(registered) /\ Len(registered) \in Nat
  OBVIOUS
<1>2. ReceiptsOf(role, a) \subseteq 1..Len(registered) /\ ReceiptsOf(role, a) \in SUBSET Nat
  BY <1>1 DEF ReceiptsOf
<1>3. IsFiniteSet(1..Len(registered))
  BY <1>1, FS_Interval
<1>. QED
  BY <1>2, <1>3, FS_Subset

\* A list of both roles names each receipt once.
LEMMA ListedOnce ==
  ASSUME NEW byPayer, NEW byPayee, IsFiniteSet(byPayer), IsFiniteSet(byPayee),
         NEW list, list = {<<r, "payer">> : r \in byPayer} \cup {<<r, "payee">> : r \in byPayee \ byPayer}
  PROVE  IsFiniteSet(list) /\ Cardinality(list) = Cardinality(byPayer \cup byPayee)
<1>1. PICK all : all = byPayer \cup byPayee
  OBVIOUS
<1>2. IsFiniteSet(all)
  BY <1>1, FS_Union
<1>3. PICK f : f = [r \in all |-> IF r \in byPayer THEN <<r, "payer">> ELSE <<r, "payee">>]
  OBVIOUS
<1>4. f \in [all -> list]
  BY <1>1, <1>3
<1>5. \A r, q \in all : f[r] = f[q] => r = q
  <2>. SUFFICES ASSUME NEW r \in all, NEW q \in all, f[r] = f[q] PROVE r = q
    OBVIOUS
  <2>1. f[r][1] = r /\ f[q][1] = q
    BY <1>3
  <2>. QED
    BY <2>1
<1>6. \A e \in list : \E r \in all : f[r] = e
  <2>. SUFFICES ASSUME NEW e \in list PROVE \E r \in all : f[r] = e
    OBVIOUS
  <2>1. ASSUME NEW r \in byPayer, e = <<r, "payer">> PROVE \E s \in all : f[s] = e
    BY <1>1, <1>3, <2>1
  <2>2. ASSUME NEW r \in byPayee \ byPayer, e = <<r, "payee">> PROVE \E s \in all : f[s] = e
    BY <1>1, <1>3, <2>2
  <2>. QED
    BY <2>1, <2>2
<1>7. f \in Bijection(all, list)
  BY <1>4, <1>5, <1>6 DEF Bijection, Injection, Surjection, IsInjective
<1>8. ExistsBijection(all, list)
  BY <1>7 DEF ExistsBijection
<1>. QED
  BY <1>1, <1>2, <1>8, FS_Bijection

LEMMA PassportTells ==
  ASSUME PassportInv, NEW i \in DOMAIN passport, passport[i].stage = "shown"
  PROVE  LET stats == AggregatePassport(i) IN
           /\ passport[i].before <= stats.total
           /\ stats.total <= ReceiptCount(passport[i].account)
           /\ stats.total <= stats.sent + stats.received
<1>0. PICK n \in Nat : ReadSince(passport[i], n) /\ passport[i].payer # << >> /\ passport[i].payee # << >>
  BY DEF PassportInv, PassportSound
<1>1. PICK a, byPayer, byPayee, list :
        /\ a = passport[i].account
        /\ byPayer = passport[i].payer[1] /\ byPayee = passport[i].payee[1]
        /\ list = {<<r, "payer">> : r \in byPayer} \cup {<<r, "payee">> : r \in byPayee \ byPayer}
  OBVIOUS
<1>2. /\ EarlyReceipts("payer", a, n) \subseteq byPayer /\ byPayer \subseteq ReceiptsOf("payer", a)
      /\ EarlyReceipts("payee", a, n) \subseteq byPayee /\ byPayee \subseteq ReceiptsOf("payee", a)
      /\ passport[i].before = Cardinality(EarlyReceipts("payer", a, n) \cup EarlyReceipts("payee", a, n))
  BY <1>0, <1>1 DEF ReadSince, ListSound
<1>3. registered \in Seq(Receipt)
  BY DEF PassportInv
<1>4. IsFiniteSet(ReceiptsOf("payer", a)) /\ IsFiniteSet(ReceiptsOf("payee", a))
  BY <1>3, ReceiptsFinite
<1>5. IsFiniteSet(byPayer) /\ IsFiniteSet(byPayee)
  BY <1>2, <1>4, FS_Subset
<1>6. IsFiniteSet(list) /\ Cardinality(list) = Cardinality(byPayer \cup byPayee)
  BY <1>1, <1>5, ListedOnce, SMTT(30)
<1>7. passport[i].before <= Cardinality(list)
  <2>1. EarlyReceipts("payer", a, n) \cup EarlyReceipts("payee", a, n) \in SUBSET (byPayer \cup byPayee)
    BY <1>2
  <2>2. IsFiniteSet(byPayer \cup byPayee)
    BY <1>5, FS_Union
  <2>. QED
    BY <1>2, <1>6, <2>1, <2>2, FS_Subset
<1>8. Cardinality(list) <= ReceiptCount(a)
  <2>1. byPayer \cup byPayee \in SUBSET (ReceiptsOf("payer", a) \cup ReceiptsOf("payee", a))
    BY <1>2
  <2>2. IsFiniteSet(ReceiptsOf("payer", a) \cup ReceiptsOf("payee", a))
    BY <1>4, FS_Union
  <2>. QED
    BY <1>6, <2>1, <2>2, FS_Subset DEF ReceiptCount
<1>9. PICK sent, received :
        /\ sent = {e \in list : registered[e[1]]["payer"] = a}
        /\ received = {e \in list : registered[e[1]]["payee"] = a}
  OBVIOUS
<1>10. list \subseteq sent \cup received
  <2>. SUFFICES ASSUME NEW e \in list PROVE e \in sent \cup received
    OBVIOUS
  <2>1. ASSUME NEW r \in byPayer, e = <<r, "payer">> PROVE e \in sent
    <3>1. registered[r]["payer"] = a /\ e[1] = r
      BY <1>2, <2>1 DEF ReceiptsOf
    <3>. QED
      BY <1>9, <3>1
  <2>2. ASSUME NEW r \in byPayee \ byPayer, e = <<r, "payee">> PROVE e \in received
    <3>1. registered[r]["payee"] = a /\ e[1] = r
      BY <1>2, <2>2 DEF ReceiptsOf
    <3>. QED
      BY <1>9, <3>1
  <2>. QED
    BY <1>1, <2>1, <2>2
<1>11. Cardinality(list) <= Cardinality(sent) + Cardinality(received)
  <2>1. IsFiniteSet(sent) /\ IsFiniteSet(received)
    BY <1>6, <1>9, FS_Subset
  <2>2. /\ IsFiniteSet(sent \cup received)
        /\ Cardinality(sent \cup received) = Cardinality(sent) + Cardinality(received)
                                              - Cardinality(sent \cap received)
    BY <2>1, FS_Union
  <2>3. Cardinality(list) <= Cardinality(sent \cup received)
    BY <1>10, <2>2, FS_Subset
  <2>4. IsFiniteSet(sent \cap received)
    <3>1. sent \cap received \in SUBSET sent
      OBVIOUS
    <3>. QED
      BY <2>1, <3>1, FS_Subset
  <2>5. /\ Cardinality(sent) \in Nat /\ Cardinality(received) \in Nat /\ Cardinality(list) \in Nat
        /\ Cardinality(sent \cap received) \in Nat
    BY <1>6, <2>1, <2>4, FS_CardinalityType
  <2>. QED
    BY <2>2, <2>3, <2>5
<1>12. /\ AggregatePassport(i).total = Cardinality(list)
       /\ AggregatePassport(i).sent = Cardinality(sent)
       /\ AggregatePassport(i).received = Cardinality(received)
  <2>1. ListForAccount(i) = list
    BY <1>1 DEF ListForAccount
  <2>. QED
    BY <1>1, <1>9, <2>1 DEF AggregatePassport
<1>. QED
  BY <1>1, <1>7, <1>8, <1>11, <1>12

\* The registry grows, and what was read is as sound as it was.
LEMMA ReceiptCreated ==
  ASSUME PassportInv, NEW payer \in Holder, NEW payee \in Holder, NEW private \in BOOLEAN,
         CreateReceipt(payer, payee, private)
  PROVE  PassportInv'
<1>1. registered \in Seq(Receipt) /\ passport' = passport
  BY DEF PassportInv, CreateReceipt
<1>2. PICK new : new = [payer |-> payer, payee |-> payee, private |-> private]
  OBVIOUS
<1>3. new \in Receipt
  BY <1>2 DEF Receipt
<1>4. registered' = Append(registered, new)
  BY <1>2 DEF CreateReceipt
<1>5. /\ registered' \in Seq(Receipt) /\ Len(registered') = Len(registered) + 1 /\ Len(registered) \in Nat
      /\ DOMAIN registered = 1..Len(registered) /\ DOMAIN registered' = 1..(Len(registered) + 1)
      /\ \A k \in DOMAIN registered : registered'[k] = registered[k]
  BY <1>1, <1>3, <1>4
<1>6. ASSUME NEW role, NEW a
      PROVE  /\ ReceiptsOf(role, a) \subseteq ReceiptsOf(role, a)'
             /\ \A n \in Nat : n <= Len(registered) =>
                  EarlyReceipts(role, a, n)' = EarlyReceipts(role, a, n)
  BY <1>5 DEF ReceiptsOf, EarlyReceipts
<1>7. ASSUME NEW pass, NEW n \in Nat, ReadSince(pass, n) PROVE ReadSince(pass, n)'
  <2>1. /\ n <= Len(registered)
        /\ pass.before = Cardinality(EarlyReceipts("payer", pass.account, n)
                                 \cup EarlyReceipts("payee", pass.account, n))
        /\ ListSound(pass.payer, "payer", pass.account, n)
        /\ ListSound(pass.payee, "payee", pass.account, n)
    BY <1>7 DEF ReadSince
  <2>2. /\ EarlyReceipts("payer", pass.account, n)' = EarlyReceipts("payer", pass.account, n)
        /\ EarlyReceipts("payee", pass.account, n)' = EarlyReceipts("payee", pass.account, n)
        /\ ReceiptsOf("payer", pass.account) \subseteq ReceiptsOf("payer", pass.account)'
        /\ ReceiptsOf("payee", pass.account) \subseteq ReceiptsOf("payee", pass.account)'
    BY <1>6, <2>1
  <2>3. n <= Len(registered')
    BY <1>5, <2>1
  <2>4. ListSound(pass.payer, "payer", pass.account, n)'
    BY <2>1, <2>2 DEF ListSound
  <2>5. ListSound(pass.payee, "payee", pass.account, n)'
    BY <2>1, <2>2 DEF ListSound
  <2>. QED
    BY <2>1, <2>2, <2>3, <2>4, <2>5 DEF ReadSince
<1>8. ASSUME NEW i \in DOMAIN passport PROVE PassportSound(passport[i])'
  <2>1. PassportSound(passport[i])
    BY DEF PassportInv
  <2>. QED
    BY <1>1, <1>7, <2>1 DEF PassportSound
<1>. QED
  BY <1>1, <1>5, <1>8 DEF PassportInv

\* A run becomes another one.
LEMMA PassportMoves ==
  ASSUME PassportInv, NEW i \in DOMAIN passport, NEW g \in PassportRun, PassportSound(g),
         passport' = [passport EXCEPT ![i] = g], registered' = registered
  PROVE  PassportInv'
<1>1. passport \in Seq(PassportRun)
  BY DEF PassportInv
<1>2. /\ passport' \in Seq(PassportRun) /\ DOMAIN passport' = DOMAIN passport
      /\ \A k \in DOMAIN passport : passport'[k] = IF k = i THEN g ELSE passport[k]
  BY <1>1
<1>3. \A k \in DOMAIN passport : PassportSound(passport'[k])
  BY <1>2 DEF PassportInv
<1>4. ASSUME NEW pass, PassportSound(pass) PROVE PassportSound(pass)'
  BY <1>4 DEF PassportSound, ReadSince, ListSound, EarlyReceipts, ReceiptsOf
<1>. QED
  BY <1>2, <1>3, <1>4 DEF PassportInv

LEMMA PassportKnown ==
  ASSUME PassportInv, NEW i \in DOMAIN passport
  PROVE  passport[i] \in PassportRun /\ PassportSound(passport[i]) /\ registered \in Seq(Receipt)
BY DEF PassportInv

LEMMA PassportOpened ==
  ASSUME PassportInv, NEW key \in Holder \cup Username, OpenPassport(key)
  PROVE  PassportInv'
<1>1. passport \in Seq(PassportRun) /\ registered' = registered
  BY DEF PassportInv, OpenPassport
<1>2. PICK new : new = [key |-> key, account |-> IF key \in Holder THEN key ELSE Nobody, stage |-> "resolve",
        payer |-> << >>, payee |-> << >>, mounted |-> TRUE, before |-> 0]
  OBVIOUS
<1>3. /\ new \in PassportRun /\ new.stage = "resolve" /\ new.payer = << >> /\ new.payee = << >>
      /\ new.account = Nobody => new.key \in Username
  BY <1>2, ProfileAssumption DEF PassportRun
<1>4. PassportSound(new)
  BY <1>3 DEF PassportSound
<1>5. PICK left : left = [i \in DOMAIN passport |-> [passport[i] EXCEPT !.mounted = FALSE]]
  OBVIOUS
<1>6. ASSUME NEW i \in DOMAIN passport PROVE left[i] \in PassportRun /\ PassportSound(left[i])
  <2>1. passport[i] \in PassportRun /\ PassportSound(passport[i])
    BY PassportKnown
  <2>2. left[i] = [passport[i] EXCEPT !.mounted = FALSE]
    BY <1>5
  <2>3. /\ left[i] \in PassportRun /\ left[i].stage = passport[i].stage /\ left[i].payer = passport[i].payer
        /\ left[i].payee = passport[i].payee /\ left[i].account = passport[i].account
        /\ left[i].key = passport[i].key
        /\ left[i].before = passport[i].before
    BY <2>1, <2>2 DEF PassportRun
  <2>. QED
    BY <2>1, <2>3 DEF PassportSound, ReadSince
<1>7. DOMAIN passport = 1..Len(passport) /\ Len(passport) \in Nat
  BY <1>1
<1>8. left = [i \in 1..Len(passport) |-> left[i]]
  BY <1>5, <1>7
<1>9. left \in Seq(PassportRun) /\ DOMAIN left = 1..Len(passport) /\ Len(left) = Len(passport)
  BY <1>6, <1>7, <1>8
<1>10. passport' = Append(left, new)
  BY <1>2, <1>5 DEF OpenPassport
<1>11. /\ passport' \in Seq(PassportRun) /\ DOMAIN passport' = 1..(Len(passport) + 1)
       /\ passport'[Len(passport) + 1] = new
       /\ \A k \in 1..Len(passport) : passport'[k] = left[k]
  BY <1>3, <1>7, <1>9, <1>10
<1>12. \A k \in DOMAIN passport' : PassportSound(passport'[k])
  BY <1>4, <1>6, <1>7, <1>11
<1>13. ASSUME NEW pass, PassportSound(pass) PROVE PassportSound(pass)'
  BY <1>1, <1>13 DEF PassportSound, ReadSince, ListSound, EarlyReceipts, ReceiptsOf
<1>. QED
  BY <1>1, <1>11, <1>12, <1>13 DEF PassportInv

\* The account is known from here on, and what it has is counted.
LEMMA PassportResolved ==
  ASSUME NamesInv, PassportInv, NEW i \in DOMAIN passport, ResolvePassport(i)
  PROVE  PassportInv'
<1>1. passport[i] \in PassportRun /\ PassportSound(passport[i]) /\ registered \in Seq(Receipt)
  BY PassportKnown
<1>2. PICK account : account = IF passport[i].account # Nobody THEN passport[i].account
                               ELSE accountOf[passport[i].key]
  OBVIOUS
<1>3. passport[i].stage = "resolve" /\ registered' = registered
  BY DEF ResolvePassport
<1>4. CASE account = Nobody
  <2>1. PICK g : g = [passport[i] EXCEPT !.stage = "error"]
    OBVIOUS
  <2>2. g \in PassportRun /\ g.stage = "error"
    BY <1>1, <2>1 DEF PassportRun
  <2>3. passport' = [passport EXCEPT ![i] = g]
    BY <1>2, <1>4, <2>1 DEF ResolvePassport
  <2>. QED
    BY <1>3, <2>2, <2>3, PassportMoves DEF PassportSound
<1>5. CASE account # Nobody
  <2>1. PICK g : g = [passport[i] EXCEPT !.stage = "read", !.account = account, !.before = ReceiptCount(account)]
    OBVIOUS
  <2>2. passport' = [passport EXCEPT ![i] = g]
    BY <1>2, <1>5, <2>1 DEF ResolvePassport
  <2>3. account \in Holder
    BY <1>1, <1>2, <1>3, <1>5 DEF PassportRun, NamesInv, PassportSound
  <2>4. IsFiniteSet(ReceiptsOf("payer", account)) /\ IsFiniteSet(ReceiptsOf("payee", account))
    BY <1>1, ReceiptsFinite
  <2>5. ReceiptCount(account) \in Nat
    BY <2>4, FS_Union, FS_CardinalityType DEF ReceiptCount
  <2>6. /\ g \in PassportRun /\ g.stage = "read" /\ g.account = account /\ g.before = ReceiptCount(account)
        /\ g.payer = passport[i].payer /\ g.payee = passport[i].payee
    BY <1>1, <2>1, <2>3, <2>5 DEF PassportRun
  <2>7. g.payer = << >> /\ g.payee = << >>
    BY <1>1, <1>3, <2>6 DEF PassportSound
  <2>8. /\ EarlyReceipts("payer", account, Len(registered)) = ReceiptsOf("payer", account)
        /\ EarlyReceipts("payee", account, Len(registered)) = ReceiptsOf("payee", account)
    BY <1>1, ReceiptsFinite DEF EarlyReceipts
  <2>9. Len(registered) \in Nat /\ ReadSince(g, Len(registered))
    <3>1. Len(registered) \in Nat /\ Len(registered) <= Len(registered)
      BY <1>1
    <3>2. g.before = Cardinality(EarlyReceipts("payer", g.account, Len(registered))
                                 \cup EarlyReceipts("payee", g.account, Len(registered)))
      BY <2>6, <2>8 DEF ReceiptCount
    <3>3. /\ ListSound(g.payer, "payer", g.account, Len(registered))
          /\ ListSound(g.payee, "payee", g.account, Len(registered))
      BY <2>7 DEF ListSound
    <3>. QED
      BY <3>1, <3>2, <3>3 DEF ReadSince
  <2>10. PassportSound(g)
    BY <2>6, <2>9 DEF PassportSound
  <2>. QED
    BY <1>3, <2>2, <2>6, <2>10, PassportMoves
<1>. QED
  BY <1>4, <1>5

\* A list that is read now has the early receipts and is of the account.
LEMMA ListedNow ==
  ASSUME NEW role, NEW a, NEW n, NEW list, list = <<ReceiptsOf(role, a)>>
  PROVE  ListSound(list, role, a, n)
BY DEF ListSound, EarlyReceipts

LEMMA PassportListed ==
  ASSUME PassportInv, NEW i \in DOMAIN passport, NEW role \in {"payer", "payee"}, ListBy(i, role)
  PROVE  PassportInv'
<1>1. passport[i] \in PassportRun /\ PassportSound(passport[i]) /\ registered \in Seq(Receipt)
  BY PassportKnown
<1>2. passport[i].stage = "read" /\ registered' = registered
  BY DEF ListBy
<1>3. PICK n \in Nat : ReadSince(passport[i], n)
  BY <1>1, <1>2 DEF PassportSound
<1>4. PICK list : list = <<ReceiptsOf(role, passport[i].account)>>
  OBVIOUS
<1>5. list \in Seq(SUBSET Nat) /\ ListSound(list, role, passport[i].account, n)
  BY <1>1, <1>4, ReceiptsFinite, ListedNow
<1>6. CASE role = "payer"
  <2>1. PICK g : g = [passport[i] EXCEPT !.payer = list]
    OBVIOUS
  <2>2. passport' = [passport EXCEPT ![i] = g]
    BY <1>4, <1>6, <2>1 DEF ListBy
  <2>3. /\ g \in PassportRun /\ g.stage = "read" /\ g.account = passport[i].account
        /\ g.before = passport[i].before /\ g.payer = list /\ g.payee = passport[i].payee
    BY <1>1, <1>2, <1>5, <2>1 DEF PassportRun
  <2>4. ReadSince(g, n)
    BY <1>3, <1>5, <1>6, <2>3 DEF ReadSince
  <2>5. PassportSound(g)
    BY <2>3, <2>4 DEF PassportSound
  <2>. QED
    BY <1>2, <2>2, <2>3, <2>5, PassportMoves
<1>7. CASE role = "payee"
  <2>1. PICK g : g = [passport[i] EXCEPT !.payee = list]
    OBVIOUS
  <2>2. passport' = [passport EXCEPT ![i] = g]
    BY <1>4, <1>7, <2>1 DEF ListBy
  <2>3. /\ g \in PassportRun /\ g.stage = "read" /\ g.account = passport[i].account
        /\ g.before = passport[i].before /\ g.payee = list /\ g.payer = passport[i].payer
    BY <1>1, <1>2, <1>5, <2>1 DEF PassportRun
  <2>4. ReadSince(g, n)
    BY <1>3, <1>5, <1>7, <2>3 DEF ReadSince
  <2>5. PassportSound(g)
    BY <2>3, <2>4 DEF PassportSound
  <2>. QED
    BY <1>2, <2>2, <2>3, <2>5, PassportMoves
<1>. QED
  BY <1>6, <1>7

LEMMA PassportShown ==
  ASSUME PassportInv, NEW i \in DOMAIN passport, ShowPassport(i)
  PROVE  PassportInv'
<1>1. passport[i] \in PassportRun /\ PassportSound(passport[i])
  BY PassportKnown
<1>2. /\ passport[i].stage = "read" /\ registered' = registered
      /\ passport[i].payer # << >> /\ passport[i].payee # << >>
  BY DEF ShowPassport
<1>3. PICK n \in Nat : ReadSince(passport[i], n)
  BY <1>1, <1>2 DEF PassportSound
<1>4. PICK stage \in {"shown", "over"} : passport' = [passport EXCEPT ![i].stage = stage]
  BY DEF ShowPassport
<1>5. PICK g : g = [passport[i] EXCEPT !.stage = stage]
  OBVIOUS
<1>6. passport' = [passport EXCEPT ![i] = g]
  BY <1>4, <1>5
<1>7. /\ g \in PassportRun /\ g.stage \in {"shown", "over"} /\ g.account = passport[i].account
      /\ g.before = passport[i].before /\ g.payee = passport[i].payee /\ g.payer = passport[i].payer
  BY <1>1, <1>5 DEF PassportRun
<1>8. ReadSince(g, n)
  BY <1>3, <1>7 DEF ReadSince
<1>9. PassportSound(g)
  BY <1>2, <1>7, <1>8 DEF PassportSound
<1>. QED
  BY <1>2, <1>6, <1>7, <1>9, PassportMoves

LEMMA PassportStep == NamesInv /\ PassportInv /\ [ProfileNext]_profileVars => PassportInv'
<1>. SUFFICES ASSUME NamesInv, PassportInv, [ProfileNext]_profileVars PROVE PassportInv'
  OBVIOUS
<1>1. ASSUME UNCHANGED <<registered, passport>> PROVE PassportInv'
  <2>1. ASSUME NEW pass, PassportSound(pass) PROVE PassportSound(pass)'
    BY <1>1, <2>1 DEF PassportSound, ReadSince, ListSound, EarlyReceipts, ReceiptsOf
  <2>. QED
    BY <1>1, <2>1 DEF PassportInv
<1>2. ASSUME NEW o \in DOMAIN registration,
             Register(o) \/ DropRegistration(o) \/ PollRegistry(o) \/ AwaitRegistration(o)
               \/ RegistrationFails(o)
      PROVE  PassportInv'
  BY <1>1, <1>2 DEF Register, DropRegistration, PollRegistry, AwaitRegistration, RegistrationFails
<1>3. ASSUME NEW a \in Holder, Release(a) \/ OpenProfile(a) \/ LookUp(a) \/ ShowLookUp(a)
      PROVE  PassportInv'
  BY <1>1, <1>3 DEF Release, OpenProfile, LookUp, ShowLookUp
<1>4. ASSUME NEW a \in Holder, NEW u \in Username, RegisterUsername(a, u) PROVE PassportInv'
  BY <1>1, <1>4 DEF RegisterUsername
<1>5. CASE UNCHANGED profileVars
  BY <1>1, <1>5 DEF profileVars
<1>. QED
  BY <1>2, <1>3, <1>4, <1>5, ReceiptCreated, PassportOpened, PassportResolved, PassportShown,
     PassportListed DEF ProfileNext

(***************************************************************************)
(* A passport that is shown is of some moment between its first read and   *)
(* now, for any number of receipts issued meanwhile: it counts every       *)
(* receipt of the account that was there before, and none twice            *)
(* (Passport.tsx, receipts.ts listForAccount).                             *)
(***************************************************************************)
THEOREM PassportIsOfItsReads == ProfileSpec => []PassportWithinItsReads
<1>1. PassportInv => PassportWithinItsReads
  BY PassportTells DEF PassportWithinItsReads
<1>. QED
  BY NamesInitially, NamesKept, PassportInitially, PassportStep, <1>1, PTL DEF ProfileSpec

-----------------------------------------------------------------------------
(***************************************************************************)
(* The connection to the wallet.  As long as nothing went wrong, what the  *)
(* runs have asked for before there is a listener is the account of the    *)
(* wallet; from then on the newest run speaks for it: it has still to ask, *)
(* it holds the account, or it is done and the session is its own.         *)
(***************************************************************************)
WalletRun ==
  [kind : {"connect", "reconnect"},
   stage : {"provider", "ask", "derive", "done", "failed"},
   acct : Acct \cup {NoAcct}]

\* Before the reconnection is done, every answer is the account of the wallet.
NoOtherAccount ==
  /\ session \in {granted, NoAcct}
  /\ \A r \in DOMAIN run : run[r].acct \in {granted, NoAcct}

\* Afterwards the newest run is in charge.
NewestRunSpeaks ==
  /\ Len(run) > 0
  /\ \/ run[Len(run)].stage \in {"provider", "ask"}
     \/ run[Len(run)].stage = "derive" /\ run[Len(run)].acct = granted
     \/ run[Len(run)].stage = "done" /\ session \in {granted, NoAcct}

WalletTypes ==
  /\ granted \in Acct \cup {NoAcct}
  /\ saved \in Acct \cup {NoAcct}
  /\ session \in Acct \cup {NoAcct}
  /\ listening \in BOOLEAN
  /\ connecting \in BOOLEAN
  /\ upset \in BOOLEAN
  /\ run \in Seq(WalletRun)

RunsOrderly ==
  /\ \A r \in DOMAIN run : run[r].stage # "failed"
  /\ \A r \in DOMAIN run : run[r].stage = "derive" => run[r].acct # NoAcct
  /\ \A r \in DOMAIN run : run[r].kind = "reconnect" => r = 1
  /\ listening => \A r \in DOMAIN run : run[r].kind = "reconnect" => run[r].stage = "done"

WalletInv ==
  /\ WalletTypes
  /\ ~upset => /\ RunsOrderly
               /\ ~listening => NoOtherAccount
               /\ listening => NewestRunSpeaks

LEMMA OneRunOrNone ==
  ASSUME NEW S, NEW g \in S, NEW s, s = << >> \/ s = <<g>>
  PROVE  s \in Seq(S) /\ \A r \in DOMAIN s : r = 1 /\ s[r] = g
<1>1. CASE s = << >>
  BY <1>1
<1>2. CASE s = <<g>>
  <2>1. <<g>> \in Seq(S)
    OBVIOUS
  <2>2. DOMAIN <<g>> = 1..1 /\ <<g>>[1] = g
    OBVIOUS
  <2>. QED
    BY <1>2, <2>1, <2>2
<1>. QED
  BY <1>1, <1>2

LEMMA WalletInitially == WalletInit => WalletInv
<1>. SUFFICES ASSUME WalletInit PROVE WalletInv
  OBVIOUS
<1>. DEFINE first == NewRun("reconnect")
<1>1. first \in WalletRun /\ first.stage = "provider" /\ first.acct = NoAcct
  BY DEF NewRun, WalletRun
<1>2. run = << >> \/ run = <<first>>
  BY DEF WalletInit, Mounted
<1>. HIDE DEF first
<1>3. run \in Seq(WalletRun) /\ \A r \in DOMAIN run : r = 1 /\ run[r] = first
  BY <1>1, <1>2, OneRunOrNone
<1>. QED
  BY <1>1, <1>3 DEF WalletInit, WalletInv, WalletTypes, RunsOrderly, NoOtherAccount

\* A run replaced by another one, or one added, is a sequence of runs still.
LEMMA WalletRunSet ==
  ASSUME NEW s \in Seq(WalletRun), NEW i \in DOMAIN s, NEW g \in WalletRun
  PROVE  /\ [s EXCEPT ![i] = g] \in Seq(WalletRun)
         /\ Len([s EXCEPT ![i] = g]) = Len(s)
         /\ DOMAIN [s EXCEPT ![i] = g] = DOMAIN s
         /\ [s EXCEPT ![i] = g][i] = g
         /\ \A k \in DOMAIN s : k # i => [s EXCEPT ![i] = g][k] = s[k]
OBVIOUS

LEMMA WalletRunAdded ==
  ASSUME NEW s \in Seq(WalletRun), NEW g \in WalletRun
  PROVE  /\ Append(s, g) \in Seq(WalletRun)
         /\ Len(Append(s, g)) = Len(s) + 1
         /\ DOMAIN s = 1..Len(s) /\ Len(s) \in Nat
         /\ DOMAIN Append(s, g) = 1..(Len(s) + 1)
         /\ Append(s, g)[Len(s) + 1] = g
         /\ \A k \in DOMAIN s : Append(s, g)[k] = s[k]
OBVIOUS

\* Steps that leave the runs alone.
LEMMA WalletInject == WalletInv /\ Inject => WalletInv'
BY DEF WalletInv, WalletTypes, RunsOrderly, NoOtherAccount, NewestRunSpeaks, Inject

LEMMA WalletDisconnect == WalletInv /\ Disconnect => WalletInv'
BY DEF WalletInv, WalletTypes, RunsOrderly, NoOtherAccount, NewestRunSpeaks, Disconnect, Disconnected

LEMMA WalletReload == WalletInv /\ Reload => WalletInv'
<1>. SUFFICES ASSUME WalletInv, Reload PROVE WalletInv'
  OBVIOUS
<1>. DEFINE first == NewRun("reconnect")
<1>1. first \in WalletRun /\ first.stage = "provider" /\ first.acct = NoAcct
  BY DEF NewRun, WalletRun
<1>2. run' = << >> \/ run' = <<first>>
  BY DEF Reload, Mounted
<1>. HIDE DEF first
<1>3. run' \in Seq(WalletRun) /\ \A r \in DOMAIN run' : r = 1 /\ run'[r] = first
  BY <1>1, <1>2, OneRunOrNone
<1>. QED
  BY <1>1, <1>3 DEF Reload, WalletInv, WalletTypes, RunsOrderly, NoOtherAccount

\* A new connection: it has still to ask.
LEMMA WalletRunStarts ==
  ASSUME WalletInv, NEW g, g = NewRun("connect"),
         run' = Append(run, g),
         ~listening => granted' = granted /\ session' = session,
         upset' = upset \/ upset' = TRUE, listening' = listening,
         granted' \in Acct \cup {NoAcct}, saved' \in Acct \cup {NoAcct},
         session' \in Acct \cup {NoAcct}, connecting' \in BOOLEAN
  PROVE  WalletInv'
<1>1. g \in WalletRun /\ g.stage = "provider" /\ g.acct = NoAcct /\ g.kind = "connect"
  BY DEF NewRun, WalletRun
<1>2. run \in Seq(WalletRun) /\ upset \in BOOLEAN /\ listening \in BOOLEAN
  BY DEF WalletInv, WalletTypes
<1>3. /\ run' \in Seq(WalletRun) /\ Len(run') = Len(run) + 1
      /\ DOMAIN run = 1..Len(run) /\ Len(run) \in Nat /\ DOMAIN run' = 1..(Len(run) + 1)
      /\ run'[Len(run) + 1] = g
      /\ \A k \in DOMAIN run : run'[k] = run[k]
  BY <1>1, <1>2, WalletRunAdded
<1>4. WalletTypes'
  BY <1>2, <1>3 DEF WalletTypes
<1>5. ASSUME ~upset' PROVE RunsOrderly'
  <2>1. ~upset
    BY <1>5
  <2>2. RunsOrderly
    BY <2>1 DEF WalletInv
  <2>3. \A k \in DOMAIN run' : (k \in DOMAIN run /\ run'[k] = run[k]) \/ run'[k] = g
    BY <1>3
  <2>. QED
    BY <2>2, <2>3, <1>1 DEF RunsOrderly
<1>6. ASSUME ~upset', ~listening' PROVE NoOtherAccount'
  <2>1. NoOtherAccount
    BY <1>6 DEF WalletInv
  <2>2. \A k \in DOMAIN run' : (k \in DOMAIN run /\ run'[k] = run[k]) \/ run'[k] = g
    BY <1>3
  <2>. QED
    BY <2>1, <2>2, <1>1, <1>6 DEF NoOtherAccount
<1>7. NewestRunSpeaks'
  BY <1>1, <1>3 DEF NewestRunSpeaks
<1>. QED
  BY <1>4, <1>5, <1>6, <1>7 DEF WalletInv

LEMMA WalletPress == WalletInv /\ PressConnect => WalletInv'
<1>. SUFFICES ASSUME WalletInv, PressConnect PROVE WalletInv'
  OBVIOUS
<1>1. WalletTypes
  BY DEF WalletInv
<1>. QED
  BY <1>1, WalletRunStarts DEF PressConnect, WalletTypes

LEMMA WalletSwitch ==
  ASSUME WalletInv, NEW account \in Acct \cup {NoAcct}, SwitchAccount(account)
  PROVE  WalletInv'
<1>0. WalletTypes
  BY DEF WalletInv
<1>1. CASE ~listening /\ upset' /\ UNCHANGED <<saved, session, connecting, run>>
  BY <1>0, <1>1 DEF SwitchAccount, WalletInv, WalletTypes
<1>2. CASE /\ listening /\ account = NoAcct
           /\ Disconnected
           /\ upset' = (upset \/ \E r \in DOMAIN run : Live(r))
           /\ UNCHANGED <<connecting, run>>
  <2>1. WalletTypes'
    BY <1>0, <1>2 DEF SwitchAccount, WalletTypes, Disconnected
  <2>2. ASSUME ~upset' PROVE RunsOrderly' /\ NewestRunSpeaks'
    <3>1. ~upset /\ RunsOrderly /\ NewestRunSpeaks
      BY <1>2, <2>2 DEF WalletInv
    <3>2. Len(run) \in DOMAIN run
      BY <3>1, <1>0 DEF NewestRunSpeaks, WalletTypes
    <3>3. run[Len(run)].stage = "done"
      BY <3>1, <3>2, <1>2, <2>2 DEF Live, RunsOrderly
    <3>. QED
      BY <3>1, <3>3, <1>2 DEF RunsOrderly, NewestRunSpeaks, Disconnected, SwitchAccount
  <2>. QED
    BY <2>1, <2>2, <1>2 DEF WalletInv, SwitchAccount
<1>3. CASE /\ listening /\ account # NoAcct
           /\ Len(run) < MaxRuns
           /\ run' = Append(run, NewRun("connect"))
           /\ connecting' = TRUE
           /\ UNCHANGED <<saved, session, upset>>
  BY <1>0, <1>3, WalletRunStarts DEF SwitchAccount, WalletTypes
<1>. QED
  BY <1>1, <1>2, <1>3 DEF SwitchAccount

\* What a run may become, for the invariant to go on.
LEMMA WalletRunMoves ==
  ASSUME WalletInv, NEW r \in DOMAIN run, NEW g \in WalletRun, g.kind = run[r].kind,
         run' = [run EXCEPT ![r] = g],
         granted' = granted, listening' \in BOOLEAN, upset' \in BOOLEAN, connecting' \in BOOLEAN,
         saved' \in Acct \cup {NoAcct}, session' \in Acct \cup {NoAcct},
         ~upset' =>
           /\ ~upset
           /\ g.stage # "failed"
           /\ g.stage = "derive" => g.acct # NoAcct
           /\ run[r].stage = "done" => g.stage = "done"
           /\ ~listening => g.acct \in {granted, NoAcct} /\ session' \in {granted, NoAcct}
           /\ listening /\ run[Len(run)].stage = "done" => r # Len(run) /\ session' = session
           /\ listening => listening'
           /\ listening /\ r = Len(run) =>
                \/ g.stage \in {"provider", "ask"}
                \/ g.stage = "derive" /\ g.acct = granted
                \/ g.stage = "done" /\ session' \in {granted, NoAcct}
           /\ ~listening /\ listening' =>
                /\ g.stage = "done"
                /\ g.kind = "reconnect"
                /\ r < Len(run) => run[Len(run)].stage # "done"
  PROVE  WalletInv'
<1>1. WalletTypes /\ run \in Seq(WalletRun)
  BY DEF WalletInv, WalletTypes
<1>2. /\ run' \in Seq(WalletRun) /\ Len(run') = Len(run) /\ DOMAIN run' = DOMAIN run
      /\ run'[r] = g
      /\ \A k \in DOMAIN run : k # r => run'[k] = run[k]
  BY <1>1, WalletRunSet
<1>3. Len(run) \in DOMAIN run /\ r <= Len(run)
  BY <1>1
<1>4. WalletTypes'
  BY <1>1, <1>2 DEF WalletTypes
<1>5. ASSUME ~upset' PROVE RunsOrderly'
  <2>1. ~upset /\ RunsOrderly
    BY <1>5 DEF WalletInv
  <2>2. ASSUME NEW k \in DOMAIN run'
        PROVE  /\ run'[k].stage # "failed"
               /\ run'[k].stage = "derive" => run'[k].acct # NoAcct
               /\ run'[k].kind = "reconnect" => k = 1
               /\ listening' /\ run'[k].kind = "reconnect" => run'[k].stage = "done"
    <3>1. CASE k = r
      BY <1>2, <1>5, <2>1, <3>1 DEF RunsOrderly
    <3>2. CASE k # r
      BY <1>2, <1>5, <2>1, <2>2, <3>2 DEF RunsOrderly
    <3>. QED
      BY <3>1, <3>2
  <2>. QED
    BY <2>2 DEF RunsOrderly
<1>6. ASSUME ~upset', ~listening' PROVE NoOtherAccount'
  <2>1. ~listening /\ NoOtherAccount
    BY <1>6 DEF WalletInv, WalletTypes
  <2>. QED
    BY <1>2, <1>6, <2>1 DEF NoOtherAccount
<1>7. ASSUME ~upset', listening' PROVE NewestRunSpeaks'
  <2>1. CASE listening
    <3>1. NewestRunSpeaks
      BY <1>7, <2>1 DEF WalletInv
    <3>2. CASE r = Len(run)
      BY <1>2, <1>7, <2>1, <3>1, <3>2 DEF NewestRunSpeaks
    <3>3. CASE r # Len(run)
      BY <1>2, <1>3, <1>7, <2>1, <3>1, <3>3 DEF NewestRunSpeaks
    <3>. QED
      BY <3>2, <3>3
  <2>2. CASE ~listening
    <3>1. NoOtherAccount /\ RunsOrderly
      BY <1>7, <2>2 DEF WalletInv
    <3>2. CASE r = Len(run)
      BY <1>2, <1>3, <1>7, <2>2, <3>2 DEF NewestRunSpeaks
    <3>3. CASE r # Len(run)
      <4>1. r < Len(run)
        BY <1>1, <1>3, <3>3
      <4>2. run[Len(run)].stage \in {"provider", "ask", "derive"}
        <5>1. run[Len(run)] \in WalletRun
          BY <1>1, <1>3
        <5>2. run[Len(run)].stage # "done"
          BY <1>7, <2>2, <4>1
        <5>3. run[Len(run)].stage # "failed"
          BY <1>3, <3>1 DEF RunsOrderly
        <5>. QED
          BY <5>1, <5>2, <5>3 DEF WalletRun
      <4>3. run'[Len(run)] = run[Len(run)]
        BY <1>2, <1>3, <3>3
      <4>. QED
        BY <1>2, <1>3, <3>1, <4>2, <4>3 DEF NewestRunSpeaks, NoOtherAccount, RunsOrderly
    <3>. QED
      BY <3>2, <3>3
  <2>. QED
    BY <2>1, <2>2
<1>. QED
  BY <1>4, <1>5, <1>6, <1>7 DEF WalletInv

LEMMA WalletResolve ==
  ASSUME WalletInv, NEW r \in DOMAIN run, ResolveProvider(r)
  PROVE  WalletInv'
<1>1. WalletTypes /\ run[r] \in WalletRun
  BY DEF WalletInv, WalletTypes
<1>2. CASE present /\ run' = [run EXCEPT ![r].stage = "ask"] /\ UNCHANGED <<connecting, upset>>
  <2>1. PICK g : g = [run[r] EXCEPT !.stage = "ask"]
    OBVIOUS
  <2>2. g \in WalletRun /\ g.kind = run[r].kind /\ g.stage = "ask" /\ g.acct = run[r].acct
    BY <1>1, <2>1 DEF WalletRun
  <2>3. run' = [run EXCEPT ![r] = g]
    BY <1>2, <2>1
  <2>4. ~upset /\ ~listening => run[r].acct \in {granted, NoAcct} /\ session \in {granted, NoAcct}
    BY DEF WalletInv, NoOtherAccount
  <2>5. run[r].stage = "provider"
    BY DEF ResolveProvider
  <2>. QED
    BY <1>1, <1>2, <2>2, <2>3, <2>4, <2>5, WalletRunMoves DEF ResolveProvider, WalletTypes
<1>3. CASE run' = [run EXCEPT ![r].stage = "failed"] /\ upset' = TRUE /\ EndsConnecting(r)
  <2>1. PICK g : g = [run[r] EXCEPT !.stage = "failed"]
    OBVIOUS
  <2>2. g \in WalletRun /\ g.kind = run[r].kind
    BY <1>1, <2>1 DEF WalletRun
  <2>3. run' = [run EXCEPT ![r] = g]
    BY <1>3, <2>1
  <2>4. connecting' \in BOOLEAN
    BY <1>3 DEF EndsConnecting
  <2>. QED
    BY <1>1, <1>3, <2>2, <2>3, <2>4, WalletRunMoves DEF ResolveProvider, WalletTypes
<1>. QED
  BY <1>2, <1>3 DEF ResolveProvider

LEMMA WalletDerived ==
  ASSUME WalletInv, NEW r \in DOMAIN run, SmartAccountDerived(r)
  PROVE  WalletInv'
<1>1. WalletTypes /\ run[r] \in WalletRun /\ run[r].stage = "derive"
  BY DEF WalletInv, WalletTypes, SmartAccountDerived
<1>0. connecting' \in BOOLEAN
  BY DEF SmartAccountDerived, EndsConnecting
<1>2. CASE /\ run' = [run EXCEPT ![r].stage = "done"]
           /\ session' = run[r].acct
           /\ saved' = run[r].acct
           /\ listening' = (listening \/ run[r].kind = "reconnect")
           /\ upset' = (upset \/ Overtaken(r))
  <2>1. PICK g : g = [run[r] EXCEPT !.stage = "done"]
    OBVIOUS
  <2>2. g \in WalletRun /\ g.kind = run[r].kind /\ g.stage = "done" /\ g.acct = run[r].acct
    BY <1>1, <2>1 DEF WalletRun
  <2>3. run' = [run EXCEPT ![r] = g]
    BY <1>2, <2>1
  <2>4. session' \in Acct \cup {NoAcct} /\ saved' \in Acct \cup {NoAcct}
    BY <1>1, <1>2 DEF WalletRun
  <2>5. ~upset /\ ~listening => run[r].acct \in {granted, NoAcct}
    BY DEF WalletInv, NoOtherAccount
  <2>6. ~upset' /\ r # Len(run) => run[Len(run)].stage # "done"
    <3>1. Len(run) \in Nat /\ r \in 1..Len(run)
      BY <1>1 DEF WalletTypes
    <3>2. upset \in BOOLEAN
      BY <1>1 DEF WalletTypes
    <3>3. ~upset' => ~Overtaken(r)
      BY <1>2, <3>2
    <3>4. r # Len(run) => Len(run) \in r + 1..Len(run)
      BY <3>1
    <3>. QED
      BY <3>3, <3>4 DEF Overtaken
  <2>7. ~upset /\ listening /\ r = Len(run) => run[r].acct = granted
    BY <1>1 DEF WalletInv, NewestRunSpeaks
  <2>8. upset' \in BOOLEAN /\ listening' \in BOOLEAN /\ (~upset' => ~upset) /\ (listening => listening')
    BY <1>1, <1>2 DEF WalletTypes
  <2>9. granted' = granted
    BY DEF SmartAccountDerived
  <2>10. ~listening /\ listening' => run[r].kind = "reconnect"
    BY <1>2
  <2>11. r <= Len(run) /\ Len(run) \in Nat /\ r \in Nat
    BY <1>1 DEF WalletTypes
  <2>12. ~upset' =>
           /\ ~upset
           /\ g.stage # "failed"
           /\ g.stage = "derive" => g.acct # NoAcct
           /\ run[r].stage = "done" => g.stage = "done"
           /\ ~listening => g.acct \in {granted, NoAcct} /\ session' \in {granted, NoAcct}
           /\ listening /\ run[Len(run)].stage = "done" => r # Len(run) /\ session' = session
           /\ listening => listening'
           /\ listening /\ r = Len(run) =>
                \/ g.stage \in {"provider", "ask"}
                \/ g.stage = "derive" /\ g.acct = granted
                \/ g.stage = "done" /\ session' \in {granted, NoAcct}
           /\ ~listening /\ listening' =>
                /\ g.stage = "done"
                /\ g.kind = "reconnect"
                /\ r < Len(run) => run[Len(run)].stage # "done"
    BY <1>1, <1>2, <2>2, <2>5, <2>6, <2>7, <2>8, <2>10, <2>11
  <2>. QED
    BY <1>0, <2>2, <2>3, <2>4, <2>8, <2>9, <2>12, WalletRunMoves
<1>3. CASE run' = [run EXCEPT ![r].stage = "failed"] /\ upset' = TRUE /\ UNCHANGED <<session, saved, listening>>
  <2>1. PICK g : g = [run[r] EXCEPT !.stage = "failed"]
    OBVIOUS
  <2>2. g \in WalletRun /\ g.kind = run[r].kind
    BY <1>1, <2>1 DEF WalletRun
  <2>3. run' = [run EXCEPT ![r] = g]
    BY <1>3, <2>1
  <2>. QED
    BY <1>0, <1>1, <1>3, <2>2, <2>3, WalletRunMoves DEF SmartAccountDerived, WalletTypes
<1>. QED
  BY <1>2, <1>3 DEF SmartAccountDerived

LEMMA WalletAsk ==
  ASSUME WalletInv, NEW r \in DOMAIN run, AskAccounts(r)
  PROVE  WalletInv'
<1>1. /\ WalletTypes /\ run[r] \in WalletRun /\ run[r].stage = "ask"
      /\ session' = session /\ listening' = listening
  BY DEF WalletInv, WalletTypes, AskAccounts
<1>2. ~upset /\ ~listening => run[r].acct \in {granted, NoAcct} /\ session \in {granted, NoAcct}
  BY DEF WalletInv, NoOtherAccount
<1>3. CASE /\ granted # NoAcct
           /\ run' = [run EXCEPT ![r].stage = "derive", ![r].acct = granted]
           /\ UNCHANGED <<granted, saved, connecting, upset>>
  <2>1. PICK g : g = [run[r] EXCEPT !.stage = "derive", !.acct = granted]
    OBVIOUS
  <2>2. g \in WalletRun /\ g.kind = run[r].kind /\ g.stage = "derive" /\ g.acct = granted
    BY <1>1, <2>1 DEF WalletRun, WalletTypes
  <2>3. run' = [run EXCEPT ![r] = g]
    BY <1>3, <2>1
  <2>4. /\ granted' = granted /\ upset' = upset /\ listening' = listening /\ session' = session
        /\ saved' \in Acct \cup {NoAcct} /\ session' \in Acct \cup {NoAcct}
        /\ connecting' \in BOOLEAN /\ upset' \in BOOLEAN /\ listening' \in BOOLEAN
    BY <1>1, <1>3 DEF WalletTypes
  <2>5. /\ g.stage # "failed" /\ g.acct # NoAcct /\ g.acct = granted /\ run[r].stage # "done"
        /\ run[Len(run)].stage = "done" => r # Len(run)
        /\ ~upset' => ~upset
        /\ ~upset /\ ~listening => session' \in {granted, NoAcct}
    BY <1>1, <1>2, <1>3, <2>2, <2>4
  <2>. QED
    BY <2>2, <2>3, <2>4, <2>5, WalletRunMoves
<1>4. CASE /\ run[r].kind = "reconnect" /\ granted = NoAcct
           /\ run' = [run EXCEPT ![r].stage = "done"]
           /\ saved' = NoAcct
           /\ UNCHANGED <<granted, connecting, upset>>
  <2>1. PICK g : g = [run[r] EXCEPT !.stage = "done"]
    OBVIOUS
  <2>2. g \in WalletRun /\ g.kind = run[r].kind /\ g.stage = "done" /\ g.acct = run[r].acct
    BY <1>1, <2>1 DEF WalletRun
  <2>3. run' = [run EXCEPT ![r] = g]
    BY <1>4, <2>1
  <2>4. ~upset => ~listening
    BY <1>1, <1>4 DEF WalletInv, RunsOrderly
  <2>5. /\ granted' = granted /\ upset' = upset /\ listening' = listening /\ session' = session
        /\ saved' \in Acct \cup {NoAcct} /\ session' \in Acct \cup {NoAcct}
        /\ connecting' \in BOOLEAN /\ upset' \in BOOLEAN /\ listening' \in BOOLEAN
    BY <1>1, <1>4 DEF WalletTypes
  <2>6. ~upset' =>
           /\ ~upset
           /\ ~listening
           /\ ~listening'
           /\ g.stage # "failed"
           /\ g.stage # "derive"
           /\ g.acct \in {granted, NoAcct} /\ session' \in {granted, NoAcct}
           /\ g.stage = "done"
    BY <1>2, <2>2, <2>4, <2>5
  <2>. QED
    BY <2>2, <2>3, <2>5, <2>6, WalletRunMoves
<1>5. CASE /\ run' = [run EXCEPT ![r].stage = "failed"]
           /\ upset' = TRUE
           /\ EndsConnecting(r)
           /\ UNCHANGED <<granted, saved>>
  <2>1. PICK g : g = [run[r] EXCEPT !.stage = "failed"]
    OBVIOUS
  <2>2. g \in WalletRun /\ g.kind = run[r].kind
    BY <1>1, <2>1 DEF WalletRun
  <2>3. run' = [run EXCEPT ![r] = g]
    BY <1>5, <2>1
  <2>4. connecting' \in BOOLEAN
    BY <1>5 DEF EndsConnecting
  <2>. QED
    BY <1>1, <1>5, <2>2, <2>3, <2>4, WalletRunMoves DEF WalletTypes
<1>6. CASE /\ run[r].kind = "connect" /\ granted = NoAcct
           /\ granted' \in Acct
           /\ run' = [run EXCEPT ![r].stage = "derive", ![r].acct = granted']
                      \o (IF listening THEN <<NewRun("connect")>> ELSE << >>)
           /\ connecting' = (connecting \/ listening)
           /\ UNCHANGED <<saved, upset>>
  <2>1. PICK g : g = [run[r] EXCEPT !.stage = "derive", !.acct = granted']
    OBVIOUS
  <2>2. g \in WalletRun /\ g.kind = run[r].kind /\ g.stage = "derive" /\ g.acct = granted'
    BY <1>1, <1>6, <2>1 DEF WalletRun
  <2>3. PICK runs : runs = [run EXCEPT ![r] = g]
    OBVIOUS
  <2>4. run' = runs \o (IF listening THEN <<NewRun("connect")>> ELSE << >>)
    BY <1>6, <2>1, <2>3
  <2>5. run \in Seq(WalletRun)
    BY <1>1 DEF WalletTypes
  <2>6. /\ runs \in Seq(WalletRun) /\ Len(runs) = Len(run) /\ DOMAIN runs = DOMAIN run
        /\ runs[r] = g
        /\ \A k \in DOMAIN run : k # r => runs[k] = run[k]
    BY <2>2, <2>3, <2>5, WalletRunSet
  <2>7. granted' # NoAcct
    BY <1>6, WalletAssumption
  <2>8. CASE ~listening
    <3>1. run' = runs
      BY <2>4, <2>6, <2>8
    <3>2. WalletTypes'
      BY <1>1, <1>6, <2>6, <3>1 DEF WalletTypes
    <3>3. ASSUME ~upset' PROVE RunsOrderly' /\ NoOtherAccount'
      <4>1. RunsOrderly /\ NoOtherAccount
        BY <1>6, <2>8, <3>3 DEF WalletInv
      <4>2. \A k \in DOMAIN run : run[k].acct = NoAcct
        BY <1>6, <4>1 DEF NoOtherAccount
      <4>3. session = NoAcct
        BY <1>6, <4>1 DEF NoOtherAccount
      <4>. QED
        BY <1>1, <1>6, <2>2, <2>6, <2>7, <2>8, <3>1, <4>1, <4>2, <4>3 DEF RunsOrderly, NoOtherAccount
    <3>. QED
      BY <1>1, <2>8, <3>2, <3>3 DEF WalletInv
  <2>9. CASE listening
    <3>0. PICK new : new = NewRun("connect")
      OBVIOUS
    <3>1. new \in WalletRun /\ new.stage = "provider" /\ new.acct = NoAcct /\ new.kind = "connect"
      BY <3>0 DEF NewRun, WalletRun
    <3>2. run' = Append(runs, new)
      BY <2>4, <2>6, <2>9, <3>0, <3>1
    <3>3. /\ run' \in Seq(WalletRun) /\ Len(run') = Len(runs) + 1
          /\ DOMAIN runs = 1..Len(runs) /\ Len(runs) \in Nat /\ DOMAIN run' = 1..(Len(runs) + 1)
          /\ run'[Len(runs) + 1] = new
          /\ \A k \in DOMAIN runs : run'[k] = runs[k]
      BY <2>6, <3>1, <3>2, WalletRunAdded
    <3>4. WalletTypes'
      BY <1>1, <1>6, <3>3 DEF WalletTypes
    <3>5. ASSUME ~upset' PROVE RunsOrderly'
      <4>1. RunsOrderly
        BY <1>6, <3>5 DEF WalletInv
      <4>2. \A k \in DOMAIN run' : \/ k \in DOMAIN run /\ k # r /\ run'[k] = run[k]
                                   \/ k = r /\ run'[k] = g
                                   \/ run'[k] = new
        BY <2>6, <3>3
      <4>. QED
        BY <1>1, <1>6, <2>2, <2>7, <3>1, <4>1, <4>2 DEF RunsOrderly
    <3>6. NewestRunSpeaks'
      BY <3>1, <3>3 DEF NewestRunSpeaks
    <3>. QED
      BY <1>1, <2>9, <3>4, <3>5, <3>6 DEF WalletInv
  <2>. QED
    BY <2>8, <2>9
<1>. QED
  BY <1>3, <1>4, <1>5, <1>6 DEF AskAccounts

LEMMA WalletStep == WalletInv /\ [WalletNext]_walletVars => WalletInv'
<1>. SUFFICES ASSUME WalletInv, [WalletNext]_walletVars PROVE WalletInv'
  OBVIOUS
<1>1. CASE UNCHANGED walletVars
  BY <1>1 DEF walletVars, WalletInv, WalletTypes, RunsOrderly, NoOtherAccount, NewestRunSpeaks
<1>2. CASE WalletNext
  BY <1>2, WalletInject, WalletPress, WalletResolve, WalletAsk, WalletDerived, WalletDisconnect,
     WalletSwitch, WalletReload DEF WalletNext
<1>. QED
  BY <1>1, <1>2

(***************************************************************************)
(* The app follows the wallet: once the listener is installed, no answer   *)
(* overtook a later one or failed, and no run is under way, the session is *)
(* of the account the wallet is on, or there is none (useWallet.ts).       *)
(***************************************************************************)
THEOREM WalletIsFollowed == WalletSpec => []SessionFollowsWallet
<1>1. WalletInv => SessionFollowsWallet
  <2>. SUFFICES ASSUME WalletInv, listening, ~upset, \A r \in DOMAIN run : ~Live(r)
                PROVE  session \in {granted, NoAcct}
    BY DEF SessionFollowsWallet
  <2>1. NewestRunSpeaks /\ RunsOrderly /\ run \in Seq(WalletRun)
    BY DEF WalletInv, WalletTypes
  <2>2. Len(run) \in DOMAIN run
    BY <2>1 DEF NewestRunSpeaks
  <2>3. run[Len(run)].stage = "done"
    BY <2>1, <2>2 DEF Live, RunsOrderly
  <2>. QED
    BY <2>1, <2>3 DEF NewestRunSpeaks
<1>. QED
  BY WalletInitially, WalletStep, <1>1, PTL DEF WalletSpec

-----------------------------------------------------------------------------
(***************************************************************************)
(* The set-up of an autopilot payment.  Every policy is that of one setup, *)
(* which had read a smaller nonce, and has its key and terms; a minted key *)
(* belongs to one setup.  A request whose validation saw no change knows   *)
(* what it has checked.                                                    *)
(***************************************************************************)
Setup ==
  [stage : {"key", "resolve", "nonce", "sign", "wait", "shown", "error"}, key : Nat,
   who : SUBSET Recipient, to : SUBSET Payee, terms : Terms, nonce : Nat, opNonce : Nat,
   status : {"none", "pool", "mined", "reverted", "dropped"}]

Policy ==
  [setup : Nat, key : Nat, nonce : Nat, to : SUBSET Payee, terms : Terms, active : BOOLEAN,
   spent : [Counter -> Nat]]

Request ==
  [policy : Nat, to : Payee, amount : Nat,
   stage : {"policy", "recipient", "balance", "gas", "added", "refused"},
   balance : Nat, steady : BOOLEAN]

Payment == [request : Nat, policy : Nat, to : Payee, amount : Nat, key : Nat]

Funds == [balance : Nat, sponsored : BOOLEAN, quoted : BOOLEAN]

SetupTypes ==
  /\ aliasOf \in [Alias -> Payee \cup {Unresolved}]
  /\ minted \in Nat
  /\ acctNonce \in Nat
  /\ clock \in Nat
  /\ funds \in Funds
  /\ setups \in Seq(Setup)
  /\ policies \in Seq(Policy)
  /\ requests \in Seq(Request)
  /\ intents \in Seq(Payment)

\* A policy is that of its setup.
PolicyOfSetup(p) ==
  LET s == policies[p].setup IN
  /\ policies[p].nonce = p - 1
  /\ s \in DOMAIN setups
  /\ setups[s].status = "mined"
  /\ setups[s].nonce < p
  /\ policies[p].key = setups[s].key
  /\ policies[p].terms = setups[s].terms

\* What a setup has come to.
SetupOrderly(s) ==
  /\ setups[s].key <= minted
  /\ setups[s].stage = "key" => setups[s].key = OwnKey
  /\ setups[s].stage \in {"key", "resolve", "nonce", "sign"} => setups[s].status = "none"
  /\ setups[s].nonce <= Len(policies)
  /\ setups[s].stage = "shown" => setups[s].status = "mined"
  /\ setups[s].status = "mined" => \E p \in DOMAIN policies : policies[p].setup = s

OwnInv ==
  /\ \A p \in DOMAIN policies : PolicyOfSetup(p)
  /\ \A p, q \in DOMAIN policies : policies[p].setup = policies[q].setup => p = q
  /\ \A s \in DOMAIN setups : SetupOrderly(s)
  /\ \A s, u \in DOMAIN setups : setups[s].key # OwnKey /\ setups[s].key = setups[u].key => s = u

\* What a request has checked, stage by stage, still holds.
CheckedUsable(q) == Usable(requests[q].policy)
CheckedTerms(q) ==
  policies[requests[q].policy].terms.single
    /\ requests[q].amount <= policies[requests[q].policy].terms.maxPerTx
CheckedRecipient(q) ==
  requests[q].to \in policies[requests[q].policy].to /\ policies[requests[q].policy].key \in keyFile

RequestSound(q) ==
  /\ requests[q].policy \in DOMAIN policies
  /\ requests[q].steady =>
       /\ requests[q].stage \in {"policy", "recipient", "balance", "gas"} => CheckedUsable(q)
       /\ requests[q].stage \in {"recipient", "balance", "gas"} => CheckedTerms(q)
       /\ requests[q].stage \in {"balance", "gas"} => CheckedRecipient(q)
       /\ requests[q].stage = "gas" => requests[q].balance = funds.balance

RequestInv == \A q \in DOMAIN requests : RequestSound(q)

SetupInv == SetupTypes /\ OwnInv /\ RequestInv

LEMMA SetupInitially == SetupInit => SetupInv
BY SetupAssumption DEF SetupInit, SetupInv, SetupTypes, OwnInv, RequestInv, Funds

\* A sequence with one entry replaced, or one more.
LEMMA EntrySet ==
  ASSUME NEW S, NEW s \in Seq(S), NEW i \in DOMAIN s, NEW g \in S
  PROVE  /\ [s EXCEPT ![i] = g] \in Seq(S)
         /\ Len([s EXCEPT ![i] = g]) = Len(s)
         /\ DOMAIN [s EXCEPT ![i] = g] = DOMAIN s
         /\ [s EXCEPT ![i] = g][i] = g
         /\ \A k \in DOMAIN s : k # i => [s EXCEPT ![i] = g][k] = s[k]
OBVIOUS

LEMMA EntryAdded ==
  ASSUME NEW S, NEW s \in Seq(S), NEW g \in S
  PROVE  /\ Append(s, g) \in Seq(S)
         /\ Len(Append(s, g)) = Len(s) + 1
         /\ DOMAIN s = 1..Len(s) /\ Len(s) \in Nat
         /\ DOMAIN Append(s, g) = 1..(Len(s) + 1)
         /\ Append(s, g)[Len(s) + 1] = g
         /\ \A k \in DOMAIN s : Append(s, g)[k] = s[k]
OBVIOUS

\* The requests are untouched and their policies are what they were.
LEMMA RequestsGoOn ==
  ASSUME SetupInv, requests' = requests, clock' = clock, funds' = funds,
         keyFile \subseteq keyFile',
         \A p \in DOMAIN policies : p \in DOMAIN policies' /\ policies'[p] = policies[p]
  PROVE  RequestInv'
<1>. SUFFICES ASSUME NEW q \in DOMAIN requests PROVE RequestSound(q)'
  BY DEF RequestInv
<1>1. RequestSound(q)
  BY DEF SetupInv, RequestInv
<1>2. policies'[requests[q].policy] = policies[requests[q].policy]
  BY <1>1 DEF RequestSound
<1>. QED
  BY <1>1, <1>2 DEF RequestSound, CheckedUsable, CheckedTerms, CheckedRecipient, Usable

\* Requests that see a change of what they rely on know nothing.
LEMMA UnsteadySound ==
  ASSUME SetupInv, requests' = Unsteady, DOMAIN policies \subseteq DOMAIN policies'
  PROVE  requests' \in Seq(Request) /\ RequestInv'
<1>1. requests \in Seq(Request)
  BY DEF SetupInv, SetupTypes
<1>2. DOMAIN requests' = DOMAIN requests /\ \A q \in DOMAIN requests : requests'[q] = [requests[q] EXCEPT !.steady = FALSE]
  BY DEF Unsteady
<1>3. ASSUME NEW q \in DOMAIN requests
      PROVE  requests'[q] \in Request /\ ~requests'[q].steady /\ requests'[q].policy = requests[q].policy
  <2>1. requests[q] \in Request
    BY <1>1
  <2>. QED
    BY <1>2, <2>1 DEF Request
<1>4. requests' \in Seq(Request)
  <2>1. DOMAIN requests = 1..Len(requests) /\ Len(requests) \in Nat
    BY <1>1
  <2>2. requests' = [q \in 1..Len(requests) |-> requests'[q]]
    BY <2>1 DEF Unsteady
  <2>. QED
    BY <1>3, <2>1, <2>2
<1>. QED
  BY <1>2, <1>3, <1>4 DEF SetupInv, RequestInv, RequestSound

\* What a setup may become while the policies stay.
LEMMA SetupMoves ==
  ASSUME SetupInv, NEW s \in DOMAIN setups, NEW g \in Setup,
         setups' = [setups EXCEPT ![s] = g], policies' = policies,
         minted' \in Nat, minted <= minted',
         g.terms = setups[s].terms,
         g.status = "mined" <=> setups[s].status = "mined",
         setups[s].status = "mined" => g.key = setups[s].key /\ g.nonce = setups[s].nonce,
         g.nonce <= Len(policies),
         g.key = setups[s].key \/ (g.key = minted' /\ minted' = minted + 1),
         g.stage = "key" => g.key = OwnKey,
         g.stage \in {"key", "resolve", "nonce", "sign"} => g.status = "none",
         g.stage = "shown" => g.status = "mined"
  PROVE  setups' \in Seq(Setup) /\ OwnInv'
<1>1. SetupTypes /\ OwnInv
  BY DEF SetupInv
<1>2. setups \in Seq(Setup) /\ policies \in Seq(Policy) /\ minted \in Nat
  BY <1>1 DEF SetupTypes
<1>3. /\ setups' \in Seq(Setup) /\ DOMAIN setups' = DOMAIN setups
      /\ setups'[s] = g
      /\ \A k \in DOMAIN setups : k # s => setups'[k] = setups[k]
  BY <1>2, EntrySet
<1>4. ASSUME NEW p \in DOMAIN policies PROVE PolicyOfSetup(p)'
  <2>1. PolicyOfSetup(p)
    BY <1>1 DEF OwnInv
  <2>. QED
    BY <1>3, <2>1 DEF PolicyOfSetup
<1>5. ASSUME NEW k \in DOMAIN setups PROVE SetupOrderly(k)'
  <2>1. SetupOrderly(k) /\ SetupOrderly(s) /\ setups[k] \in Setup
    BY <1>1, <1>2 DEF OwnInv
  <2>2. CASE k = s
    <3>1. g.key <= minted'
      BY <1>2, <2>1, <2>2, SMTT(30) DEF SetupOrderly, Setup
    <3>. QED
      BY <1>3, <2>1, <2>2, <3>1 DEF SetupOrderly
  <2>3. CASE k # s
    <3>1. setups[k].key \in Nat
      BY <2>1 DEF Setup
    <3>. QED
      BY <1>2, <1>3, <2>1, <2>3, <3>1 DEF SetupOrderly
  <2>. QED
    BY <2>2, <2>3
<1>6. \A k \in DOMAIN setups : setups[k].key <= minted /\ setups[k].key \in Nat
  <2>. SUFFICES ASSUME NEW k \in DOMAIN setups PROVE setups[k].key <= minted /\ setups[k].key \in Nat
    OBVIOUS
  <2>1. SetupOrderly(k) /\ setups[k] \in Setup
    BY <1>1, <1>2 DEF OwnInv
  <2>. QED
    BY <2>1 DEF SetupOrderly, Setup
<1>7. ASSUME NEW k \in DOMAIN setups, NEW u \in DOMAIN setups,
             setups'[k].key # OwnKey, setups'[k].key = setups'[u].key
      PROVE  k = u
  <2>1. CASE g.key = setups[s].key
    <3>1. setups[k].key = setups'[k].key /\ setups[u].key = setups'[u].key
      BY <1>3, <2>1
    <3>. QED
      BY <1>1, <1>7, <3>1 DEF OwnInv
  <2>2. CASE g.key = minted' /\ minted' = minted + 1
    <3>1. \A m \in DOMAIN setups : m # s => setups'[m].key <= minted /\ setups'[m].key \in Nat
      BY <1>3, <1>6
    <3>2. CASE k = s \/ u = s
      BY <1>2, <1>3, <1>7, <2>2, <3>1, <3>2
    <3>3. CASE k # s /\ u # s
      BY <1>1, <1>3, <1>7, <3>3 DEF OwnInv
    <3>. QED
      BY <3>2, <3>3
  <2>. QED
    BY <2>1, <2>2
<1>. QED
  BY <1>1, <1>3, <1>4, <1>5, <1>7 DEF OwnInv

\* A setup that moves on without a key or a nonce of its own changing.
LEMMA SetupGoesOn ==
  ASSUME SetupInv, NEW s \in DOMAIN setups, NEW g \in Setup,
         setups' = [setups EXCEPT ![s] = g],
         UNCHANGED <<aliasOf, keyFile, minted, policies, acctNonce, requests, intents, funds,
                     clock>>,
         g.terms = setups[s].terms, g.key = setups[s].key,
         g.status = "mined" <=> setups[s].status = "mined",
         setups[s].status = "mined" => g.nonce = setups[s].nonce,
         g.nonce <= Len(policies),
         g.stage = "key" => g.key = OwnKey,
         g.stage \in {"key", "resolve", "nonce", "sign"} => g.status = "none",
         g.stage = "shown" => g.status = "mined"
  PROVE  SetupInv'
<1>1. SetupTypes
  BY DEF SetupInv
<1>2. setups' \in Seq(Setup) /\ OwnInv'
  <2>1. minted' \in Nat /\ minted <= minted'
    BY <1>1 DEF SetupTypes
  <2>. QED
    BY <2>1, SetupMoves
<1>3. RequestInv'
  BY RequestsGoOn
<1>. QED
  BY <1>1, <1>2, <1>3 DEF SetupInv, SetupTypes

LEMMA SetupKnown ==
  ASSUME SetupInv, NEW s \in DOMAIN setups
  PROVE  setups[s] \in Setup /\ SetupOrderly(s) /\ Len(policies) \in Nat
BY DEF SetupInv, SetupTypes, OwnInv

LEMMA CreatePressed ==
  ASSUME SetupInv, NEW who \in SUBSET Recipient \ {{}}, NEW terms \in Terms, NEW advanced \in BOOLEAN,
         PressCreate(who, terms, advanced)
  PROVE  SetupInv'
<1>1. SetupTypes /\ OwnInv
  BY DEF SetupInv
<1>2. PICK g : g = [stage |-> IF advanced THEN "resolve" ELSE "key", key |-> OwnKey, who |-> who,
        to |-> {}, terms |-> terms, nonce |-> 0, opNonce |-> 0, status |-> "none"]
  OBVIOUS
<1>3. g \in Setup
  BY <1>2 DEF Setup, OwnKey
<1>4. setups' = Append(setups, g)
  BY <1>2 DEF PressCreate
<1>5. /\ setups' \in Seq(Setup) /\ DOMAIN setups = 1..Len(setups) /\ Len(setups) \in Nat
      /\ DOMAIN setups' = 1..(Len(setups) + 1)
      /\ setups'[Len(setups) + 1] = g
      /\ \A k \in DOMAIN setups : setups'[k] = setups[k]
  BY <1>1, <1>3, <1>4, EntryAdded DEF SetupTypes
<1>6. UNCHANGED <<aliasOf, keyFile, minted, policies, acctNonce, requests, intents, funds, clock>>
  BY DEF PressCreate
<1>7. ASSUME NEW p \in DOMAIN policies PROVE PolicyOfSetup(p)'
  <2>1. PolicyOfSetup(p)
    BY <1>1 DEF OwnInv
  <2>. QED
    BY <1>5, <1>6, <2>1 DEF PolicyOfSetup
<1>8. ASSUME NEW k \in DOMAIN setups' PROVE SetupOrderly(k)'
  <2>1. CASE k \in DOMAIN setups
    <3>1. SetupOrderly(k)
      BY <1>1, <2>1 DEF OwnInv
    <3>. QED
      BY <1>5, <1>6, <2>1, <3>1 DEF SetupOrderly
  <2>2. CASE k = Len(setups) + 1
    <3>1. setups'[k] = g
      BY <1>5, <2>2
    <3>2. g.key = 0 /\ g.nonce = 0 /\ g.status = "none" /\ g.stage # "shown"
      BY <1>2 DEF OwnKey
    <3>3. 0 <= minted /\ 0 <= Len(policies)
      BY <1>1 DEF SetupTypes
    <3>. QED
      BY <1>6, <3>1, <3>2, <3>3 DEF SetupOrderly, OwnKey
  <2>. QED
    BY <1>5, <2>1, <2>2
<1>9. ASSUME NEW k \in DOMAIN setups', NEW u \in DOMAIN setups',
             setups'[k].key # OwnKey, setups'[k].key = setups'[u].key
      PROVE  k = u
  <2>1. g.key = OwnKey
    BY <1>2
  <2>2. k \in DOMAIN setups /\ u \in DOMAIN setups
    BY <1>5, <1>9, <2>1
  <2>. QED
    BY <1>1, <1>5, <1>9, <2>2 DEF OwnInv
<1>10. OwnInv'
  BY <1>1, <1>6, <1>7, <1>8, <1>9 DEF OwnInv
<1>11. RequestInv'
  BY <1>6, RequestsGoOn
<1>. QED
  BY <1>1, <1>5, <1>6, <1>10, <1>11 DEF SetupInv, SetupTypes

LEMMA KeyProvisioned ==
  ASSUME SetupInv, NEW s \in DOMAIN setups, ProvisionSessionKey(s)
  PROVE  SetupInv'
<1>1. SetupTypes /\ minted \in Nat /\ Len(policies) \in Nat
  BY DEF SetupInv, SetupTypes
<1>2. setups[s] \in Setup /\ SetupOrderly(s)
  BY SetupKnown
<1>3. /\ setups[s].stage = "key" /\ minted' = minted + 1
      /\ UNCHANGED <<aliasOf, policies, acctNonce, intents, funds, clock>>
  BY DEF ProvisionSessionKey
<1>4. minted' \in Nat /\ minted <= minted' /\ minted' # OwnKey
  BY <1>1, <1>3 DEF OwnKey
<1>5. ASSUME keyFile' = SaveKey(minted'), requests' = requests,
             NEW stage \in {"resolve", "error"},
             setups' = [setups EXCEPT ![s].stage = stage, ![s].key = minted']
      PROVE  SetupInv'
  <2>1. PICK g : g = [setups[s] EXCEPT !.stage = stage, !.key = minted']
    OBVIOUS
  <2>2. /\ g \in Setup /\ g.key = minted' /\ g.terms = setups[s].terms /\ g.nonce = setups[s].nonce
        /\ g.status = setups[s].status /\ g.stage \in {"resolve", "error"}
    BY <1>2, <1>4, <2>1 DEF Setup
  <2>3. setups' = [setups EXCEPT ![s] = g]
    BY <1>5, <2>1
  <2>4. setups[s].status = "none" /\ setups[s].nonce <= Len(policies)
    BY <1>2, <1>3 DEF SetupOrderly
  <2>5. setups' \in Seq(Setup) /\ OwnInv'
    BY <1>3, <1>4, <2>2, <2>3, <2>4, SetupMoves
  <2>6. RequestInv'
    BY <1>3, <1>5, RequestsGoOn DEF SaveKey
  <2>. QED
    BY <1>1, <1>3, <1>4, <1>5, <2>5, <2>6 DEF SetupInv, SetupTypes
<1>6. ASSUME setups' = [setups EXCEPT ![s].stage = "error"], requests' = Unsteady
      PROVE  SetupInv'
  <2>1. PICK g : g = [setups[s] EXCEPT !.stage = "error"]
    OBVIOUS
  <2>2. /\ g \in Setup /\ g.key = setups[s].key /\ g.terms = setups[s].terms /\ g.nonce = setups[s].nonce
        /\ g.status = setups[s].status /\ g.stage = "error"
    BY <1>2, <2>1 DEF Setup
  <2>3. setups' = [setups EXCEPT ![s] = g]
    BY <1>6, <2>1
  <2>4. setups[s].nonce <= Len(policies)
    BY <1>2 DEF SetupOrderly
  <2>5. setups' \in Seq(Setup) /\ OwnInv'
    BY <1>3, <1>4, <2>2, <2>3, <2>4, SetupMoves
  <2>6. requests' \in Seq(Request) /\ RequestInv'
    BY <1>3, <1>6, UnsteadySound
  <2>. QED
    BY <1>1, <1>3, <1>4, <2>5, <2>6 DEF SetupInv, SetupTypes
<1>. QED
  BY <1>5, <1>6 DEF ProvisionSessionKey

LEMMA OneResolved ==
  ASSUME SetupInv, NEW s \in DOMAIN setups, NEW w \in setups[s].who, ResolveOne(s, w)
  PROVE  SetupInv'
<1>1. SetupTypes
  BY DEF SetupInv
<1>2. setups[s] \in Setup /\ SetupOrderly(s)
  BY SetupKnown
<1>3. setups[s].stage = "resolve" /\ setups[s].status = "none" /\ setups[s].nonce <= Len(policies)
  BY <1>2 DEF ResolveOne, SetupOrderly
<1>4. PICK g : g = IF Resolved(w) = Unresolved THEN [setups[s] EXCEPT !.stage = "error"]
       ELSE [setups[s] EXCEPT !.who = @ \ {w}, !.to = @ \cup {Resolved(w)},
              !.stage = IF setups[s].who # {w} THEN "resolve"
                        ELSE IF setups[s].terms.until > clock
                                /\ setups[s].terms.until > setups[s].terms.after
                             THEN "nonce" ELSE "error"]
  OBVIOUS
<1>5. setups' = [setups EXCEPT ![s] = g]
  <2>1. CASE Resolved(w) = Unresolved
    BY <1>4, <2>1 DEF ResolveOne
  <2>2. CASE Resolved(w) # Unresolved
    <3>1. setups' = [setups EXCEPT ![s] = [setups[s] EXCEPT !.who = setups[s].who \ {w},
              !.to = setups[s].to \cup {Resolved(w)},
              !.stage = IF setups[s].who # {w} THEN "resolve"
                        ELSE IF setups[s].terms.until > clock
                                /\ setups[s].terms.until > setups[s].terms.after
                             THEN "nonce" ELSE "error"]]
      BY <2>2 DEF ResolveOne
    <3>. QED
      BY <1>4, <2>2, <3>1
  <2>. QED
    BY <2>1, <2>2
<1>6. Resolved(w) # Unresolved => Resolved(w) \in Payee
  <2>1. w \in Recipient /\ aliasOf \in [Alias -> Payee \cup {Unresolved}]
    BY <1>1, <1>2 DEF Setup, SetupTypes
  <2>. QED
    BY <2>1 DEF Resolved, Recipient
<1>7. /\ g \in Setup /\ g.key = setups[s].key /\ g.terms = setups[s].terms /\ g.nonce = setups[s].nonce
      /\ g.status = setups[s].status /\ g.stage \in {"error", "resolve", "nonce"}
  <2>1. CASE Resolved(w) = Unresolved
    BY <1>2, <1>4, <2>1 DEF Setup
  <2>2. CASE Resolved(w) # Unresolved
    BY <1>2, <1>4, <1>6, <2>2 DEF Setup
  <2>. QED
    BY <2>1, <2>2
<1>8. UNCHANGED <<aliasOf, keyFile, minted, policies, acctNonce, requests, intents, funds, clock>>
  BY DEF ResolveOne
<1>. QED
  BY <1>3, <1>5, <1>7, <1>8, SetupGoesOn

LEMMA NonceRead ==
  ASSUME SetupInv, NEW s \in DOMAIN setups, ReadPolicyNonce(s)
  PROVE  SetupInv'
<1>2. setups[s] \in Setup /\ SetupOrderly(s) /\ Len(policies) \in Nat
  BY SetupKnown
<1>3. setups[s].stage = "nonce" /\ setups[s].status = "none"
  BY <1>2 DEF ReadPolicyNonce, SetupOrderly
<1>4. PICK g : g = [setups[s] EXCEPT !.stage = "sign", !.nonce = Len(policies)]
  OBVIOUS
<1>5. setups' = [setups EXCEPT ![s] = g]
  BY <1>4 DEF ReadPolicyNonce
<1>7. /\ g \in Setup /\ g.key = setups[s].key /\ g.terms = setups[s].terms /\ g.nonce = Len(policies)
      /\ g.status = setups[s].status /\ g.stage = "sign"
  BY <1>2, <1>4 DEF Setup
<1>8. UNCHANGED <<aliasOf, keyFile, minted, policies, acctNonce, requests, intents, funds, clock>>
  BY DEF ReadPolicyNonce
<1>9. /\ g.nonce <= Len(policies) /\ g.status = "none" /\ g.stage # "key" /\ g.stage # "shown"
      /\ setups[s].status # "mined"
  BY <1>2, <1>3, <1>7
<1>. QED
  BY <1>5, <1>7, <1>8, <1>9, SetupGoesOn

LEMMA PolicySubmitted ==
  ASSUME SetupInv, NEW s \in DOMAIN setups, SubmitPolicy(s)
  PROVE  SetupInv'
<1>1. SetupTypes
  BY DEF SetupInv
<1>2. setups[s] \in Setup /\ SetupOrderly(s)
  BY SetupKnown
<1>3. setups[s].stage = "sign" /\ setups[s].status = "none" /\ setups[s].nonce <= Len(policies)
  BY <1>2 DEF SubmitPolicy, SetupOrderly
<1>4. PICK outcome \in {<<"error", "none">>, <<"wait", "pool">>, <<"error", "pool">>} :
        setups' = [setups EXCEPT ![s].stage = outcome[1], ![s].status = outcome[2],
                                ![s].opNonce = acctNonce]
  BY DEF SubmitPolicy
<1>5. PICK g : g = [setups[s] EXCEPT !.stage = outcome[1], !.status = outcome[2], !.opNonce = acctNonce]
  OBVIOUS
<1>6. outcome[1] \in {"error", "wait"} /\ outcome[2] \in {"none", "pool"}
  OBVIOUS
<1>7. /\ g \in Setup /\ g.key = setups[s].key /\ g.terms = setups[s].terms /\ g.nonce = setups[s].nonce
      /\ g.status \in {"none", "pool"} /\ g.stage \in {"error", "wait"}
  BY <1>1, <1>2, <1>5, <1>6 DEF Setup, SetupTypes
<1>8. setups' = [setups EXCEPT ![s] = g]
  BY <1>4, <1>5
<1>9. UNCHANGED <<aliasOf, keyFile, minted, policies, acctNonce, requests, intents, funds, clock>>
  BY DEF SubmitPolicy
<1>. QED
  BY <1>3, <1>7, <1>8, <1>9, SetupGoesOn

LEMMA PolicyDropped ==
  ASSUME SetupInv, NEW s \in DOMAIN setups, DropPolicy(s)
  PROVE  SetupInv'
<1>2. setups[s] \in Setup /\ SetupOrderly(s)
  BY SetupKnown
<1>3. setups[s].status = "pool"
  BY DEF DropPolicy
<1>4. PICK g : g = [setups[s] EXCEPT !.status = "dropped"]
  OBVIOUS
<1>5. setups' = [setups EXCEPT ![s] = g]
  BY <1>4 DEF DropPolicy
<1>7. /\ g \in Setup /\ g.key = setups[s].key /\ g.terms = setups[s].terms /\ g.nonce = setups[s].nonce
      /\ g.status = "dropped" /\ g.stage = setups[s].stage
  BY <1>2, <1>4 DEF Setup
<1>8. UNCHANGED <<aliasOf, keyFile, minted, policies, acctNonce, requests, intents, funds, clock>>
  BY DEF DropPolicy
<1>9. /\ g.nonce <= Len(policies) /\ g.stage \notin {"key", "resolve", "nonce", "sign"}
      /\ g.stage # "shown" /\ g.stage # "key"
  BY <1>2, <1>3, <1>7 DEF SetupOrderly
<1>. QED
  BY <1>3, <1>5, <1>7, <1>8, <1>9, SetupGoesOn

LEMMA PolicyAwaited ==
  ASSUME SetupInv, NEW s \in DOMAIN setups, AwaitPolicy(s)
  PROVE  SetupInv'
<1>2. setups[s] \in Setup /\ SetupOrderly(s)
  BY SetupKnown
<1>3. PICK answer \in {"shown", "error"} :
        /\ setups' = [setups EXCEPT ![s].stage = answer]
        /\ answer = "shown" => setups[s].status = "mined"
  BY DEF AwaitPolicy
<1>4. PICK g : g = [setups[s] EXCEPT !.stage = answer]
  OBVIOUS
<1>5. setups' = [setups EXCEPT ![s] = g]
  BY <1>3, <1>4
<1>7. /\ g \in Setup /\ g.key = setups[s].key /\ g.terms = setups[s].terms /\ g.nonce = setups[s].nonce
      /\ g.status = setups[s].status /\ g.stage = answer
  BY <1>2, <1>4 DEF Setup
<1>8. UNCHANGED <<aliasOf, keyFile, minted, policies, acctNonce, requests, intents, funds, clock>>
  BY DEF AwaitPolicy
<1>9. g.nonce <= Len(policies)
  BY <1>2, <1>7 DEF SetupOrderly
<1>10. /\ g.stage \notin {"key", "resolve", "nonce", "sign"} /\ g.stage # "key"
       /\ g.stage = "shown" => g.status = "mined"
  BY <1>3, <1>7
<1>. QED
  BY <1>5, <1>7, <1>8, <1>9, <1>10, SetupGoesOn

LEMMA PolicyMined ==
  ASSUME SetupInv, NEW s \in DOMAIN setups, MinePolicy(s)
  PROVE  SetupInv'
<1>1. SetupTypes /\ OwnInv /\ setups \in Seq(Setup) /\ policies \in Seq(Policy)
  BY DEF SetupInv, SetupTypes
<1>2. setups[s] \in Setup /\ SetupOrderly(s) /\ Len(policies) \in Nat
  BY SetupKnown
<1>3. /\ setups[s].status = "pool" /\ acctNonce' = acctNonce + 1
      /\ UNCHANGED <<aliasOf, keyFile, minted, requests, intents, funds, clock>>
  BY DEF MinePolicy
<1>4. /\ setups[s].nonce <= Len(policies)
      /\ setups[s].stage \notin {"key", "resolve", "nonce", "sign", "shown"} /\ setups[s].stage # "key"
  BY <1>2, <1>3 DEF SetupOrderly
<1>5. CASE setups' = [setups EXCEPT ![s].status = "reverted"] /\ UNCHANGED policies
  <2>1. PICK g : g = [setups[s] EXCEPT !.status = "reverted"]
    OBVIOUS
  <2>2. /\ g \in Setup /\ g.key = setups[s].key /\ g.terms = setups[s].terms /\ g.nonce = setups[s].nonce
        /\ g.status = "reverted" /\ g.stage = setups[s].stage
    BY <1>2, <2>1 DEF Setup
  <2>3. setups' = [setups EXCEPT ![s] = g]
    BY <1>5, <2>1
  <2>4. minted' \in Nat /\ minted <= minted'
    BY <1>1, <1>3 DEF SetupTypes
  <2>5. setups' \in Seq(Setup) /\ OwnInv'
    BY <1>3, <1>4, <1>5, <2>2, <2>3, <2>4, SetupMoves
  <2>6. RequestInv'
    BY <1>3, <1>5, RequestsGoOn
  <2>. QED
    BY <1>1, <1>3, <1>5, <2>5, <2>6 DEF SetupInv, SetupTypes
<1>6. CASE /\ policies' = Append(policies,
                 [setup |-> s, key |-> setups[s].key, nonce |-> Len(policies),
                  to |-> setups[s].to, terms |-> setups[s].terms, active |-> TRUE,
                  spent |-> NothingSpent])
           /\ setups' = [setups EXCEPT ![s].status = "mined"]
  <2>1. PICK g : g = [setups[s] EXCEPT !.status = "mined"]
    OBVIOUS
  <2>2. /\ g \in Setup /\ g.key = setups[s].key /\ g.terms = setups[s].terms /\ g.nonce = setups[s].nonce
        /\ g.status = "mined" /\ g.stage = setups[s].stage
    BY <1>2, <2>1 DEF Setup
  <2>3. setups' = [setups EXCEPT ![s] = g]
    BY <1>6, <2>1
  <2>4. /\ setups' \in Seq(Setup) /\ DOMAIN setups' = DOMAIN setups
        /\ setups'[s] = g
        /\ \A k \in DOMAIN setups : k # s => setups'[k] = setups[k]
    BY <1>1, <2>2, <2>3, EntrySet
  <2>5. PICK new : new = [setup |-> s, key |-> setups[s].key, nonce |-> Len(policies),
                  to |-> setups[s].to, terms |-> setups[s].terms, active |-> TRUE,
                  spent |-> NothingSpent]
    OBVIOUS
  <2>6. s \in Nat
    BY <1>1
  <2>7. /\ new \in Policy /\ new.setup = s /\ new.key = setups[s].key /\ new.nonce = Len(policies)
        /\ new.terms = setups[s].terms
    BY <1>2, <2>5, <2>6 DEF Setup, Policy, NothingSpent
  <2>8. policies' = Append(policies, new)
    BY <1>6, <2>5
  <2>9. /\ policies' \in Seq(Policy) /\ DOMAIN policies = 1..Len(policies)
        /\ Len(policies') = Len(policies) + 1 /\ DOMAIN policies' = 1..(Len(policies) + 1)
        /\ policies'[Len(policies) + 1] = new
        /\ \A k \in DOMAIN policies : policies'[k] = policies[k]
    BY <1>1, <2>7, <2>8, EntryAdded
  <2>10. \A p \in DOMAIN policies : PolicyOfSetup(p) /\ policies[p].setup # s
    <3>. SUFFICES ASSUME NEW p \in DOMAIN policies PROVE PolicyOfSetup(p) /\ policies[p].setup # s
      OBVIOUS
    <3>1. PolicyOfSetup(p)
      BY <1>1 DEF OwnInv
    <3>. QED
      BY <1>3, <3>1 DEF PolicyOfSetup
  <2>11. ASSUME NEW p \in DOMAIN policies' PROVE PolicyOfSetup(p)'
    <3>1. CASE p \in DOMAIN policies
      <4>1. PolicyOfSetup(p) /\ policies[p].setup # s
        BY <2>10, <3>1
      <4>2. policies'[p] = policies[p] /\ setups'[policies[p].setup] = setups[policies[p].setup]
        BY <2>4, <2>9, <3>1, <4>1 DEF PolicyOfSetup
      <4>. QED
        BY <2>4, <4>1, <4>2 DEF PolicyOfSetup
    <3>2. CASE p = Len(policies) + 1
      <4>1. policies'[p] = new /\ Len(policies) = p - 1
        BY <1>2, <2>9, <3>2
      <4>2. setups[s].nonce < p
        BY <1>2, <1>4, <3>2 DEF Setup
      <4>. QED
        BY <2>2, <2>4, <2>7, <4>1, <4>2 DEF PolicyOfSetup
    <3>. QED
      BY <2>9, <3>1, <3>2
  <2>12. ASSUME NEW p \in DOMAIN policies', NEW q \in DOMAIN policies',
                policies'[p].setup = policies'[q].setup
         PROVE  p = q
    <3>1. CASE p \in DOMAIN policies /\ q \in DOMAIN policies
      BY <1>1, <2>9, <2>12, <3>1 DEF OwnInv
    <3>2. CASE p = Len(policies) + 1 \/ q = Len(policies) + 1
      BY <1>2, <2>7, <2>9, <2>10, <2>12, <3>2
    <3>. QED
      BY <2>9, <3>1, <3>2
  <2>13. ASSUME NEW k \in DOMAIN setups' PROVE SetupOrderly(k)'
    <3>1. SetupOrderly(k) /\ setups[k] \in Setup
      BY <1>1, <2>4 DEF OwnInv
    <3>2. CASE k = s
      <4>1. setups'[k] = g /\ setups[s].key <= minted /\ setups[s].stage = "key" => setups[s].key = OwnKey
        BY <2>4, <3>1, <3>2 DEF SetupOrderly
      <4>2. g.nonce <= Len(policies')
        BY <1>2, <1>4, <2>2, <2>9 DEF Setup
      <4>3. Len(policies) + 1 \in DOMAIN policies' /\ policies'[Len(policies) + 1].setup = s
        BY <1>2, <2>7, <2>9
      <4>. QED
        BY <1>3, <1>4, <2>2, <2>4, <3>1, <3>2, <4>2, <4>3 DEF SetupOrderly
    <3>3. CASE k # s
      <4>1. setups'[k] = setups[k]
        BY <2>4, <3>3
      <4>2. setups[k].nonce <= Len(policies')
        BY <1>2, <2>9, <3>1 DEF SetupOrderly, Setup
      <4>3. setups[k].status = "mined" => \E p \in DOMAIN policies' : policies'[p].setup = k
        BY <1>2, <2>9, <3>1 DEF SetupOrderly
      <4>. QED
        BY <1>3, <3>1, <4>1, <4>2, <4>3 DEF SetupOrderly
    <3>. QED
      BY <3>2, <3>3
  <2>14. ASSUME NEW k \in DOMAIN setups', NEW u \in DOMAIN setups',
                setups'[k].key # OwnKey, setups'[k].key = setups'[u].key
         PROVE  k = u
    <3>1. setups'[k].key = setups[k].key /\ setups'[u].key = setups[u].key
      BY <2>2, <2>4
    <3>. QED
      BY <1>1, <2>4, <2>14, <3>1 DEF OwnInv
  <2>15. OwnInv'
    BY <2>11, <2>12, <2>13, <2>14 DEF OwnInv
  <2>16. \A p \in DOMAIN policies : p \in DOMAIN policies' /\ policies'[p] = policies[p]
    BY <1>2, <2>9
  <2>17. RequestInv'
    BY <1>3, <2>16, RequestsGoOn
  <2>. QED
    BY <1>1, <1>3, <2>4, <2>9, <2>15, <2>17 DEF SetupInv, SetupTypes
<1>. QED
  BY <1>5, <1>6 DEF MinePolicy

\* What concerns the setups and the policies is as it was.
LEMMA OwnGoesOn ==
  ASSUME SetupInv, UNCHANGED <<minted, setups, policies>>
  PROVE  OwnInv'
<1>1. OwnInv
  BY DEF SetupInv
<1>. QED
  BY <1>1 DEF OwnInv, PolicyOfSetup, SetupOrderly

LEMMA RequestKnown ==
  ASSUME SetupInv, NEW q \in DOMAIN requests
  PROVE  requests[q] \in Request /\ RequestSound(q) /\ requests[q].policy \in DOMAIN policies
            /\ policies[requests[q].policy] \in Policy
BY DEF SetupInv, SetupTypes, RequestInv, RequestSound

LEMMA RequestMoves ==
  ASSUME SetupInv, NEW q \in DOMAIN requests, NEW g \in Request,
         requests' = [requests EXCEPT ![q] = g],
         UNCHANGED <<aliasOf, keyFile, minted, policies, setups, acctNonce, funds, clock>>,
         intents' \in Seq(Payment),
         g.policy = requests[q].policy, g.to = requests[q].to, g.amount = requests[q].amount,
         g.steady =>
           /\ g.stage \in {"policy", "recipient", "balance", "gas"} => CheckedUsable(q)
           /\ g.stage \in {"recipient", "balance", "gas"} => CheckedTerms(q)
           /\ g.stage \in {"balance", "gas"} => CheckedRecipient(q)
           /\ g.stage = "gas" => g.balance = funds.balance
  PROVE  SetupInv'
<1>1. SetupTypes
  BY DEF SetupInv
<1>2. /\ requests' \in Seq(Request) /\ DOMAIN requests' = DOMAIN requests
      /\ requests'[q] = g
      /\ \A k \in DOMAIN requests : k # q => requests'[k] = requests[k]
  BY <1>1, EntrySet DEF SetupTypes
<1>3. ASSUME NEW k \in DOMAIN requests PROVE RequestSound(k)'
  <2>1. RequestSound(k) /\ RequestSound(q)
    BY RequestKnown
  <2>2. CASE k = q
    BY <1>2, <2>1, <2>2 DEF RequestSound, CheckedUsable, CheckedTerms, CheckedRecipient, Usable
  <2>3. CASE k # q
    BY <1>2, <2>1, <2>3 DEF RequestSound, CheckedUsable, CheckedTerms, CheckedRecipient, Usable
  <2>. QED
    BY <2>2, <2>3
<1>4. OwnInv'
  BY OwnGoesOn
<1>. QED
  BY <1>1, <1>2, <1>3, <1>4 DEF SetupInv, SetupTypes, RequestInv

LEMMA Scheduled ==
  ASSUME SetupInv, NEW p \in DOMAIN policies, NEW to \in Payee, NEW amount \in 1..StartBalance,
         Schedule(p, to, amount)
  PROVE  SetupInv'
<1>1. SetupTypes
  BY DEF SetupInv
<1>2. PICK g : g = [policy |-> p, to |-> to, amount |-> amount,
                    stage |-> "policy", balance |-> 0, steady |-> TRUE]
  OBVIOUS
<1>3. g \in Request /\ g.policy = p /\ g.stage = "policy"
  <2>1. p \in Nat /\ amount \in Nat
    BY <1>1, SetupAssumption DEF SetupTypes
  <2>. QED
    BY <1>2, <2>1 DEF Request
<1>4. requests' = Append(requests, g)
  BY <1>2 DEF Schedule
<1>5. /\ requests' \in Seq(Request) /\ DOMAIN requests = 1..Len(requests) /\ Len(requests) \in Nat
      /\ DOMAIN requests' = 1..(Len(requests) + 1)
      /\ requests'[Len(requests) + 1] = g
      /\ \A k \in DOMAIN requests : requests'[k] = requests[k]
  BY <1>1, <1>3, <1>4, EntryAdded DEF SetupTypes
<1>6. /\ UNCHANGED <<aliasOf, keyFile, minted, policies, setups, acctNonce, intents, funds, clock>>
      /\ Usable(p)
  BY DEF Schedule
<1>7. ASSUME NEW k \in DOMAIN requests' PROVE RequestSound(k)'
  <2>1. CASE k \in DOMAIN requests
    <3>1. RequestSound(k)
      BY <2>1, RequestKnown
    <3>. QED
      BY <1>5, <1>6, <2>1, <3>1 DEF RequestSound, CheckedUsable, CheckedTerms, CheckedRecipient, Usable
  <2>2. CASE k = Len(requests) + 1
    <3>1. requests'[k] = g
      BY <1>5, <2>2
    <3>. QED
      BY <1>3, <1>6, <3>1 DEF RequestSound, CheckedUsable, Usable
  <2>. QED
    BY <1>5, <2>1, <2>2
<1>8. OwnInv'
  BY <1>6, OwnGoesOn
<1>. QED
  BY <1>1, <1>5, <1>6, <1>7, <1>8 DEF SetupInv, SetupTypes, RequestInv

LEMMA PolicyRead ==
  ASSUME SetupInv, NEW q \in DOMAIN requests, ReadPolicy(q)
  PROVE  SetupInv'
<1>1. requests[q] \in Request /\ RequestSound(q) /\ policies[requests[q].policy] \in Policy
  BY RequestKnown
<1>2. PICK ok, stage : /\ stage = "recipient"
                       /\ ok = (/\ policies[requests[q].policy].active
                                /\ policies[requests[q].policy].terms.until > clock
                                /\ policies[requests[q].policy].terms.single
                                /\ requests[q].amount \in 1..policies[requests[q].policy].terms.maxPerTx)
  OBVIOUS
<1>3. requests[q].stage = "policy" /\ Continue(q, ok, stage)
  BY <1>2 DEF ReadPolicy
<1>4. PICK g : g = [requests[q] EXCEPT !.stage = IF ok THEN stage ELSE "refused"]
  OBVIOUS
<1>5. requests' = [requests EXCEPT ![q] = g]
  BY <1>3, <1>4 DEF Continue
<1>6. /\ g \in Request /\ g.policy = requests[q].policy /\ g.to = requests[q].to
      /\ g.amount = requests[q].amount /\ g.steady = requests[q].steady
      /\ g.stage = IF ok THEN "recipient" ELSE "refused"
  BY <1>1, <1>2, <1>4 DEF Request
<1>7. requests[q].steady => CheckedUsable(q)
  BY <1>1, <1>3 DEF RequestSound
<1>8. ok => CheckedTerms(q)
  <2>1. policies[requests[q].policy].terms.maxPerTx \in Nat
    BY <1>1, SetupAssumption DEF Policy, TermsType
  <2>2. ok => /\ policies[requests[q].policy].terms.single
              /\ requests[q].amount \in 1..policies[requests[q].policy].terms.maxPerTx
    BY <1>2
  <2>3. requests[q].amount \in 1..policies[requests[q].policy].terms.maxPerTx
          => requests[q].amount <= policies[requests[q].policy].terms.maxPerTx
    BY <2>1
  <2>. QED
    BY <2>2, <2>3 DEF CheckedTerms
<1>9. /\ UNCHANGED <<aliasOf, keyFile, minted, policies, setups, acctNonce, funds, clock>>
      /\ intents' \in Seq(Payment)
  BY <1>3 DEF Continue, SetupInv, SetupTypes
<1>10. ok \in BOOLEAN
  BY <1>2
<1>. QED
  BY <1>5, <1>6, <1>7, <1>8, <1>9, <1>10, RequestMoves

LEMMA RecipientRead ==
  ASSUME SetupInv, NEW q \in DOMAIN requests, ReadRecipient(q)
  PROVE  SetupInv'
<1>1. requests[q] \in Request /\ RequestSound(q)
  BY RequestKnown
<1>2. PICK ok, stage : /\ stage = "balance"
                       /\ ok = (/\ requests[q].to \in policies[requests[q].policy].to
                                /\ policies[requests[q].policy].key \in keyFile)
  OBVIOUS
<1>3. requests[q].stage = "recipient" /\ Continue(q, ok, stage)
  BY <1>2 DEF ReadRecipient
<1>4. PICK g : g = [requests[q] EXCEPT !.stage = IF ok THEN stage ELSE "refused"]
  OBVIOUS
<1>5. requests' = [requests EXCEPT ![q] = g]
  BY <1>3, <1>4 DEF Continue
<1>6. /\ g \in Request /\ g.policy = requests[q].policy /\ g.to = requests[q].to
      /\ g.amount = requests[q].amount /\ g.steady = requests[q].steady
      /\ g.stage = IF ok THEN "balance" ELSE "refused"
  BY <1>1, <1>2, <1>4 DEF Request
<1>7. requests[q].steady => CheckedUsable(q) /\ CheckedTerms(q)
  BY <1>1, <1>3 DEF RequestSound
<1>8. ok => CheckedRecipient(q)
  BY <1>2 DEF CheckedRecipient
<1>9. /\ UNCHANGED <<aliasOf, keyFile, minted, policies, setups, acctNonce, funds, clock>>
      /\ intents' \in Seq(Payment)
  BY <1>3 DEF Continue, SetupInv, SetupTypes
<1>10. ok \in BOOLEAN
  BY <1>2
<1>. QED
  BY <1>5, <1>6, <1>7, <1>8, <1>9, <1>10, RequestMoves

LEMMA BalanceRead ==
  ASSUME SetupInv, NEW q \in DOMAIN requests, ReadBalance(q)
  PROVE  SetupInv'
<1>1. requests[q] \in Request /\ RequestSound(q)
  BY RequestKnown
<1>2. funds.balance \in Nat /\ intents' \in Seq(Payment)
  BY DEF ReadBalance, SetupInv, SetupTypes, Funds
<1>4. PICK g : g = [requests[q] EXCEPT !.stage = "gas", !.balance = funds.balance]
  OBVIOUS
<1>5. requests' = [requests EXCEPT ![q] = g] /\ requests[q].stage = "balance"
  BY <1>4 DEF ReadBalance
<1>6. /\ g \in Request /\ g.policy = requests[q].policy /\ g.to = requests[q].to
      /\ g.amount = requests[q].amount /\ g.steady = requests[q].steady
      /\ g.stage = "gas" /\ g.balance = funds.balance
  BY <1>1, <1>2, <1>4 DEF Request
<1>7. requests[q].steady => CheckedUsable(q) /\ CheckedTerms(q) /\ CheckedRecipient(q)
  BY <1>1, <1>5 DEF RequestSound
<1>9. UNCHANGED <<aliasOf, keyFile, minted, policies, setups, acctNonce, funds, clock>>
  BY DEF ReadBalance
<1>. QED
  BY <1>2, <1>5, <1>6, <1>7, <1>9, RequestMoves

LEMMA IntentAdded ==
  ASSUME SetupInv, NEW q \in DOMAIN requests, AddIntent(q)
  PROVE  SetupInv'
<1>1. /\ requests[q] \in Request /\ RequestSound(q) /\ policies[requests[q].policy] \in Policy
      /\ requests \in Seq(Request) /\ intents \in Seq(Payment) /\ q \in Nat
  BY RequestKnown DEF SetupInv, SetupTypes
<1>2. PICK stage \in {"added", "refused"} : requests' = [requests EXCEPT ![q].stage = stage]
  BY DEF AddIntent
<1>3. PICK new : new = [request |-> q, policy |-> requests[q].policy, to |-> requests[q].to,
                  amount |-> requests[q].amount, key |-> policies[requests[q].policy].key]
  OBVIOUS
<1>4. new \in Payment
  BY <1>1, <1>3 DEF Request, Policy, Payment
<1>5. intents' = Append(intents, new) \/ intents' = intents
  BY <1>3 DEF AddIntent
<1>6. intents' \in Seq(Payment)
  BY <1>1, <1>4, <1>5
<1>7. PICK g : g = [requests[q] EXCEPT !.stage = stage]
  OBVIOUS
<1>8. requests' = [requests EXCEPT ![q] = g]
  BY <1>2, <1>7
<1>9. /\ g \in Request /\ g.policy = requests[q].policy /\ g.to = requests[q].to
      /\ g.amount = requests[q].amount /\ g.stage \in {"added", "refused"}
  BY <1>1, <1>7 DEF Request
<1>10. UNCHANGED <<aliasOf, keyFile, minted, policies, setups, acctNonce, funds, clock>>
  BY DEF AddIntent
<1>11. g.stage \notin {"policy", "recipient", "balance", "gas"} /\ g.stage # "gas"
  BY <1>9
<1>. QED
  BY <1>6, <1>8, <1>9, <1>10, <1>11, RequestMoves

\* Policies that change in what the owner or the guardian may change.
LEMMA PoliciesRevised ==
  ASSUME SetupInv, NEW p \in DOMAIN policies, NEW g \in Policy,
         policies' = [policies EXCEPT ![p] = g],
         UNCHANGED <<minted, setups>>,
         g.setup = policies[p].setup, g.key = policies[p].key, g.nonce = policies[p].nonce,
         g.terms = policies[p].terms
  PROVE  policies' \in Seq(Policy) /\ DOMAIN policies' = DOMAIN policies /\ OwnInv'
<1>1. OwnInv /\ policies \in Seq(Policy)
  BY DEF SetupInv, SetupTypes
<1>2. /\ policies' \in Seq(Policy) /\ DOMAIN policies' = DOMAIN policies /\ Len(policies') = Len(policies)
      /\ policies'[p] = g
      /\ \A k \in DOMAIN policies : k # p => policies'[k] = policies[k]
  BY <1>1, EntrySet
<1>3. \A k \in DOMAIN policies :
        /\ policies'[k].setup = policies[k].setup /\ policies'[k].key = policies[k].key
        /\ policies'[k].nonce = policies[k].nonce /\ policies'[k].terms = policies[k].terms
  BY <1>2
<1>. QED
  BY <1>1, <1>2, <1>3 DEF OwnInv, PolicyOfSetup, SetupOrderly

LEMMA SetupChange == SetupInv /\ Change => SetupInv'
<1>. SUFFICES ASSUME SetupInv, Change PROVE SetupInv'
  OBVIOUS
<1>1. SetupTypes
  BY DEF SetupInv
<1>2. requests' = Unsteady /\ UNCHANGED <<keyFile, minted, setups, intents>>
  BY DEF Change
<1>3. ASSUME OwnInv', policies' \in Seq(Policy), DOMAIN policies' = DOMAIN policies,
             funds' \in Funds, clock' \in Nat, acctNonce' \in Nat,
             aliasOf' \in [Alias -> Payee \cup {Unresolved}]
      PROVE  SetupInv'
  <2>1. requests' \in Seq(Request) /\ RequestInv'
    BY <1>2, <1>3, UnsteadySound
  <2>. QED
    BY <1>1, <1>2, <1>3, <2>1 DEF SetupInv, SetupTypes
<1>4. ASSUME NEW p \in DOMAIN policies, policies' = [policies EXCEPT ![p].active = FALSE],
             UNCHANGED <<funds, clock, aliasOf, acctNonce>>
      PROVE  SetupInv'
  <2>1. policies[p] \in Policy
    BY <1>1 DEF SetupTypes
  <2>2. PICK g : g = [policies[p] EXCEPT !.active = FALSE]
    OBVIOUS
  <2>3. /\ g \in Policy /\ g.setup = policies[p].setup /\ g.key = policies[p].key
        /\ g.nonce = policies[p].nonce /\ g.terms = policies[p].terms
    BY <2>1, <2>2 DEF Policy
  <2>4. policies' = [policies EXCEPT ![p] = g]
    BY <1>4, <2>2
  <2>5. policies' \in Seq(Policy) /\ DOMAIN policies' = DOMAIN policies /\ OwnInv'
    BY <1>2, <2>3, <2>4, PoliciesRevised
  <2>. QED
    BY <1>1, <1>3, <1>4, <2>5 DEF SetupTypes
<1>5. ASSUME NEW p \in DOMAIN policies, NEW to \in SUBSET Payee,
             policies' = [policies EXCEPT ![p].to = to],
             UNCHANGED <<funds, clock, aliasOf, acctNonce>>
      PROVE  SetupInv'
  <2>1. policies[p] \in Policy
    BY <1>1 DEF SetupTypes
  <2>2. PICK g : g = [policies[p] EXCEPT !.to = to]
    OBVIOUS
  <2>3. /\ g \in Policy /\ g.setup = policies[p].setup /\ g.key = policies[p].key
        /\ g.nonce = policies[p].nonce /\ g.terms = policies[p].terms
    BY <2>1, <2>2 DEF Policy
  <2>4. policies' = [policies EXCEPT ![p] = g]
    BY <1>5, <2>2
  <2>5. policies' \in Seq(Policy) /\ DOMAIN policies' = DOMAIN policies /\ OwnInv'
    BY <1>2, <2>3, <2>4, PoliciesRevised
  <2>. QED
    BY <1>1, <1>3, <1>5, <2>5 DEF SetupTypes
<1>6. ASSUME UNCHANGED policies PROVE OwnInv' /\ policies' \in Seq(Policy) /\ DOMAIN policies' = DOMAIN policies
  BY <1>1, <1>2, <1>6, OwnGoesOn DEF SetupTypes
<1>7. ASSUME NEW balance \in 0..StartBalance, NEW sponsored \in {FALSE, funds.sponsored},
             NEW quoted \in BOOLEAN,
             funds' = [balance |-> balance, sponsored |-> sponsored, quoted |-> quoted],
             acctNonce' = acctNonce + 1, UNCHANGED <<policies, clock, aliasOf>>
      PROVE  SetupInv'
  <2>1. funds' \in Funds
    <3>1. balance \in Nat
      BY SetupAssumption
    <3>2. sponsored \in BOOLEAN
      BY <1>1 DEF Funds, SetupTypes
    <3>. QED
      BY <1>7, <3>1, <3>2 DEF Funds
  <2>. QED
    BY <1>1, <1>3, <1>6, <1>7, <2>1 DEF SetupTypes
<1>8. ASSUME clock' = clock + 1, UNCHANGED <<policies, funds, aliasOf, acctNonce>> PROVE SetupInv'
  BY <1>1, <1>3, <1>6, <1>8 DEF SetupTypes
<1>9. ASSUME aliasOf' \in [Alias -> Payee \cup {Unresolved}],
             UNCHANGED <<policies, funds, clock, acctNonce>>
      PROVE  SetupInv'
  BY <1>1, <1>3, <1>6, <1>9 DEF SetupTypes
<1>10. ASSUME NEW p \in DOMAIN policies, NEW spent \in [Counter -> Nat],
              policies' = [policies EXCEPT ![p].spent = spent],
              funds' \in Funds, acctNonce' \in Nat, UNCHANGED <<clock, aliasOf>>
       PROVE  SetupInv'
  <2>1. policies[p] \in Policy
    BY <1>1 DEF SetupTypes
  <2>2. PICK g : g = [policies[p] EXCEPT !.spent = spent]
    OBVIOUS
  <2>3. /\ g \in Policy /\ g.setup = policies[p].setup /\ g.key = policies[p].key
        /\ g.nonce = policies[p].nonce /\ g.terms = policies[p].terms
    BY <2>1, <2>2 DEF Policy
  <2>4. policies' = [policies EXCEPT ![p] = g]
    BY <1>10, <2>2
  <2>5. policies' \in Seq(Policy) /\ DOMAIN policies' = DOMAIN policies /\ OwnInv'
    BY <1>2, <2>3, <2>4, PoliciesRevised
  <2>. QED
    BY <1>1, <1>3, <1>10, <2>5 DEF SetupTypes
<1>11. ASSUME NEW p \in DOMAIN policies, NEW amount \in 1..funds.balance,
              policies' = [policies EXCEPT ![p].spent = [c \in Counter |-> @[c] + amount]],
              funds' = [funds EXCEPT !.balance = @ - amount],
              acctNonce' = acctNonce + 1, UNCHANGED <<clock, aliasOf>>
       PROVE  SetupInv'
  <2>1. policies[p] \in Policy /\ funds \in Funds /\ acctNonce \in Nat
    BY <1>1 DEF SetupTypes
  <2>2. amount \in Nat /\ funds.balance - amount \in Nat
    BY <2>1 DEF Funds
  <2>3. PICK spent : spent = [c \in Counter |-> policies[p].spent[c] + amount]
    OBVIOUS
  <2>4. spent \in [Counter -> Nat] /\ policies' = [policies EXCEPT ![p].spent = spent]
    BY <1>11, <2>1, <2>2, <2>3 DEF Policy
  <2>5. funds' \in Funds /\ acctNonce' \in Nat
    BY <1>11, <2>1, <2>2 DEF Funds
  <2>. QED
    BY <1>10, <1>11, <2>4, <2>5
<1>12. ASSUME NEW p \in DOMAIN policies, NEW c \in {"daily", "weekly"},
              policies' = [policies EXCEPT ![p].spent[c] = 0],
              UNCHANGED <<funds, clock, aliasOf, acctNonce>>
       PROVE  SetupInv'
  <2>1. policies[p] \in Policy
    BY <1>1 DEF SetupTypes
  <2>2. PICK spent : spent = [policies[p].spent EXCEPT ![c] = 0]
    OBVIOUS
  <2>3. spent \in [Counter -> Nat] /\ policies' = [policies EXCEPT ![p].spent = spent]
    BY <1>12, <2>1, <2>2 DEF Policy
  <2>. QED
    BY <1>1, <1>10, <1>12, <2>3 DEF SetupTypes
<1>. QED
  BY <1>4, <1>5, <1>7, <1>8, <1>9, <1>11, <1>12 DEF Change

LEMMA SetupStep == SetupInv /\ [SetupNext]_setupVars => SetupInv'
<1>. SUFFICES ASSUME SetupInv, [SetupNext]_setupVars PROVE SetupInv'
  OBVIOUS
<1>1. CASE UNCHANGED setupVars
  BY <1>1 DEF setupVars, SetupInv, SetupTypes, OwnInv, PolicyOfSetup, SetupOrderly, RequestInv,
     RequestSound, CheckedUsable, CheckedTerms, CheckedRecipient, Usable
<1>2. CASE \E who \in SUBSET Recipient \ {{}}, terms \in Terms, advanced \in BOOLEAN :
             PressCreate(who, terms, advanced)
  BY <1>2, CreatePressed
<1>3. CASE \E s \in DOMAIN setups :
             \/ ProvisionSessionKey(s) \/ \E w \in setups[s].who : ResolveOne(s, w)
             \/ ReadPolicyNonce(s) \/ SubmitPolicy(s) \/ MinePolicy(s) \/ DropPolicy(s) \/ AwaitPolicy(s)
  BY <1>3, KeyProvisioned, OneResolved, NonceRead, PolicySubmitted, PolicyMined, PolicyDropped,
     PolicyAwaited
<1>4. CASE \E p \in DOMAIN policies, to \in Payee, amount \in 1..StartBalance : Schedule(p, to, amount)
  BY <1>4, Scheduled
<1>5. CASE \E q \in DOMAIN requests : ReadPolicy(q) \/ ReadRecipient(q) \/ ReadBalance(q) \/ AddIntent(q)
  BY <1>5, PolicyRead, RecipientRead, BalanceRead, IntentAdded
<1>6. CASE Change
  BY <1>6, SetupChange
<1>. QED
  BY <1>1, <1>2, <1>3, <1>4, <1>5, <1>6 DEF SetupNext

(***************************************************************************)
(* The id the page shows as created is that of the policy its operation    *)
(* created, unless another creation was mined in between; with a key of    *)
(* its own it is then the id of no policy (client.ts:311,                  *)
(* AutopilotNew.tsx:124).                                                  *)
(***************************************************************************)
THEOREM ShownIsOwn == SetupSpec => []ShownPolicyIsOwn
<1>1. SetupInv => ShownPolicyIsOwn
  <2>. SUFFICES ASSUME SetupInv, NEW s \in DOMAIN setups, setups[s].stage = "shown",
                       NEW Named, Named = {p \in DOMAIN policies : policies[p].key = setups[s].key
                                             /\ policies[p].nonce = setups[s].nonce}
                PROVE  /\ setups[s].key # OwnKey => \A p \in Named : policies[p].setup = s
                       /\ ~OvertakenByAnother(s) =>
                            \E p \in Named : policies[p].setup = s /\ policies[p].terms = setups[s].terms
    BY DEF ShownPolicyIsOwn
  <2>1. OwnInv /\ policies \in Seq(Policy) /\ setups \in Seq(Setup) /\ SetupOrderly(s)
    BY DEF SetupInv, SetupTypes, OwnInv
  <2>2. ASSUME setups[s].key # OwnKey, NEW p \in Named PROVE policies[p].setup = s
    <3>1. PolicyOfSetup(p) /\ policies[p].key = setups[s].key
      BY <2>1 DEF OwnInv
    <3>2. policies[p].setup \in DOMAIN setups /\ setups[policies[p].setup].key = setups[s].key
      BY <3>1 DEF PolicyOfSetup
    <3>. QED
      BY <2>1, <2>2, <3>2 DEF OwnInv
  <2>3. PICK p \in DOMAIN policies : policies[p].setup = s
    BY <2>1 DEF SetupOrderly
  <2>4. /\ policies[p].nonce = p - 1 /\ setups[s].nonce < p
        /\ policies[p].key = setups[s].key /\ policies[p].terms = setups[s].terms
    BY <2>1, <2>3 DEF OwnInv, PolicyOfSetup
  <2>5. DOMAIN policies = 1..Len(policies) /\ Len(policies) \in Nat /\ p \in Nat /\ setups[s].nonce \in Nat
    <3>1. setups[s] \in Setup
      BY <2>1
    <3>. QED
      BY <2>1, <3>1 DEF Setup
  <2>6. ASSUME setups[s].nonce # p - 1 PROVE OvertakenByAnother(s)
    <3>1. setups[s].nonce + 1 \in DOMAIN policies /\ setups[s].nonce + 1 < p
      BY <2>4, <2>5, <2>6
    <3>2. \A own \in DOMAIN policies : policies[own].setup = s => own = p
      BY <2>1, <2>3 DEF OwnInv
    <3>3. policies[setups[s].nonce + 1].setup # s
      BY <2>5, <3>1, <3>2
    <3>4. setups[s].nonce + 1 > setups[s].nonce
      BY <2>5
    <3>. QED
      BY <3>1, <3>2, <3>3, <3>4 DEF OvertakenByAnother
  <2>7. ASSUME ~OvertakenByAnother(s) PROVE p \in Named
    BY <2>4, <2>6, <2>7
  <2>. QED
    BY <2>2, <2>3, <2>4, <2>7
<1>. QED
  BY SetupInitially, SetupStep, <1>1, PTL DEF SetupSpec

(***************************************************************************)
(* When an intent is added, at most the caps of its policy refuse it, if   *)
(* nothing it relies on changed during its validation: neither the policy  *)
(* as it is then, nor the key, the gas or the money                        *)
(* (autopilot-executor.ts:424, 442-548).                                   *)
(***************************************************************************)
THEOREM AddedIsRefusedByCapsOnly == SetupSpec => OnlyCapsRefuseScheduled
<1>1. ASSUME SetupInv, [SetupNext]_setupVars
      PROVE  [\A i \in DOMAIN intents' \ DOMAIN intents :
               requests[intents'[i].request].steady => RefusedBy(i)' \subseteq Counter]_setupVars
  <2>. SUFFICES ASSUME NEW i \in DOMAIN intents' \ DOMAIN intents,
                       requests[intents'[i].request].steady
                PROVE  RefusedBy(i)' \subseteq Counter
    OBVIOUS
  <2>1. intents' # intents
    OBVIOUS
  <2>2. PICK q \in DOMAIN requests : AddIntent(q)
    BY <1>1, <2>1 DEF SetupNext, setupVars, PressCreate, ProvisionSessionKey, ResolveOne, ReadPolicyNonce,
       SubmitPolicy, MinePolicy, DropPolicy, AwaitPolicy, Schedule, ReadPolicy, ReadRecipient, Continue,
       ReadBalance, Change
  <2>3. PICK new : new = [request |-> q, policy |-> requests[q].policy, to |-> requests[q].to,
                    amount |-> requests[q].amount, key |-> policies[requests[q].policy].key]
    OBVIOUS
  <2> PICK policy, terms : policy = policies[requests[q].policy] /\ terms = policy.terms
    OBVIOUS
  <2>4. /\ intents' = Append(intents, new) /\ requests[q].stage = "gas"
        /\ GasMode(terms) # "PAUSED"
        /\ requests[q].balance >= requests[q].amount + GasCost(terms)
        /\ UNCHANGED <<keyFile, policies, funds, clock>>
    BY <2>1, <2>2, <2>3 DEF AddIntent
  <2>5. requests[q] \in Request /\ RequestSound(q) /\ policy \in Policy
    BY <1>1, RequestKnown
  <2>6. intents \in Seq(Payment) /\ clock \in Nat /\ funds \in Funds
    BY <1>1 DEF SetupInv, SetupTypes
  <2>7. intents'[i] = new
    BY <2>4, <2>6
  <2>8. requests[q].steady
    BY <2>3, <2>7
  <2>9. /\ CheckedUsable(q) /\ CheckedTerms(q) /\ CheckedRecipient(q)
        /\ requests[q].balance = funds.balance
    BY <2>4, <2>5, <2>8 DEF RequestSound
  <2>10. /\ intents'[i].policy = requests[q].policy /\ intents'[i].to = requests[q].to
         /\ intents'[i].amount = requests[q].amount /\ intents'[i].key = policy.key
    BY <2>3, <2>7
  <2>11. terms \in TermsType
    BY <2>5, SetupAssumption DEF Policy
  <2>12. clock \in terms.after..terms.until
    BY <2>6, <2>9, <2>11 DEF CheckedUsable, Usable, TermsType
  <2>13. policies'[intents'[i].policy] = policy
    BY <2>4, <2>10
  <2>14. GasMode(terms)' = GasMode(terms) /\ GasCost(terms)' = GasCost(terms)
    BY <2>4 DEF GasMode, GasCost
  <2>15. InDates(intents[i].policy)'
    BY <2>4, <2>12, <2>13 DEF InDates
  <2> DEFINE met == [active |-> policy.active,
                     dates |-> InDates(intents[i].policy)',
                     selector |-> terms.single,
                     recipient |-> intents'[i].to \in policy.to,
                     maxPerTx |-> intents'[i].amount <= terms.maxPerTx,
                     key |-> intents'[i].key \in keyFile',
                     gas |-> GasMode(terms)' # "PAUSED",
                     funds |-> funds'.balance >= intents'[i].amount + GasCost(terms)']
  <2>16. \A r \in DOMAIN met : met[r]
    <3>1. policy.active /\ terms.single /\ intents'[i].amount <= terms.maxPerTx
      BY <2>9, <2>10 DEF CheckedUsable, Usable, CheckedTerms
    <3>2. intents'[i].to \in policy.to /\ intents'[i].key \in keyFile'
      BY <2>4, <2>9, <2>10 DEF CheckedRecipient
    <3>3. GasMode(terms)' # "PAUSED"
      BY <2>4, <2>14
    <3>4. funds'.balance >= intents'[i].amount + GasCost(terms)'
      BY <2>4, <2>9, <2>10, <2>14
    <3>5. DOMAIN met = {"active", "dates", "selector", "recipient", "maxPerTx", "key", "gas", "funds"}
      OBVIOUS
    <3>6. met.active /\ met.dates /\ met.selector /\ met.recipient
      BY <2>15, <3>1, <3>2
    <3>7. met.maxPerTx /\ met.key /\ met.gas /\ met.funds
      BY <3>1, <3>2, <3>3, <3>4
    <3> HIDE DEF met
    <3>. QED
      BY <3>5, <3>6, <3>7
  <2>17. RefusedBy(i)' = {r \in DOMAIN met : ~met[r]} \cup ExceededCaps(intents[i].policy, intents[i].amount)'
    BY <2>13 DEF RefusedBy
  <2> HIDE DEF met
  <2>. QED
    BY <2>16, <2>17 DEF ExceededCaps
<1>. QED
  BY SetupInitially, SetupStep, <1>1, PTL DEF SetupSpec, OnlyCapsRefuseScheduled

-----------------------------------------------------------------------------
(***************************************************************************)
(* Payment links.  Every copy of a link, stored or held by a scan, is      *)
(* backed by a transfer if it is marked as paid, and what a scan has seen  *)
(* are transfers to the wallet it is for.                                  *)
(***************************************************************************)
Link ==
  [id : Nat, amount : Nat, target : Wallet, createdAt : Nat, status : {"unpaid", "paid"}, tx : Nat]

LinkTransfer == [to : Wallet, amount : Nat, at : Nat]

Scan ==
  [pc : {"none", "reading", "match", "done", "failed"}, detail : Detail, wallet : Wallet \cup {NoWallet},
   links : Seq(Link), seen : SUBSET Nat, mounted : BOOLEAN, waiting : BOOLEAN]

BackedLink(link) ==
  link.status = "paid" =>
    /\ link.tx \in DOMAIN transfers
    /\ transfers[link.tx].to = link.target
    /\ transfers[link.tx].amount = link.amount
    /\ transfers[link.tx].at >= link.createdAt

BackedLinks(links) == \A i \in DOMAIN links : BackedLink(links[i])

ScanSound(sc) ==
  /\ BackedLinks(sc.links)
  /\ \A n \in sc.seen : n \in DOMAIN transfers /\ transfers[n].to = sc.wallet

LinkInv ==
  /\ linkCount \in Nat
  /\ millis \in Nat
  /\ viewer \in Wallet \cup {NoWallet}
  /\ tab \in Tab
  /\ transfers \in Seq(LinkTransfer)
  /\ stored \in Seq(Link)
  /\ BackedLinks(stored)
  /\ scans \in [ScanName -> Scan]
  /\ \A s \in ScanName : ScanSound(scans[s])

LEMMA NoScanSound == NoScan \in Scan /\ ScanSound(NoScan)
BY HistoryAssumption DEF NoScan, Scan, ScanSound, BackedLinks

LEMMA LinkInitially == HistoryInit => LinkInv
BY NoScanSound DEF HistoryInit, LinkInv, BackedLinks, Tab

\* A set of places in a sequence has a first.
LEMMA FirstPlace ==
  ASSUME NEW T \in SUBSET Nat, T # {}
  PROVE  \E n \in T : \A m \in T : n <= m
<1>1. IsWellFoundedOn(OpToRel(<, Nat), Nat)
  BY NatLessThanWellFounded
<1>2. PICK n \in T : \A m \in T : ~ (<<m, n>> \in OpToRel(<, Nat))
  BY <1>1, WFMin
<1>3. ASSUME NEW m \in T PROVE n <= m
  <2>1. m \in Nat /\ n \in Nat
    OBVIOUS
  <2>2. m < n => <<m, n>> \in OpToRel(<, Nat)
    BY <2>1 DEF OpToRel
  <2>3. ~ (m < n)
    BY <1>2, <2>2
  <2>. QED
    BY <2>1, <2>3
<1>. QED
  BY <1>3

LEMMA TransferTaken ==
  ASSUME NEW link, NEW free, free \subseteq Nat, TransferFor(link, free) # 0
  PROVE  TransferFor(link, free) \in free /\ Pays(TransferFor(link, free), link)
<1>1. PICK fit : fit = {n \in free : Pays(n, link)}
  OBVIOUS
<1>2. TransferFor(link, free) = IF fit = {} THEN 0 ELSE CHOOSE n \in fit : \A m \in fit : n <= m
  BY <1>1 DEF TransferFor
<1>3. fit # {} /\ fit \in SUBSET Nat
  BY <1>1, <1>2
<1>4. (CHOOSE n \in fit : \A m \in fit : n <= m) \in fit
  BY <1>3, FirstPlace
<1>. QED
  BY <1>1, <1>2, <1>3, <1>4

\* What the matching makes of backed links are backed links.
LEMMA MatchedBacked ==
  ASSUME NEW links \in Seq(Link), NEW wallet, NEW free,
         BackedLinks(links), transfers \in Seq(LinkTransfer),
         \A n \in free : n \in DOMAIN transfers /\ transfers[n].to = wallet
  PROVE  Matched(links, wallet, free) \in Seq(Link) /\ BackedLinks(Matched(links, wallet, free))
<1>1. free \subseteq Nat
  OBVIOUS
<1>2. PICK taken : Matched(links, wallet, free) =
        [i \in DOMAIN links |->
           IF i \in Eligible(links, wallet) /\ TransferFor(links[i], free \ taken[i - 1]) # 0
           THEN PaidWith(links[i], TransferFor(links[i], free \ taken[i - 1])) ELSE links[i]]
  BY DEF Matched
<1>3. PICK all : all = Matched(links, wallet, free)
  OBVIOUS
<1>4. ASSUME NEW i \in DOMAIN links PROVE all[i] \in Link /\ BackedLink(all[i])
  <2>1. links[i] \in Link /\ BackedLink(links[i])
    BY DEF BackedLinks
  <2>2. PICK tx : tx = TransferFor(links[i], free \ taken[i - 1])
    OBVIOUS
  <2>3. CASE i \in Eligible(links, wallet) /\ tx # 0
    <3>1. tx \in free /\ Pays(tx, links[i])
      BY <1>1, <2>2, <2>3, TransferTaken
    <3>2. all[i] = PaidWith(links[i], tx)
      BY <1>2, <1>3, <2>2, <2>3
    <3>3. links[i].target = wallet /\ tx \in Nat
      BY <1>1, <2>3, <3>1 DEF Eligible
    <3>4. /\ all[i] \in Link /\ all[i].tx = tx /\ all[i].target = links[i].target
          /\ all[i].amount = links[i].amount /\ all[i].createdAt = links[i].createdAt
      BY <2>1, <3>2, <3>3 DEF PaidWith, Link
    <3>. QED
      BY <3>1, <3>3, <3>4 DEF BackedLink, Pays
  <2>4. CASE ~(i \in Eligible(links, wallet) /\ tx # 0)
    <3>1. all[i] = links[i]
      BY <1>2, <1>3, <2>2, <2>4
    <3>. QED
      BY <2>1, <3>1
  <2>. QED
    BY <2>3, <2>4
<1>5. DOMAIN all = DOMAIN links /\ all = [i \in DOMAIN links |-> all[i]]
  BY <1>2, <1>3
<1>6. DOMAIN links = 1..Len(links) /\ Len(links) \in Nat
  OBVIOUS
<1>7. all \in Seq(Link)
  BY <1>4, <1>5, <1>6
<1>. QED
  BY <1>3, <1>4, <1>5, <1>7 DEF BackedLinks

LEMMA Element ==
  ASSUME NEW S, NEW s \in Seq(S)
  PROVE  /\ \A i \in 1..Len(s) : s[i] \in S /\ i \in Nat
         /\ s # << >> => s[1] \in S
OBVIOUS

LEMMA LinksMade ==
  ASSUME LinkInv, NEW batch \in LinkBatch, CreateLinks(batch)
  PROVE  LinkInv'
<1>1. /\ batch \in Seq([amount : Nat, target : Wallet]) /\ linkCount \in Nat /\ millis \in Nat
      /\ stored \in Seq(Link) /\ BackedLinks(stored)
  BY HistoryAssumption DEF LinkInv
<1>2. PICK made : made = Made(batch)
  OBVIOUS
<1>3. DOMAIN made = 1..Len(batch) /\ Len(batch) \in Nat
  BY <1>1, <1>2 DEF Made
<1>4. ASSUME NEW i \in 1..Len(batch) PROVE made[i] \in Link /\ made[i].status = "unpaid"
  <2>1. batch[i] \in [amount : Nat, target : Wallet] /\ i \in Nat
    BY <1>1, Element
  <2>2. linkCount + i \in Nat
    BY <1>1, <2>1
  <2>3. made[i] = [id |-> linkCount + i, amount |-> batch[i].amount, target |-> batch[i].target,
                   createdAt |-> millis, status |-> "unpaid", tx |-> 0]
    BY <1>2 DEF Made
  <2>. QED
    BY <1>1, <2>1, <2>2, <2>3 DEF Link
<1>5. made \in Seq(Link)
  <2>1. made = [i \in 1..Len(batch) |-> made[i]]
    BY <1>2 DEF Made
  <2>. QED
    BY <1>3, <1>4, <2>1
<1>6. PICK all : all = made \o stored
  OBVIOUS
<1>7. all \in Seq(Link) /\ \A i \in DOMAIN all : BackedLink(all[i])
  <2>1. all \in Seq(Link) /\ Len(all) = Len(made) + Len(stored) /\ Len(made) = Len(batch)
    BY <1>1, <1>3, <1>5, <1>6
  <2>2. ASSUME NEW i \in DOMAIN all PROVE BackedLink(all[i])
    <3>1. CASE i \in 1..Len(batch)
      <4>1. all[i] = made[i]
        BY <1>1, <1>3, <1>5, <1>6, <2>1, <3>1
      <4>. QED
        BY <1>4, <3>1, <4>1 DEF BackedLink
    <3>2. CASE i \notin 1..Len(batch)
      <4>1. i - Len(batch) \in DOMAIN stored /\ all[i] = stored[i - Len(batch)]
        BY <1>1, <1>3, <1>5, <1>6, <2>1, <3>2
      <4>. QED
        BY <1>1, <4>1 DEF BackedLinks
    <3>. QED
      BY <3>1, <3>2
  <2>. QED
    BY <2>1, <2>2
<1>8. PICK n : n = Min2(Len(all), MaxStoredLinks)
  OBVIOUS
<1>9. n \in 0..Len(all)
  BY <1>7, <1>8, HistoryAssumption DEF Min2
<1>10. stored' = SubSeq(all, 1, n)
  BY <1>2, <1>6, <1>8 DEF CreateLinks
<1>11. stored' \in Seq(Link) /\ \A i \in DOMAIN stored' : i \in DOMAIN all /\ stored'[i] = all[i]
  BY <1>7, <1>9, <1>10
<1>12. linkCount' \in Nat
  BY <1>1, <1>3 DEF CreateLinks
<1>13. UNCHANGED <<transfers, millis, viewer, tab, scans>>
  BY DEF CreateLinks, chainVars, pageVars
<1>14. BackedLinks(stored)'
  BY <1>7, <1>11, <1>13 DEF BackedLinks, BackedLink
<1>. QED
  BY <1>11, <1>12, <1>13, <1>14 DEF LinkInv, ScanSound, BackedLinks, BackedLink

\* Transfers that were mined stay.
LEMMA TransferAdded ==
  ASSUME LinkInv, NEW to \in Wallet, NEW amount \in Nat, TransferMined(to, amount)
  PROVE  LinkInv'
<1>1. transfers \in Seq(LinkTransfer) /\ millis \in Nat /\ stored \in Seq(Link)
  BY DEF LinkInv
<1>2. PICK new : new = [to |-> to, amount |-> amount, at |-> (millis \div Second) * Second]
  OBVIOUS
<1>3. (millis \div Second) * Second \in Nat
  <2>1. Second \in Nat \ {0}
    BY HistoryAssumption
  <2>2. millis \div Second \in Nat
    BY <1>1, <2>1
  <2>3. \A a, b \in Nat : a * b \in Nat
    OBVIOUS
  <2>. QED
    BY <2>1, <2>2, <2>3
<1>4. new \in LinkTransfer
  BY <1>2, <1>3 DEF LinkTransfer
<1>5. transfers' = Append(transfers, new)
  BY <1>2 DEF TransferMined
<1>6. /\ transfers' \in Seq(LinkTransfer) /\ DOMAIN transfers \subseteq DOMAIN transfers'
      /\ \A n \in DOMAIN transfers : transfers'[n] = transfers[n]
  BY <1>1, <1>4, <1>5
<1>7. UNCHANGED <<stored, linkCount, millis, viewer, tab, scans>>
  BY DEF TransferMined, storeVars, pageVars
<1>8. \A link : BackedLink(link) => BackedLink(link)'
  BY <1>6 DEF BackedLink
<1>9. ASSUME NEW links, BackedLinks(links) PROVE BackedLinks(links)'
  BY <1>8, <1>9 DEF BackedLinks
<1>10. BackedLinks(stored)'
  BY <1>7, <1>8 DEF LinkInv, BackedLinks
<1>11. ASSUME NEW s \in ScanName PROVE ScanSound(scans[s])'
  <2>1. ScanSound(scans[s])
    BY DEF LinkInv
  <2>. QED
    BY <1>6, <1>7, <1>8, <2>1 DEF ScanSound, BackedLinks
<1>. QED
  BY <1>6, <1>7, <1>10, <1>11 DEF LinkInv

LEMMA LinkTimePasses == LinkInv /\ MillisPass => LinkInv'
BY DEF LinkInv, MillisPass, storeVars, pageVars, ScanSound, BackedLinks, BackedLink

\* Scans that know nothing new.
LEMMA ScansGoOn ==
  ASSUME LinkInv, UNCHANGED <<stored, linkCount, transfers, millis>>,
         viewer' \in Wallet \cup {NoWallet}, tab' \in Tab,
         scans' \in [ScanName -> Scan], \A s \in ScanName : ScanSound(scans'[s])
  PROVE  LinkInv'
BY DEF LinkInv, ScanSound, BackedLinks, BackedLink

\* What a scan may become without knowing more.
LEMMA ScanKept ==
  ASSUME NEW sc \in Scan, ScanSound(sc), NEW g,
         \/ g = NoScan
         \/ \E m \in BOOLEAN : g = [sc EXCEPT !.mounted = m]
         \/ \E pc \in {"done", "failed"} : g = [sc EXCEPT !.pc = pc]
         \/ g = [sc EXCEPT !.waiting = FALSE, !.mounted = FALSE]
  PROVE  g \in Scan /\ ScanSound(g)
<1>1. CASE g = NoScan
  BY <1>1, NoScanSound
<1>2. ASSUME NEW m \in BOOLEAN, g = [sc EXCEPT !.mounted = m] PROVE g \in Scan /\ ScanSound(g)
  <2>1. g \in Scan /\ g.links = sc.links /\ g.seen = sc.seen /\ g.wallet = sc.wallet
    BY <1>2 DEF Scan
  <2>. QED
    BY <2>1 DEF ScanSound
<1>3. ASSUME NEW pc \in {"done", "failed"}, g = [sc EXCEPT !.pc = pc] PROVE g \in Scan /\ ScanSound(g)
  <2>1. g \in Scan /\ g.links = sc.links /\ g.seen = sc.seen /\ g.wallet = sc.wallet
    BY <1>3 DEF Scan
  <2>. QED
    BY <2>1 DEF ScanSound
<1>4. ASSUME g = [sc EXCEPT !.waiting = FALSE, !.mounted = FALSE] PROVE g \in Scan /\ ScanSound(g)
  <2>1. g \in Scan /\ g.links = sc.links /\ g.seen = sc.seen /\ g.wallet = sc.wallet
    BY <1>4 DEF Scan
  <2>. QED
    BY <2>1 DEF ScanSound
<1>. QED
  BY <1>1, <1>2, <1>3, <1>4

LEMMA EffectSound ==
  ASSUME LinkInv, NEW w \in Wallet \cup {NoWallet}, NEW t \in Tab, NEW sh, NEW fl, Effect(w, t, sh, fl)
  PROVE  scans' \in [ScanName -> Scan] /\ \A s \in ScanName : ScanSound(scans'[s])
<1>1. scans \in [ScanName -> Scan] /\ \A s \in ScanName : ScanSound(scans[s])
  BY DEF LinkInv
<1>2. Unmounted \in [ScanName -> Scan] /\ \A s \in ScanName : ScanSound(Unmounted[s])
  <2>1. ASSUME NEW s \in ScanName PROVE [scans[s] EXCEPT !.mounted = FALSE] \in Scan
                                          /\ ScanSound([scans[s] EXCEPT !.mounted = FALSE])
    BY <1>1, ScanKept
  <2>. QED
    BY <2>1 DEF Unmounted
<1>3. CASE Wants(w, t, sh, fl)
  <2>1. PICK s \in ScanName : scans' = [Unmounted EXCEPT ![s] = NewScan(w, t)]
    BY <1>3 DEF Effect
  <2>2. NewScan(w, t) \in Scan /\ ScanSound(NewScan(w, t))
    BY <1>3 DEF NewScan, Scan, ScanSound, LinkInv, Wants
  <2>. QED
    BY <1>2, <2>1, <2>2
<1>4. CASE ~Wants(w, t, sh, fl)
  BY <1>2, <1>4 DEF Effect
<1>. QED
  BY <1>3, <1>4

LEMMA PageMoves ==
  ASSUME LinkInv, (\E t \in Tab : OpenTab(t)) \/ (\E w \in Wallet \cup {NoWallet} : Connect(w))
  PROVE  LinkInv'
<1>1. ASSUME NEW t \in Tab, OpenTab(t) PROVE LinkInv'
  BY <1>1, EffectSound, ScansGoOn DEF OpenTab, storeVars, chainVars, LinkInv
<1>2. ASSUME NEW w \in Wallet \cup {NoWallet}, Connect(w) PROVE LinkInv'
  BY <1>2, EffectSound, ScansGoOn DEF Connect, storeVars, chainVars, LinkInv
<1>. QED
  BY <1>1, <1>2

\* One scan becomes another one.
LEMMA ScanReplaced ==
  ASSUME LinkInv, NEW s \in ScanName, NEW g \in Scan, ScanSound(g),
         scans' = [scans EXCEPT ![s] = g] \/ scans' = [t \in ScanName |-> IF t # s THEN scans[t] ELSE g],
         UNCHANGED <<stored, linkCount, transfers, millis, viewer, tab>>
  PROVE  LinkInv'
<1>1. scans \in [ScanName -> Scan] /\ \A t \in ScanName : ScanSound(scans[t])
  BY DEF LinkInv
<1>2. scans' \in [ScanName -> Scan] /\ \A t \in ScanName : ScanSound(scans'[t])
  BY <1>1
<1>. QED
  BY <1>2, ScansGoOn DEF LinkInv

LEMMA ScanEnds ==
  ASSUME LinkInv, NEW s \in ScanName, NEW pc \in {"done", "failed"}
  PROVE  Ended(s, pc) \in Scan /\ ScanSound(Ended(s, pc))
<1>1. scans[s] \in Scan /\ ScanSound(scans[s])
  BY DEF LinkInv
<1>2. [scans[s] EXCEPT !.pc = pc] \in Scan /\ ScanSound([scans[s] EXCEPT !.pc = pc])
  BY <1>1, ScanKept
<1>. QED
  BY <1>2, NoScanSound DEF Ended

LEMMA LogsRead ==
  ASSUME LinkInv, NEW s \in ScanName, ReadLogs(s)
  PROVE  LinkInv'
<1>1. scans[s] \in Scan /\ ScanSound(scans[s]) /\ transfers \in Seq(LinkTransfer) /\ millis \in Nat
  BY DEF LinkInv
<1>2. PICK g : g = IF scans[s].detail = "links"
                   THEN [scans[s] EXCEPT !.pc = "match", !.seen = InWindow(s)]
                   ELSE Ended(s, "done")
  OBVIOUS
<1>3. scans' = [scans EXCEPT ![s] = g] /\ UNCHANGED <<stored, linkCount, transfers, millis, viewer, tab>>
  BY <1>2 DEF ReadLogs, storeVars, chainVars, pageVars
<1>4. g \in Scan /\ ScanSound(g)
  <2>1. CASE scans[s].detail = "links"
    <3>1. InWindow(s) \subseteq DOMAIN transfers /\ InWindow(s) \in SUBSET Nat
      BY <1>1 DEF InWindow
    <3>2. g \in Scan /\ g.links = scans[s].links /\ g.seen = InWindow(s) /\ g.wallet = scans[s].wallet
      BY <1>1, <1>2, <2>1, <3>1 DEF Scan
    <3>. QED
      BY <1>1, <3>1, <3>2 DEF ScanSound, InWindow
  <2>2. CASE scans[s].detail # "links"
    BY <1>2, <2>2, ScanEnds
  <2>. QED
    BY <2>1, <2>2
<1>. QED
  BY <1>3, <1>4, ScanReplaced

LEMMA ReadFailed ==
  ASSUME LinkInv, NEW s \in ScanName, ReadFails(s)
  PROVE  LinkInv'
BY ScanEnds, ScanReplaced DEF ReadFails, storeVars, chainVars, pageVars

LEMMA LinksMatched ==
  ASSUME LinkInv, NEW s \in ScanName, MatchLinks(s)
  PROVE  LinkInv'
<1>1. /\ scans[s] \in Scan /\ ScanSound(scans[s]) /\ transfers \in Seq(LinkTransfer)
      /\ scans \in [ScanName -> Scan] /\ \A t \in ScanName : ScanSound(scans[t])
  BY DEF LinkInv
<1>2. PICK all : all = Matched(scans[s].links, scans[s].wallet, scans[s].seen)
  OBVIOUS
<1>3. scans[s].links \in Seq(Link)
  BY <1>1 DEF Scan
<1>4. all \in Seq(Link) /\ BackedLinks(all)
  BY <1>1, <1>2, <1>3, MatchedBacked DEF ScanSound
<1>5. /\ stored' = all /\ scans' = [scans EXCEPT ![s] = Ended(s, "done")]
      /\ UNCHANGED <<linkCount, transfers, millis, viewer, tab>>
  BY <1>2 DEF MatchLinks, chainVars, pageVars
<1>6. scans' \in [ScanName -> Scan] /\ \A t \in ScanName : ScanSound(scans'[t])
  BY <1>1, <1>5, ScanEnds
<1>. QED
  BY <1>4, <1>5, <1>6 DEF LinkInv, ScanSound, BackedLinks, BackedLink

LEMMA ScanSettles ==
  ASSUME LinkInv, NEW s \in ScanName, NEW outcome, Settle(s, outcome)
  PROVE  LinkInv'
<1>1. scans[s] \in Scan /\ ScanSound(scans[s])
  BY DEF LinkInv
<1>2. PICK g : g = IF scans[s].pc \in {"done", "failed"} THEN NoScan
                   ELSE [scans[s] EXCEPT !.waiting = FALSE, !.mounted = FALSE]
  OBVIOUS
<1>3. g \in Scan /\ ScanSound(g)
  BY <1>1, <1>2, ScanKept
<1>4. /\ scans' = [t \in ScanName |-> IF t # s THEN scans[t] ELSE g]
      /\ UNCHANGED <<stored, linkCount, transfers, millis, viewer, tab>>
  BY <1>2 DEF Settle, storeVars, chainVars
<1>. QED
  BY <1>3, <1>4, ScanReplaced

LEMMA LinkStep == LinkInv /\ [HistoryNext]_historyVars => LinkInv'
<1>. SUFFICES ASSUME LinkInv, [HistoryNext]_historyVars PROVE LinkInv'
  OBVIOUS
<1>1. CASE UNCHANGED historyVars
  BY <1>1 DEF historyVars, storeVars, chainVars, pageVars, LinkInv, ScanSound, BackedLinks, BackedLink
<1>2. CASE \E batch \in LinkBatch : CreateLinks(batch)
  BY <1>2, LinksMade
<1>3. ASSUME NEW batch \in LinkBatch, TransferMined(batch[1].target, batch[1].amount) PROVE LinkInv'
  <2>1. batch \in Seq([amount : Nat, target : Wallet]) /\ batch # << >>
    BY HistoryAssumption
  <2>2. batch[1] \in [amount : Nat, target : Wallet]
    BY <2>1, Element
  <2>. QED
    BY <1>3, <2>2, TransferAdded
<1>4. CASE (\E t \in Tab : OpenTab(t)) \/ (\E w \in Wallet \cup {NoWallet} : Connect(w))
  BY <1>4, PageMoves
<1>5. ASSUME NEW s \in ScanName, ScanStep(s) \/ ReadFails(s) \/ ScanTimesOut(s) PROVE LinkInv'
  BY <1>5, LogsRead, LinksMatched, ScanSettles, ReadFailed
     DEF ScanStep, ScanResolves, ScanRejects, ScanTimesOut
<1>. QED
  BY <1>1, <1>2, <1>3, <1>4, <1>5, LinkTimePasses DEF HistoryNext

(***************************************************************************)
(* A link is shown as paid only if a transfer of its amount to its target  *)
(* was mined after it was made, however scans overlap, time out or write   *)
(* over one another's copies (history.ts).                                 *)
(***************************************************************************)
THEOREM LinksArePaid == HistorySpec => []PaidByTransfer
<1>1. LinkInv => PaidByTransfer
  BY DEF LinkInv, PaidByTransfer, PaidLinks, BackedLinks, BackedLink
<1>. QED
  BY LinkInitially, LinkStep, <1>1, PTL DEF HistorySpec

-----------------------------------------------------------------------------
(***************************************************************************)
(* The send page.  While nothing disturbs it the address shown is what the *)
(* preview finds for the input, which is what the payment finds if it      *)
(* finds anything.                                                         *)
(***************************************************************************)
PageState ==
  [step : {"form", "confirm", "sending", "done"}, to : Input \cup {NoInput},
   looking : Input \cup {NoInput}, shown : Person \cup {NoOne}, result : Nat, receipt : Nat]

SendOp ==
  [to : Person, shown : Person \cup {NoOne}, request : BOOLEAN,
   status : {"pool", "mined", "reverted", "dropped"}, wait : {"waiting", "receipt", "over"}]

SendTypes ==
  /\ names \in [Service -> [Name -> Person \cup {NoOne}]]
  /\ domainConfig \in SUBSET {"registry", "resolver"}
  /\ requestor \in Person \cup {NoOne}
  /\ disturbed \in BOOLEAN
  /\ page \in PageState
  /\ ops \in Seq(SendOp)

Calm == ~disturbed /\ "resolver" \notin domainConfig

\* A request fixes who is paid, and nothing is looked up for it.
RequestShown ==
  requestor # NoOne =>
    /\ page.looking = NoInput
    /\ page.shown \in {NoOne, requestor}
    /\ page.step \in {"confirm", "sending"} => page.shown = requestor

\* Otherwise what is shown is what the preview finds for what is in the field.
InputShown ==
  requestor = NoOne /\ Calm =>
    /\ page.looking # NoInput => page.looking = page.to
    /\ page.step \in {"confirm", "sending"} =>
         page.to \in Input /\ page.shown = ResolveDetailed(page.to, {})

PageInv ==
  /\ page.looking # NoInput => page.step = "form"
  /\ RequestShown
  /\ InputShown

\* What was sent, and what receipts were issued for.
SentInv ==
  /\ Calm => ShownIsPaid
  /\ \A o \in DOMAIN ops : ops[o].wait = "receipt" => ops[o].status = "mined"
  /\ \A r \in issued : /\ r.op \in DOMAIN ops
                       /\ ops[r.op].status = "mined" /\ ops[r.op].wait = "over"
  /\ \A r, s \in issued : r.op = s.op => r = s
  /\ \A o \in DOMAIN ops : ops[o].request => requestor # NoOne

SendInv == SendTypes /\ PageInv /\ SentInv

LEMMA SendInitially == SendInit => SendInv
<1>. SUFFICES ASSUME SendInit PROVE SendInv
  OBVIOUS
<1>1. page \in PageState /\ page.step = "form" /\ page.looking = NoInput /\ page.shown = NoOne
  BY DEF SendInit, Blank, PageState
<1>2. ops \in Seq(SendOp) /\ DOMAIN ops = {} /\ issued = {}
  BY DEF SendInit
<1>3. SendTypes
  BY <1>1, <1>2 DEF SendInit, SendTypes
<1>4. PageInv
  BY <1>1 DEF PageInv, RequestShown, InputShown
<1>5. SentInv
  BY <1>2 DEF SentInv, ShownIsPaid
<1>. QED
  BY <1>3, <1>4, <1>5 DEF SendInv

\* The first of two answers.
LEMMA FirstOfTwo ==
  ASSUME NEW a, NEW b
  PROVE  FirstOf(<<a, b>>) = IF a # NoOne THEN a ELSE b
<1>1. PICK answers : answers = <<a, b>>
  OBVIOUS
<1>2. DOMAIN answers = {1, 2} /\ answers[1] = a /\ answers[2] = b
  BY <1>1
<1>3. 1..(1 - 1) = {} /\ 1..(2 - 1) = {1}
  OBVIOUS
<1>4. CASE a # NoOne
  <2>1. \A i \in DOMAIN answers :
          answers[i] # NoOne /\ (\A j \in 1..(i - 1) : answers[j] = NoOne) <=> i = 1
    BY <1>2, <1>3, <1>4
  <2>2. (CHOOSE i \in DOMAIN answers :
           answers[i] # NoOne /\ \A j \in 1..(i - 1) : answers[j] = NoOne) = 1
    BY <1>2, <2>1
  <2>. QED
    BY <1>1, <1>2, <1>4, <2>2 DEF FirstOf
<1>5. CASE a = NoOne /\ b # NoOne
  <2>1. \A i \in DOMAIN answers :
          answers[i] # NoOne /\ (\A j \in 1..(i - 1) : answers[j] = NoOne) <=> i = 2
    BY <1>2, <1>3, <1>5
  <2>2. (CHOOSE i \in DOMAIN answers :
           answers[i] # NoOne /\ \A j \in 1..(i - 1) : answers[j] = NoOne) = 2
    BY <1>2, <2>1
  <2>. QED
    BY <1>1, <1>2, <1>5, <2>2 DEF FirstOf
<1>6. CASE a = NoOne /\ b = NoOne
  BY <1>1, <1>2, <1>6 DEF FirstOf
<1>. QED
  BY <1>4, <1>5, <1>6

LEMMA AskType ==
  ASSUME SendTypes, NEW s \in Service, NEW n \in Name, NEW failing
  PROVE  Ask(s, n, failing) \in Person \cup {NoOne}
BY DEF SendTypes, Ask

LEMMA AdapterChosen ==
  ASSUME SendTypes, Adapter # {}
  PROVE  (CHOOSE s \in Adapter : TRUE) \in Service
            /\ ("resolver" \notin domainConfig => (CHOOSE s \in Adapter : TRUE) = "registry"
                                                   /\ "registry" \in domainConfig)
<1>1. (CHOOSE s \in Adapter : TRUE) \in Adapter
  OBVIOUS
<1>2. Adapter \subseteq {"registry", "resolver"} /\ ("resolver" \notin domainConfig => Adapter = domainConfig)
  BY DEF Adapter, SendTypes
<1>. QED
  BY <1>1, <1>2 DEF Service

LEMMA DetailedType ==
  ASSUME SendTypes, NEW input \in Input, NEW failing
  PROVE  ResolveDetailed(input, failing) \in Person \cup {NoOne}
<1>1. CASE input \in {"address"} \X Person
  BY <1>1 DEF ResolveDetailed
<1>2. ASSUME NEW n \in Name, input = <<"domain", n>>
      PROVE  ResolveDetailed(input, failing) \in Person \cup {NoOne}
  <2>1. PICK a, b : /\ a = IF Adapter = {} THEN NoOne ELSE Ask(CHOOSE s \in Adapter : TRUE, n, failing)
                    /\ b = Ask("username", n, failing)
    OBVIOUS
  <2>2. ResolveDetailed(input, failing) = FirstOf(<<a, b>>)
    BY <1>2, <2>1 DEF ResolveDetailed
  <2>3. a \in Person \cup {NoOne} /\ b \in Person \cup {NoOne}
    BY <2>1, AskType, AdapterChosen DEF Service
  <2>. QED
    BY <2>2, <2>3, FirstOfTwo
<1>3. ASSUME NEW n \in Name, input = <<"bare", n>>
      PROVE  ResolveDetailed(input, failing) \in Person \cup {NoOne}
  BY <1>3, AskType DEF ResolveDetailed, Service
<1>. QED
  BY <1>1, <1>2, <1>3 DEF Input

LEMMA ResolveType ==
  ASSUME SendTypes, NEW input \in Input, NEW failing
  PROVE  Resolve(input, failing) \in Person \cup {NoOne}
<1>1. CASE input \in {"address"} \X Person
  BY <1>1 DEF Resolve
<1>2. ASSUME NEW n \in Name, input = <<"domain", n>>
      PROVE  Resolve(input, failing) \in Person \cup {NoOne}
  BY <1>2, AskType DEF Resolve, Service
<1>3. ASSUME NEW n \in Name, input = <<"bare", n>>
      PROVE  Resolve(input, failing) \in Person \cup {NoOne}
  BY <1>3, AskType DEF Resolve, Service
<1>. QED
  BY <1>1, <1>2, <1>3 DEF Input

\* Without a resolver the two resolutions agree wherever the payment's finds
\* anything.
LEMMA ResolutionsAgree ==
  ASSUME SendTypes, "resolver" \notin domainConfig, NEW input \in Input, Resolve(input, {}) # NoOne
  PROVE  ResolveDetailed(input, {}) = Resolve(input, {})
<1>1. CASE input \in {"address"} \X Person
  BY <1>1 DEF Resolve, ResolveDetailed
<1>2. ASSUME NEW n \in Name, input = <<"domain", n>>
      PROVE  ResolveDetailed(input, {}) = Resolve(input, {})
  <2>1. PICK a, b : /\ a = IF Adapter = {} THEN NoOne ELSE Ask(CHOOSE s \in Adapter : TRUE, n, {})
                    /\ b = Ask("username", n, {})
    OBVIOUS
  <2>2. ResolveDetailed(input, {}) = FirstOf(<<a, b>>)
    BY <1>2, <2>1 DEF ResolveDetailed
  <2>3. "registry" \in domainConfig /\ Resolve(input, {}) = Ask("registry", n, {})
    BY <1>2 DEF Resolve
  <2>4. Adapter # {}
    BY <2>3 DEF Adapter
  <2>5. a = Resolve(input, {})
    BY <2>1, <2>3, <2>4, AdapterChosen
  <2>. QED
    BY <2>2, <2>5, FirstOfTwo
<1>3. ASSUME NEW n \in Name, input = <<"bare", n>>
      PROVE  ResolveDetailed(input, {}) = Resolve(input, {})
  BY <1>3 DEF Resolve, ResolveDetailed
<1>. QED
  BY <1>1, <1>2, <1>3 DEF Input

\* What is found does not change while the names do not.
LEMMA ShownStays ==
  ASSUME UNCHANGED nameVars, NEW input, NEW failing
  PROVE  ResolveDetailed(input, failing)' = ResolveDetailed(input, failing)
BY DEF nameVars, ResolveDetailed, Ask, Adapter

\* A step of the page alone: nothing was sent.
LEMMA PageStep ==
  ASSUME SendInv, NEW g \in PageState, page' = g, disturbed' \in BOOLEAN, disturbed => disturbed',
         UNCHANGED <<nameVars, requestor, ops, issued>>,
         g.looking # NoInput => g.step = "form",
         requestor # NoOne =>
           /\ g.looking = NoInput
           /\ g.shown \in {NoOne, requestor}
           /\ g.step \in {"confirm", "sending"} => g.shown = requestor,
         requestor = NoOne /\ Calm' =>
           /\ g.looking # NoInput => g.looking = g.to
           /\ g.step \in {"confirm", "sending"} =>
                g.to \in Input /\ g.shown = ResolveDetailed(g.to, {})
  PROVE  SendInv'
<1>1. SendTypes'
  BY DEF SendInv, SendTypes, nameVars
<1>2. Calm' => Calm
  BY DEF Calm, nameVars, SendInv, SendTypes
<1>3. SentInv'
  BY <1>2 DEF SendInv, SentInv, ShownIsPaid
<1>4. (g.to \in Input /\ g.shown = ResolveDetailed(g.to, {}))
        => (page.to \in Input /\ page.shown = ResolveDetailed(page.to, {}))'
  BY DEF nameVars, ResolveDetailed, Ask, Adapter
<1>5. RequestShown' /\ InputShown'
  BY <1>4 DEF RequestShown, InputShown
<1>. QED
  BY <1>1, <1>3, <1>5 DEF SendInv, PageInv

LEMMA LoadRequestKeeps ==
  ASSUME SendInv, LoadRequest
  PROVE  SendInv'
<1>1. PICK g : g = [page EXCEPT !.shown = requestor, !.to = <<"address", requestor>>]
  OBVIOUS
<1>2. page \in PageState /\ requestor \in Person
  BY DEF SendInv, SendTypes, LoadRequest
<1>3. <<"address", requestor>> \in Input
  BY <1>2 DEF Input
<1>4. /\ g \in PageState /\ g.step = page.step /\ g.looking = page.looking
      /\ g.shown = requestor
  BY <1>1, <1>2, <1>3 DEF PageState
<1>5. page.looking = NoInput /\ requestor # NoOne
  BY DEF SendInv, PageInv, RequestShown, LoadRequest
<1>. QED
  BY <1>1, <1>4, <1>5, PageStep DEF LoadRequest, SendInv, SendTypes

LEMMA TypeKeeps ==
  ASSUME SendInv, NEW input \in Input, Type(input)
  PROVE  SendInv'
<1>1. PICK g : g = [page EXCEPT !.to = input]
  OBVIOUS
<1>2. page \in PageState /\ page.step = "form" /\ disturbed \in BOOLEAN
  BY DEF SendInv, SendTypes, Type
<1>4. /\ g \in PageState /\ g.step = "form" /\ g.looking = page.looking
      /\ g.shown = page.shown
  BY <1>1, <1>2 DEF PageState
<1>5. disturbed' \in BOOLEAN /\ (disturbed => disturbed') /\ (page.looking # NoInput => disturbed')
  BY <1>2 DEF Type
<1>6. requestor # NoOne => /\ g.looking = NoInput
                           /\ g.shown \in {NoOne, requestor}
  BY <1>4 DEF SendInv, PageInv, RequestShown
<1>7. Calm' => g.looking = NoInput
  BY <1>4, <1>5 DEF Calm
<1>. QED
  BY <1>1, <1>4, <1>5, <1>6, <1>7, PageStep DEF Type

LEMMA PreviewKeeps ==
  ASSUME SendInv, Preview
  PROVE  SendInv'
<1>1. page \in PageState /\ page.step = "form" /\ page.looking = NoInput /\ disturbed \in BOOLEAN
  BY DEF SendInv, SendTypes, Preview
<1>2. CASE requestor # NoOne
  <2>1. PICK g : g = [page EXCEPT !.step = "confirm"]
    OBVIOUS
  <2>2. /\ g \in PageState /\ g.step = "confirm" /\ g.looking = NoInput
        /\ g.shown = page.shown
    BY <1>1, <2>1 DEF PageState
  <2>3. g.shown = requestor
    BY <1>2, <2>2 DEF SendInv, PageInv, RequestShown, Preview
  <2>. QED
    BY <1>1, <1>2, <2>1, <2>2, <2>3, PageStep DEF Preview
<1>3. CASE requestor = NoOne
  <2>1. PICK g : g = [page EXCEPT !.looking = page.to]
    OBVIOUS
  <2>2. /\ g \in PageState /\ g.step = "form" /\ g.looking = g.to
    BY <1>1, <2>1 DEF PageState
  <2>. QED
    BY <1>1, <1>3, <2>1, <2>2, PageStep DEF Preview
<1>. QED
  BY <1>2, <1>3

\* Reads that fail disturb the page.
LEMMA FailingDisturbs ==
  ASSUME disturbed \in BOOLEAN, NEW failing, Failing(failing)
  PROVE  disturbed' \in BOOLEAN /\ (disturbed => disturbed') /\ (Calm' => failing = {})
BY DEF Failing, Calm

LEMMA PreviewAnswersKeeps ==
  ASSUME SendInv, PreviewAnswers
  PROVE  SendInv'
<1>1. /\ page \in PageState /\ page.step = "form" /\ page.looking # NoInput /\ disturbed \in BOOLEAN
      /\ requestor = NoOne /\ page.looking \in Input
  BY DEF SendInv, SendTypes, PreviewAnswers, PageInv, RequestShown, PageState
<1>2. PICK failing \in SUBSET Service :
        /\ Failing(failing)
        /\ LET found == ResolveDetailed(page.looking, failing) IN
           page' = IF found = NoOne THEN [page EXCEPT !.looking = NoInput]
                   ELSE [page EXCEPT !.looking = NoInput, !.step = "confirm", !.shown = found]
  BY DEF PreviewAnswers
<1>3. PICK found : found = ResolveDetailed(page.looking, failing)
  OBVIOUS
<1>4. found \in Person \cup {NoOne}
  BY <1>1, <1>3, DetailedType DEF SendInv
<1>5. disturbed' \in BOOLEAN /\ (disturbed => disturbed') /\ (Calm' => failing = {})
  BY <1>1, <1>2, FailingDisturbs
<1>6. CASE found = NoOne
  <2>1. PICK g : g = [page EXCEPT !.looking = NoInput]
    OBVIOUS
  <2>2. g \in PageState /\ g.step = "form" /\ g.looking = NoInput
    BY <1>1, <2>1 DEF PageState
  <2>3. page' = g
    BY <1>2, <1>3, <1>6, <2>1
  <2>. QED
    BY <1>1, <1>5, <2>2, <2>3, PageStep DEF PreviewAnswers
<1>7. CASE found # NoOne
  <2>1. PICK g : g = [page EXCEPT !.looking = NoInput, !.step = "confirm", !.shown = found]
    OBVIOUS
  <2>2. /\ g \in PageState /\ g.step = "confirm" /\ g.looking = NoInput /\ g.shown = found
        /\ g.to = page.to
    BY <1>1, <1>4, <2>1 DEF PageState
  <2>3. page' = g
    BY <1>2, <1>3, <1>7, <2>1
  <2>4. Calm' => Calm
    BY <1>1, <1>5 DEF Calm, PreviewAnswers, nameVars
  <2>5. Calm' => g.to \in Input /\ g.shown = ResolveDetailed(g.to, {})
    BY <1>1, <1>3, <1>5, <2>2, <2>4 DEF SendInv, PageInv, InputShown
  <2>. QED
    BY <1>1, <1>5, <2>2, <2>3, <2>5, PageStep DEF PreviewAnswers
<1>. QED
  BY <1>6, <1>7

\* A step that moves the page along, without a new input or address.
LEMMA MoveStep ==
  ASSUME SendInv, NEW g \in PageState, page' = g, UNCHANGED <<nameVars, requestor, ops, issued, disturbed>>,
         g.to = page.to, g.shown = page.shown, g.looking = page.looking,
         g.looking = NoInput \/ g.step = "form",
         g.step \in {"confirm", "sending"} => page.step \in {"confirm", "sending"}
  PROVE  SendInv'
<1>1. disturbed' \in BOOLEAN /\ (disturbed => disturbed') /\ (Calm' => Calm)
  BY DEF SendInv, SendTypes, Calm, nameVars
<1>2. requestor # NoOne =>
        /\ g.looking = NoInput
        /\ g.shown \in {NoOne, requestor}
        /\ g.step \in {"confirm", "sending"} => g.shown = requestor
  BY DEF SendInv, PageInv, RequestShown
<1>3. requestor = NoOne /\ Calm' =>
        /\ g.looking # NoInput => g.looking = g.to
        /\ g.step \in {"confirm", "sending"} =>
             g.to \in Input /\ g.shown = ResolveDetailed(g.to, {})
  BY <1>1 DEF SendInv, PageInv, InputShown
<1>. QED
  BY <1>1, <1>2, <1>3, PageStep

LEMMA BackToFormKeeps ==
  ASSUME SendInv, BackToForm
  PROVE  SendInv'
<1>1. PICK g : g = [page EXCEPT !.step = "form"]
  OBVIOUS
<1>2. page \in PageState
  BY DEF SendInv, SendTypes
<1>3. /\ g \in PageState /\ g.step = "form" /\ g.looking = page.looking
      /\ g.shown = page.shown /\ g.to = page.to
  BY <1>1, <1>2 DEF PageState
<1>. QED
  BY <1>1, <1>3, MoveStep DEF BackToForm

LEMMA ApproveKeeps ==
  ASSUME SendInv, Approve
  PROVE  SendInv'
<1>1. PICK g : g = [page EXCEPT !.step = "sending", !.result = 0]
  OBVIOUS
<1>2. page \in PageState /\ page.step = "confirm" /\ page.looking = NoInput
  BY DEF SendInv, SendTypes, Approve, PageInv
<1>3. /\ g \in PageState /\ g.looking = NoInput
      /\ g.shown = page.shown /\ g.to = page.to
  BY <1>1, <1>2 DEF PageState
<1>. QED
  BY <1>1, <1>2, <1>3, MoveStep DEF Approve

LEMMA SendAnotherKeeps ==
  ASSUME SendInv, SendAnother
  PROVE  SendInv'
<1>1. PICK g : g = [Blank EXCEPT !.shown = page.shown]
  OBVIOUS
<1>2. page.shown \in Person \cup {NoOne} /\ disturbed \in BOOLEAN
  BY DEF SendInv, SendTypes, PageState
<1>3. /\ g \in PageState /\ g.looking = NoInput /\ g.step = "form" /\ g.shown = page.shown
  BY <1>1, <1>2 DEF PageState, Blank
<1>4. requestor # NoOne => g.shown \in {NoOne, requestor}
  BY <1>3 DEF SendInv, PageInv, RequestShown
<1>. QED
  BY <1>1, <1>2, <1>3, <1>4, PageStep DEF SendAnother

LEMMA RenameKeeps ==
  ASSUME SendInv, Rename
  PROVE  SendInv'
<1>1. PICK s \in Service, n \in Name, p \in Person \cup {NoOne} :
        names' = [names EXCEPT ![s] = [@ EXCEPT ![n] = p]]
  BY DEF Rename
<1>2. PICK book : book = [names[s] EXCEPT ![n] = p]
  OBVIOUS
<1>3. book \in [Name -> Person \cup {NoOne}]
  BY <1>2 DEF SendInv, SendTypes
<1>4. names' = [names EXCEPT ![s] = book]
  BY <1>1, <1>2
<1>5. SendTypes'
  BY <1>3, <1>4 DEF SendInv, SendTypes, Rename
<1>6. ~Calm'
  BY DEF Calm, Rename
<1>7. PageInv'
  BY <1>6 DEF SendInv, PageInv, RequestShown, InputShown, Rename
<1>8. SentInv'
  BY <1>6 DEF SendInv, SentInv, Rename
<1>. QED
  BY <1>5, <1>7, <1>8 DEF SendInv

\* A new operation: to the address shown, unless something was disturbed.
LEMMA OpSent ==
  ASSUME SendInv, NEW to \in Person, ops' = Append(ops, NewOp(to)),
         UNCHANGED <<nameVars, requestor, issued>>, Calm' => Calm /\ to = page.shown
  PROVE  SentInv' /\ ops' \in Seq(SendOp)
<1>1. PICK op : op = NewOp(to)
  OBVIOUS
<1>2. /\ op \in SendOp /\ op.to = to /\ op.shown = page.shown /\ op.wait = "waiting"
      /\ (op.request => requestor # NoOne)
  BY <1>1 DEF SendInv, SendTypes, PageState, SendOp, NewOp
<1>3. ops \in Seq(SendOp)
  BY DEF SendInv, SendTypes
<1>4. /\ ops' \in Seq(SendOp) /\ DOMAIN ops' = DOMAIN ops \cup {Len(ops) + 1}
      /\ ops'[Len(ops) + 1] = op
      /\ \A o \in DOMAIN ops : ops'[o] = ops[o]
  BY <1>1, <1>2, <1>3
<1>5. Calm' => ShownIsPaid'
  BY <1>2, <1>4 DEF SendInv, SentInv, ShownIsPaid
<1>6. \A o \in DOMAIN ops' : ops'[o].wait = "receipt" => ops'[o].status = "mined"
  BY <1>2, <1>4 DEF SendInv, SentInv
<1>7. \A r \in issued' : /\ r.op \in DOMAIN ops'
                         /\ ops'[r.op].status = "mined" /\ ops'[r.op].wait = "over"
  BY <1>4 DEF SendInv, SentInv
<1>8. \A o \in DOMAIN ops' : ops'[o].request => requestor' # NoOne
  BY <1>2, <1>4 DEF SendInv, SentInv
<1>. QED
  BY <1>4, <1>5, <1>6, <1>7, <1>8 DEF SendInv, SentInv

LEMMA SubmitPaymentKeeps ==
  ASSUME SendInv, SubmitPayment
  PROVE  SendInv'
<1>1. PICK failing \in SUBSET Service :
        /\ Failing(failing)
        /\ LET to == IF requestor # NoOne THEN requestor
                     ELSE IF page.to = NoInput THEN NoOne ELSE Resolve(page.to, failing) IN
           \/ /\ to # NoOne
              /\ ops' = Append(ops, NewOp(to))
              /\ page' = IF requestor # NoOne THEN page ELSE [page EXCEPT !.step = "done"]
           \/ page' = [page EXCEPT !.step = "confirm"] /\ UNCHANGED ops
  BY DEF SubmitPayment
<1>2. PICK to : to = IF requestor # NoOne THEN requestor
                     ELSE IF page.to = NoInput THEN NoOne ELSE Resolve(page.to, failing)
  OBVIOUS
<1>3. /\ page \in PageState /\ page.step = "sending" /\ page.looking = NoInput /\ disturbed \in BOOLEAN
      /\ requestor \in Person \cup {NoOne}
  BY DEF SendInv, SendTypes, SubmitPayment, PageInv
<1>4. disturbed' \in BOOLEAN /\ (disturbed => disturbed') /\ (Calm' => failing = {})
  BY <1>1, <1>3, FailingDisturbs
<1>5. Calm' => Calm
  BY <1>3, <1>4 DEF Calm, SubmitPayment, nameVars
<1>6. UNCHANGED <<nameVars, requestor, issued>>
  BY DEF SubmitPayment
<1>7. CASE page' = [page EXCEPT !.step = "confirm"] /\ UNCHANGED ops
  <2>1. PICK g : g = [page EXCEPT !.step = "confirm"]
    OBVIOUS
  <2>2. /\ g \in PageState /\ g.looking = NoInput
        /\ g.shown = page.shown /\ g.to = page.to
    BY <1>3, <2>1 DEF PageState
  <2>3. requestor # NoOne => g.shown = requestor
    BY <1>3, <2>2 DEF SendInv, PageInv, RequestShown
  <2>4. requestor = NoOne /\ Calm' => g.to \in Input /\ g.shown = ResolveDetailed(g.to, {})
    BY <1>3, <1>5, <2>2 DEF SendInv, PageInv, InputShown
  <2>. QED
    BY <1>4, <1>6, <1>7, <2>1, <2>2, <2>3, <2>4, PageStep
<1>8. CASE /\ to # NoOne
           /\ ops' = Append(ops, NewOp(to))
           /\ page' = IF requestor # NoOne THEN page ELSE [page EXCEPT !.step = "done"]
  <2>1. requestor = NoOne => page.to \in Input /\ to = Resolve(page.to, failing)
    BY <1>2, <1>3, <1>8 DEF PageState
  <2>2. to \in Person
    BY <1>2, <1>3, <1>8, <2>1, ResolveType DEF SendInv
  <2>3. requestor # NoOne => to = page.shown
    BY <1>2, <1>3 DEF SendInv, PageInv, RequestShown
  <2>4. requestor = NoOne /\ Calm' => to = page.shown
    <3>1. SUFFICES ASSUME requestor = NoOne, Calm' PROVE to = page.shown
      OBVIOUS
    <3>2. page.shown = ResolveDetailed(page.to, {})
      BY <1>3, <1>5, <3>1 DEF SendInv, PageInv, InputShown
    <3>3. to = Resolve(page.to, {}) /\ page.to \in Input /\ Resolve(page.to, {}) # NoOne
      BY <1>4, <1>8, <2>1, <3>1
    <3>4. SendTypes /\ "resolver" \notin domainConfig
      BY <1>5, <3>1 DEF SendInv, Calm
    <3>5. ResolveDetailed(page.to, {}) = Resolve(page.to, {})
      BY <3>3, <3>4, ResolutionsAgree
    <3>. QED
      BY <3>2, <3>3, <3>5
  <2>5. SentInv' /\ ops' \in Seq(SendOp)
    BY <1>5, <1>6, <1>8, <2>2, <2>3, <2>4, OpSent
  <2>6. PICK g : g = IF requestor # NoOne THEN page ELSE [page EXCEPT !.step = "done"]
    OBVIOUS
  <2>7. /\ g \in PageState /\ g.looking = NoInput /\ g.shown = page.shown /\ g.to = page.to
        /\ (requestor = NoOne => g.step = "done")
    BY <1>3, <2>6 DEF PageState
  <2>8. page' = g
    BY <1>8, <2>6
  <2>9. SendTypes'
    BY <1>4, <1>6, <2>5, <2>7, <2>8 DEF SendInv, SendTypes, nameVars
  <2>10. requestor # NoOne => g.shown = requestor
    BY <2>3, <2>7, <1>2
  <2>11. PageInv'
    BY <1>6, <2>7, <2>8, <2>10 DEF PageInv, RequestShown, InputShown
  <2>. QED
    BY <2>5, <2>9, <2>11 DEF SendInv
<1>. QED
  BY <1>1, <1>2, <1>7, <1>8

\* An operation whose status or wait is changed.
LEMMA OpStep ==
  ASSUME SendInv, NEW o \in DOMAIN ops, NEW op \in SendOp, ops' = [ops EXCEPT ![o] = op],
         op.to = ops[o].to, op.shown = ops[o].shown, op.request = ops[o].request,
         op.wait = "receipt" => op.status = "mined",
         ops[o].status = "mined" /\ ops[o].wait = "over" => op.status = "mined" /\ op.wait = "over",
         issued' = issued \/ /\ op.status = "mined" /\ op.wait = "over" /\ ops[o].wait = "receipt"
                             /\ issued' = issued \cup {[op |-> o, payee |-> op.shown]},
         UNCHANGED <<nameVars, requestor, disturbed>>
  PROVE  SentInv' /\ ops' \in Seq(SendOp)
<1>1. ops \in Seq(SendOp)
  BY DEF SendInv, SendTypes
<1>2. /\ ops' \in Seq(SendOp) /\ DOMAIN ops' = DOMAIN ops /\ ops'[o] = op
      /\ \A x \in DOMAIN ops : x # o => ops'[x] = ops[x]
  BY <1>1
<1>3. Calm' => Calm
  BY DEF Calm, nameVars
<1>4. Calm' => ShownIsPaid'
  BY <1>2, <1>3 DEF SendInv, SentInv, ShownIsPaid
<1>5. \A x \in DOMAIN ops' : ops'[x].wait = "receipt" => ops'[x].status = "mined"
  BY <1>2 DEF SendInv, SentInv
<1>6. \A x \in DOMAIN ops' : ops'[x].request => requestor' # NoOne
  BY <1>2 DEF SendInv, SentInv
<1>7. \A r \in issued : /\ r.op \in DOMAIN ops'
                        /\ ops'[r.op].status = "mined" /\ ops'[r.op].wait = "over"
  BY <1>2 DEF SendInv, SentInv
<1>8. /\ \A r \in issued' : /\ r.op \in DOMAIN ops'
                            /\ ops'[r.op].status = "mined" /\ ops'[r.op].wait = "over"
      /\ \A r, s \in issued' : r.op = s.op => r = s
  <2>1. CASE issued' = issued
    BY <1>7, <2>1 DEF SendInv, SentInv
  <2>2. CASE /\ op.status = "mined" /\ op.wait = "over" /\ ops[o].wait = "receipt"
             /\ issued' = issued \cup {[op |-> o, payee |-> op.shown]}
    <3>1. PICK new : new = [op |-> o, payee |-> op.shown]
      OBVIOUS
    <3>2. new.op = o /\ issued' = issued \cup {new}
      BY <2>2, <3>1
    <3>3. \A r \in issued : r.op # o
      BY <2>2 DEF SendInv, SentInv
    <3>. QED
      BY <1>2, <1>7, <2>2, <3>2, <3>3 DEF SendInv, SentInv
  <2>. QED
    BY <2>1, <2>2
<1>. QED
  BY <1>2, <1>4, <1>5, <1>6, <1>8 DEF SentInv

LEMMA SettledKeeps ==
  ASSUME SendInv, NEW o \in DOMAIN ops, Settled(o)
  PROVE  SendInv'
<1>1. PICK status \in {"mined", "reverted", "dropped"} : ops' = [ops EXCEPT ![o].status = status]
  BY DEF Settled
<1>2. PICK op : op = [ops[o] EXCEPT !.status = status]
  OBVIOUS
<1>3. ops[o] \in SendOp /\ ops[o].status = "pool"
  BY DEF SendInv, SendTypes, Settled
<1>4. /\ op \in SendOp /\ op.to = ops[o].to /\ op.shown = ops[o].shown
      /\ op.request = ops[o].request /\ op.wait = ops[o].wait
  BY <1>2, <1>3 DEF SendOp
<1>5. op.wait # "receipt"
  BY <1>3, <1>4 DEF SendInv, SentInv
<1>6. ops' = [ops EXCEPT ![o] = op]
  BY <1>1, <1>2
<1>7. SentInv' /\ ops' \in Seq(SendOp)
  BY <1>3, <1>4, <1>5, <1>6, OpStep DEF Settled
<1>8. SendTypes' /\ PageInv'
  BY <1>7 DEF SendInv, SendTypes, PageInv, RequestShown, InputShown, Settled, nameVars,
     ResolveDetailed, Ask, Adapter, Calm
<1>. QED
  BY <1>7, <1>8 DEF SendInv

\* The page after a wait is as good as before it.
LEMMA AfterIsGood ==
  ASSUME SendInv, NEW o \in DOMAIN ops, NEW mined \in BOOLEAN, page' = After(o, mined),
         UNCHANGED <<nameVars, requestor, disturbed>>
  PROVE  page' \in PageState /\ PageInv'
<1>1. PICK g : g = After(o, mined)
  OBVIOUS
<1>2. page \in PageState /\ o \in Nat
  BY DEF SendInv, SendTypes
<1>3. /\ g \in PageState /\ g.to = page.to /\ g.shown = page.shown /\ g.looking = page.looking
      /\ (g.step = page.step \/ (g.step = "done" /\ ops[o].request))
  <2>1. CASE ops[o].request
    BY <1>1, <1>2, <2>1 DEF After, PageState
  <2>2. CASE ~ops[o].request /\ mined
    BY <1>1, <1>2, <2>2 DEF After, PageState
  <2>3. CASE ~ops[o].request /\ ~mined
    BY <1>1, <1>2, <2>3 DEF After
  <2>. QED
    BY <2>1, <2>2, <2>3
<1>4. g.step # page.step => g.looking = NoInput
  BY <1>3 DEF SendInv, SentInv, PageInv, RequestShown
<1>5. Calm' => Calm
  BY DEF Calm, nameVars
<1>6. ResolveDetailed(g.to, {})' = ResolveDetailed(g.to, {})
  BY ShownStays
<1>7. page' = g
  BY <1>1
<1>8. RequestShown'
  BY <1>3, <1>4, <1>7 DEF SendInv, PageInv, RequestShown
<1>9. InputShown'
  <2>1. SUFFICES ASSUME requestor = NoOne, Calm
        PROVE  /\ g.looking # NoInput => g.looking = g.to
               /\ g.step \in {"confirm", "sending"} =>
                    g.to \in Input /\ g.shown = ResolveDetailed(g.to, {})
    BY <1>5, <1>7 DEF InputShown, ResolveDetailed, Ask, Adapter, nameVars
  <2>. QED
    BY <1>3, <2>1 DEF SendInv, PageInv, InputShown
<1>. QED
  BY <1>3, <1>4, <1>7, <1>8, <1>9 DEF SendInv, PageInv

LEMMA WaitEndsKeeps ==
  ASSUME SendInv, NEW o \in DOMAIN ops, WaitEnds(o)
  PROVE  SendInv'
<1>1. PICK wait \in {"receipt", "over"}, mined \in BOOLEAN :
        /\ ops' = [ops EXCEPT ![o].wait = wait]
        /\ wait = "receipt" => ops[o].status = "mined"
        /\ page' = After(o, mined)
  BY DEF WaitEnds
<1>2. PICK op : op = [ops[o] EXCEPT !.wait = wait]
  OBVIOUS
<1>3. ops[o] \in SendOp /\ ops[o].wait = "waiting"
  BY DEF SendInv, SendTypes, WaitEnds
<1>4. /\ op \in SendOp /\ op.to = ops[o].to /\ op.shown = ops[o].shown
      /\ op.request = ops[o].request /\ op.status = ops[o].status /\ op.wait = wait
  BY <1>1, <1>2, <1>3 DEF SendOp
<1>5. ops' = [ops EXCEPT ![o] = op]
  BY <1>1, <1>2
<1>6. UNCHANGED <<nameVars, requestor, issued, disturbed>>
  BY DEF WaitEnds
<1>65. /\ (op.wait = "receipt" => op.status = "mined")
       /\ (ops[o].status = "mined" /\ ops[o].wait = "over" => op.status = "mined" /\ op.wait = "over")
  BY <1>1, <1>3, <1>4
<1>7. SentInv' /\ ops' \in Seq(SendOp)
  BY <1>3, <1>4, <1>5, <1>6, <1>65, OpStep
<1>8. page' \in PageState /\ PageInv'
  BY <1>1, <1>6, AfterIsGood
<1>. QED
  BY <1>6, <1>7, <1>8 DEF SendInv, SendTypes, nameVars

LEMMA ReceiptAnswersKeeps ==
  ASSUME SendInv, NEW o \in DOMAIN ops, ReceiptAnswers(o)
  PROVE  SendInv'
<1>1. PICK op : op = [ops[o] EXCEPT !.wait = "over"]
  OBVIOUS
<1>2. ops[o] \in SendOp /\ ops[o].wait = "receipt" /\ ops[o].status = "mined" /\ o \in Nat
  BY DEF SendInv, SendTypes, ReceiptAnswers, SentInv
<1>3. /\ op \in SendOp /\ op.to = ops[o].to /\ op.shown = ops[o].shown
      /\ op.request = ops[o].request /\ op.status = "mined" /\ op.wait = "over"
  BY <1>1, <1>2 DEF SendOp
<1>4. ops' = [ops EXCEPT ![o] = op]
  BY <1>1 DEF ReceiptAnswers
<1>5. UNCHANGED <<nameVars, requestor, disturbed>>
  BY DEF ReceiptAnswers
<1>6. issued' = issued \/ issued' = issued \cup {[op |-> o, payee |-> op.shown]}
  BY <1>3 DEF ReceiptAnswers
<1>65. /\ (op.wait = "receipt" => op.status = "mined")
       /\ (ops[o].status = "mined" /\ ops[o].wait = "over" => op.status = "mined" /\ op.wait = "over")
       /\ op.status = "mined" /\ op.wait = "over" /\ ops[o].wait = "receipt"
  BY <1>2, <1>3
<1>66. issued' = issued \/ /\ op.status = "mined" /\ op.wait = "over" /\ ops[o].wait = "receipt"
                           /\ issued' = issued \cup {[op |-> o, payee |-> op.shown]}
  BY <1>6, <1>65
<1>7. SentInv' /\ ops' \in Seq(SendOp)
  BY <1>2, <1>3, <1>4, <1>5, <1>65, <1>66, OpStep
<1>8. PICK g : page' = g /\ (g = page \/ g = [page EXCEPT !.receipt = o])
  BY DEF ReceiptAnswers
<1>9. page \in PageState
  BY DEF SendInv, SendTypes
<1>10. /\ g \in PageState /\ g.to = page.to /\ g.shown = page.shown /\ g.looking = page.looking
       /\ g.step = page.step
  BY <1>2, <1>8, <1>9 DEF PageState
<1>11. RequestShown'
  BY <1>5, <1>8, <1>10 DEF SendInv, PageInv, RequestShown
<1>12. InputShown'
  BY <1>5, <1>8, <1>10 DEF SendInv, PageInv, InputShown, ResolveDetailed, Ask, Adapter, nameVars, Calm
<1>13. PageInv'
  BY <1>5, <1>8, <1>10, <1>11, <1>12 DEF SendInv, PageInv
<1>. QED
  BY <1>5, <1>7, <1>8, <1>10, <1>13 DEF SendInv, SendTypes, nameVars

LEMMA SendStep == SendInv /\ [SendNext]_sendVars => SendInv'
<1>. SUFFICES ASSUME SendInv, [SendNext]_sendVars PROVE SendInv'
  OBVIOUS
<1>1. CASE UNCHANGED sendVars
  BY <1>1 DEF sendVars, nameVars, SendInv, SendTypes, PageInv, RequestShown, InputShown, Calm, SentInv,
     ShownIsPaid, ResolveDetailed, Ask, Adapter
<1>2. ASSUME NEW o \in DOMAIN ops, Settled(o) \/ WaitEnds(o) \/ ReceiptAnswers(o)
      PROVE  SendInv'
  BY <1>2, SettledKeeps, WaitEndsKeeps, ReceiptAnswersKeeps
<1>3. ASSUME NEW input \in Input, Type(input) PROVE SendInv'
  BY <1>3, TypeKeeps
<1>. QED
  BY <1>1, <1>2, <1>3, RenameKeeps, LoadRequestKeeps, PreviewKeeps, PreviewAnswersKeeps,
     BackToFormKeeps, ApproveKeeps, SubmitPaymentKeeps, SendAnotherKeeps DEF SendNext

(***************************************************************************)
(* The send page pays the address it showed, wherever no resolver          *)
(* overrides the registry and nothing changed under it, and a receipt is   *)
(* issued once and for a payment that was mined, over any number of        *)
(* payments, names and failing reads.                                      *)
(***************************************************************************)
THEOREM PageTellsTheTruth == SendSpec => []SendTellsTheTruth
<1>1. SendInv => SendTellsTheTruth
  BY DEF SendInv, SendTypes, SentInv, Calm, SendTellsTheTruth, ShownIsPaidUndisturbed, SendReceiptsBacked
<1>. QED
  BY <1>1, SendInitially, SendStep, PTL DEF SendSpec

-----------------------------------------------------------------------------
(***************************************************************************)
(* The account pages.  The flag of a page's component is up while a run    *)
(* that is still mounted makes the approval, which keeps a second run from *)
(* starting one; and without a race an approval is begun only when none    *)
(* was mined and none may still be.                                        *)
(***************************************************************************)
HookState == [open : BOOLEAN, needsQusdc : BOOLEAN, arming : BOOLEAN, armingRef : BOOLEAN]

TaskState ==
  [page : Page \cup {NoPage}, kind : Kinds \cup {"status", "none"},
   stage : {"read", "check", "build", "sign", "wait", "over"},
   live : BOOLEAN, mounted : BOOLEAN, approving : BOOLEAN,
   mode : {"none", "sponsored", "qusdc"}, nonce : Nat, op : Nat]

UserOp ==
  [kind : Kinds \cup {"arm", "approve", "none"}, mode : {"none", "sponsored", "qusdc"}, nonce : Nat,
   status : {"pool", "mined", "reverted", "dropped"}]

AccountTypes ==
  /\ acct \in [nonce : Nat, free : Nat, armed : BOOLEAN, batchable : BOOLEAN]
  /\ userOps \in Seq(UserOp)
  /\ hook \in [Page -> HookState]
  /\ task \in [1..MaxTasks -> TaskState]
  /\ armRaced \in BOOLEAN

MakesApproval(begun) == begun.kind = "status" /\ begun.stage \in {"check", "build", "sign", "wait"}

OwnTask(begun) == MakesApproval(begun) /\ begun.mounted

\* What the hook of each page holds, and the runs of the page.
ShownInv ==
  /\ \A t \in 1..MaxTasks : task[t].live => task[t].mounted
  /\ \A t \in 1..MaxTasks : task[t].mounted => task[t].page \in Page /\ hook[task[t].page].open
  /\ \A t \in 1..MaxTasks : OwnTask(task[t]) => hook[task[t].page].armingRef
  /\ \A t, u \in 1..MaxTasks : OwnTask(task[t]) /\ OwnTask(task[u]) /\ task[t].page = task[u].page => t = u
  /\ \A p \in Page : hook[p].arming /\ p \notin refreshed =>
       \E t \in 1..MaxTasks : OwnTask(task[t]) /\ task[t].page = p /\ task[t].live

\* Approvals that were mined or may still be, and runs that are to send one.
Arms == {o \in DOMAIN userOps : userOps[o].kind = "arm" /\ userOps[o].status \in {"pool", "mined"}}

Sends(begun) == begun.kind = "status" /\ begun.stage \in {"build", "sign"}

OnceInv ==
  /\ \A o \in DOMAIN userOps : userOps[o].kind = "arm" /\ userOps[o].status = "mined" => acct.armed
  /\ armRaced \/
       /\ \A o, q \in Arms : o = q
       /\ \A t, u \in 1..MaxTasks : Sends(task[t]) /\ Sends(task[u]) => t = u
       /\ \A t \in 1..MaxTasks : Sends(task[t]) => Arms = {}

AccountInv == AccountTypes /\ ShownInv /\ OnceInv

LEMMA RunsOver ==
  Over \in TaskState /\ ~OwnTask(Over) /\ ~Sends(Over) /\ ~Over.mounted /\ ~Over.live /\ ~MakesApproval(Over)
    /\ Over.page = NoPage
BY DEF Over, TaskState, OwnTask, MakesApproval, Sends

LEMMA AccountInitially == AccountInit => AccountInv
<1>. SUFFICES ASSUME AccountInit PROVE AccountInv
  OBVIOUS
<1>1. \A t \in 1..MaxTasks : task[t] = Over
  BY DEF AccountInit
<1>2. \A p \in Page : hook[p] = Closed /\ Closed \in HookState /\ ~Closed.arming
  BY DEF AccountInit, Closed, HookState
<1>3. userOps \in Seq(UserOp) /\ DOMAIN userOps = {}
  BY DEF AccountInit
<1>4. AccountTypes
  <2>1. hook \in [Page -> HookState] /\ task \in [1..MaxTasks -> TaskState]
    BY <1>1, <1>2, RunsOver DEF AccountInit
  <2>2. acct \in [nonce : Nat, free : Nat, armed : BOOLEAN, batchable : BOOLEAN] /\ armRaced \in BOOLEAN
    BY DEF AccountInit
  <2>. QED
    BY <1>3, <2>1, <2>2 DEF AccountTypes
<1>5. ShownInv
  BY <1>1, <1>2, RunsOver DEF ShownInv
<1>6. OnceInv
  BY <1>1, <1>3, RunsOver DEF OnceInv, Arms
<1>. QED
  BY <1>4, <1>5, <1>6 DEF AccountInv

\* The free places have a first.
LEMMA FirstFree ==
  ASSUME NEW T \in SUBSET Nat, T # {}
  PROVE  \E n \in T : \A m \in T : n <= m
<1>1. IsWellFoundedOn(OpToRel(<, Nat), Nat)
  BY NatLessThanWellFounded
<1>2. PICK n \in T : \A m \in T : ~ (<<m, n>> \in OpToRel(<, Nat))
  BY <1>1, WFMin
<1>3. ASSUME NEW m \in T PROVE n <= m
  <2>1. m \in Nat /\ n \in Nat
    OBVIOUS
  <2>2. m < n => <<m, n>> \in OpToRel(<, Nat)
    BY <2>1 DEF OpToRel
  <2>3. ~ (m < n)
    BY <1>2, <2>2
  <2>. QED
    BY <2>1, <2>3
<1>. QED
  BY <1>3

\* A run that is placed where none was.
PlacedAt(f, running, more, begun) ==
  f \in 1..MaxTasks /\ running[f] = Over /\ more = [running EXCEPT ![f] = begun]

LEMMA StartedTakesAPlace ==
  ASSUME NEW running, DOMAIN running = 1..MaxTasks, NEW p, NEW kind,
         \E t \in 1..MaxTasks : running[t] = Over
  PROVE  \E f : PlacedAt(f, running, Started(running, p, kind), NewTask(p, kind))
<1>1. PICK free : free = {t \in DOMAIN running : running[t] = Over}
  OBVIOUS
<1>2. free # {} /\ free \in SUBSET Nat
  BY <1>1
<1>3. PICK f : f = CHOOSE t \in free : \A u \in free : t <= u
  OBVIOUS
<1>4. f \in free
  BY <1>2, <1>3, FirstFree
<1>5. Started(running, p, kind) = [running EXCEPT ![f] = NewTask(p, kind)]
  BY <1>1, <1>3 DEF Started
<1>. QED
  BY <1>1, <1>4, <1>5 DEF PlacedAt

LEMMA RunBegins ==
  ASSUME NEW p \in Page, NEW kind \in Kinds \cup {"status"}
  PROVE  /\ NewTask(p, kind) \in TaskState
         /\ ~OwnTask(NewTask(p, kind)) /\ ~Sends(NewTask(p, kind)) /\ ~MakesApproval(NewTask(p, kind))
         /\ NewTask(p, kind).page = p /\ NewTask(p, kind).mounted /\ NewTask(p, kind).live
         /\ NewTask(p, kind).kind = kind
BY DEF NewTask, Over, TaskState, OwnTask, MakesApproval, Sends

\* A step that sends no operation, begins no approval and puts none in the way.
LEMMA ArmsStill ==
  ASSUME AccountInv, armRaced' = armRaced,
         \A t \in 1..MaxTasks : Sends(task[t])' => Sends(task[t]),
         Arms' \subseteq Arms,
         \A o \in DOMAIN userOps' : (userOps[o].kind = "arm" /\ userOps[o].status = "mined" => acct.armed)'
  PROVE  OnceInv'
BY DEF AccountInv, OnceInv

LEMMA ArmsUnchanged ==
  ASSUME AccountInv, UNCHANGED <<acct, userOps, armRaced>>,
         \A t \in 1..MaxTasks : Sends(task'[t]) => Sends(task[t])
  PROVE  OnceInv'
<1>1. Arms' = Arms
  BY DEF Arms
<1>2. \A t \in 1..MaxTasks : Sends(task[t])' => Sends(task[t])
  BY DEF Sends
<1>3. \A o \in DOMAIN userOps' : (userOps[o].kind = "arm" /\ userOps[o].status = "mined" => acct.armed)'
  BY DEF AccountInv, OnceInv
<1>. QED
  BY <1>1, <1>2, <1>3, ArmsStill
-----------------------------------------------------------------------------
(* The hook *)

\* A run that goes on, no other page and no other component.
LEMMA RunGoesOn ==
  ASSUME AccountInv, NEW t \in 1..MaxTasks, NEW begun \in TaskState,
         task' = [task EXCEPT ![t] = begun], UNCHANGED <<hook, refreshed>>,
         begun.page = task[t].page, begun.live = task[t].live, begun.mounted = task[t].mounted,
         OwnTask(begun) <=> OwnTask(task[t])
  PROVE  ShownInv'
<1>1. task'[t] = begun /\ \A u \in 1..MaxTasks : u # t => task'[u] = task[u]
  BY DEF AccountInv, AccountTypes
<1>2. \A u \in 1..MaxTasks : /\ task'[u].page = task[u].page /\ task'[u].live = task[u].live
                             /\ task'[u].mounted = task[u].mounted
                             /\ OwnTask(task'[u]) <=> OwnTask(task[u])
  BY <1>1
<1>3. \A u \in 1..MaxTasks : OwnTask(task[u])' <=> OwnTask(task'[u])
  BY DEF OwnTask, MakesApproval
<1>. QED
  BY <1>2, <1>3 DEF AccountInv, ShownInv

\* A run that ends: when it was making the approval its page is told.
LEMMA RunEnds ==
  ASSUME AccountInv, NEW t \in 1..MaxTasks, Ends(t), refreshed' = refreshed,
         (MakesApproval(task[t]) /\ ArmingEnds(t)) \/ (~MakesApproval(task[t]) /\ hook' = hook)
  PROVE  ShownInv' /\ task' \in [1..MaxTasks -> TaskState] /\ hook' \in [Page -> HookState]
<1>1. task' = [task EXCEPT ![t] = Over]
  BY DEF Ends
<1>2. /\ task'[t] = Over /\ \A u \in 1..MaxTasks : u # t => task'[u] = task[u]
      /\ task' \in [1..MaxTasks -> TaskState]
  BY <1>1, RunsOver DEF AccountInv, AccountTypes
<1>3. \A u \in 1..MaxTasks : OwnTask(task[u])' <=> OwnTask(task'[u])
  BY DEF OwnTask, MakesApproval
<1>4. CASE ~OwnTask(task[t]) /\ hook' = hook
  BY <1>2, <1>3, <1>4, RunsOver DEF AccountInv, AccountTypes, ShownInv
<1>5. CASE OwnTask(task[t]) /\ ArmingEnds(t)
  <2>1. PICK p : p = task[t].page
    OBVIOUS
  <2>2. p \in Page /\ task[t].mounted /\ task[t].live \in BOOLEAN
    BY <1>5, <2>1 DEF AccountInv, AccountTypes, ShownInv, OwnTask, TaskState
  <2>3. PICK h : h = [hook[p] EXCEPT !.armingRef = FALSE, !.arming = @ /\ ~task[t].live]
    OBVIOUS
  <2>4. hook[p] \in HookState /\ hook \in [Page -> HookState]
    BY <2>2 DEF AccountInv, AccountTypes
  <2>5. h \in HookState /\ h.open = hook[p].open /\ (h.arming => hook[p].arming /\ ~task[t].live)
    BY <2>2, <2>3, <2>4 DEF HookState
  <2>6. hook' = [hook EXCEPT ![p] = h]
    BY <1>5, <2>1, <2>2, <2>3, <2>4 DEF ArmingEnds
  <2>7. /\ hook'[p] = h /\ \A x \in Page : x # p => hook'[x] = hook[x]
        /\ hook' \in [Page -> HookState]
    BY <2>2, <2>4, <2>5, <2>6
  <2>8. \A u \in 1..MaxTasks : OwnTask(task'[u]) => task[u].page # p /\ task[u].page \in Page /\ u # t
    BY <1>2, <1>5, <2>1, RunsOver DEF AccountInv, ShownInv, OwnTask
  <2>9. \A u \in 1..MaxTasks : task'[u].mounted => u # t
    BY <1>2, RunsOver
  <2>10. ASSUME NEW x \in Page, hook'[x].arming, x \notin refreshed
         PROVE  \E u \in 1..MaxTasks : OwnTask(task'[u]) /\ task'[u].page = x /\ task'[u].live
    <3>1. hook[x].arming /\ (x = p => ~task[t].live)
      BY <2>5, <2>7, <2>10
    <3>2. PICK u \in 1..MaxTasks : OwnTask(task[u]) /\ task[u].page = x /\ task[u].live
      BY <2>10, <3>1 DEF AccountInv, ShownInv
    <3>3. u # t
      BY <2>1, <3>1, <3>2
    <3>. QED
      BY <1>2, <3>2, <3>3
  <2>. QED
    <3>1. \A u \in 1..MaxTasks : task'[u].live => task'[u].mounted
      BY <1>2, RunsOver DEF AccountInv, ShownInv
    <3>2. \A u \in 1..MaxTasks : task'[u].mounted => task'[u].page \in Page /\ hook'[task'[u].page].open
      BY <1>2, <2>5, <2>7, <2>9 DEF AccountInv, ShownInv
    <3>3. \A u \in 1..MaxTasks : OwnTask(task'[u]) => hook'[task'[u].page].armingRef
      BY <1>2, <2>7, <2>8 DEF AccountInv, ShownInv
    <3>4. \A u, v \in 1..MaxTasks :
            OwnTask(task'[u]) /\ OwnTask(task'[v]) /\ task'[u].page = task'[v].page => u = v
      BY <1>2, <2>8 DEF AccountInv, ShownInv
    <3>. QED
      BY <1>2, <1>3, <2>7, <2>10, <3>1, <3>2, <3>3, <3>4 DEF ShownInv
<1>6. CASE MakesApproval(task[t]) /\ ~OwnTask(task[t]) /\ ArmingEnds(t)
  <2>1. hook' = hook
    BY <1>6 DEF ArmingEnds, OwnTask
  <2>. QED
    BY <1>4, <1>6, <2>1, <1>2 DEF AccountInv, AccountTypes
<1>. QED
  BY <1>2, <1>4, <1>5, <1>6 DEF OwnTask, AccountInv, AccountTypes

LEMMA OpenPageKeeps ==
  ASSUME AccountInv, NEW p \in Page, OpenPage(p)
  PROVE  AccountInv'
<1>1. DOMAIN task = 1..MaxTasks /\ \E t \in 1..MaxTasks : task[t] = Over
  BY DEF AccountInv, AccountTypes, OpenPage, Room
<1>15. \E f : PlacedAt(f, task, Started(task, p, "status"), NewTask(p, "status"))
  BY <1>1, StartedTakesAPlace
<1>2. PICK f \in 1..MaxTasks : /\ task[f] = Over
                               /\ task' = [task EXCEPT ![f] = NewTask(p, "status")]
  BY <1>15 DEF OpenPage, PlacedAt
<1>3. PICK begun : begun = NewTask(p, "status")
  OBVIOUS
<1>4. /\ begun \in TaskState /\ ~OwnTask(begun) /\ ~Sends(begun) /\ begun.page = p /\ begun.mounted
  BY <1>3, RunBegins
<1>5. /\ task'[f] = begun /\ \A u \in 1..MaxTasks : u # f => task'[u] = task[u]
      /\ task' \in [1..MaxTasks -> TaskState]
  BY <1>2, <1>3, <1>4 DEF AccountInv, AccountTypes
<1>6. PICK h : h = [Closed EXCEPT !.open = TRUE]
  OBVIOUS
<1>7. h \in HookState /\ h.open /\ ~h.arming
  BY <1>6 DEF Closed, HookState
<1>8. /\ hook'[p] = h /\ \A x \in Page : x # p => hook'[x] = hook[x]
      /\ hook' \in [Page -> HookState]
  BY <1>6, <1>7 DEF AccountInv, AccountTypes, OpenPage
<1>9. \A u \in 1..MaxTasks : task[u].mounted => task[u].page # p
  BY DEF AccountInv, ShownInv, OpenPage
<1>10. \A u \in 1..MaxTasks : OwnTask(task'[u]) => u # f
  BY <1>4, <1>5
<1>11. \A u \in 1..MaxTasks : OwnTask(task[u]) => task[u].page # p
  BY <1>9 DEF OwnTask
<1>12. ShownInv'
  <2>1. \A u \in 1..MaxTasks : OwnTask(task[u])' <=> OwnTask(task'[u])
    BY DEF OwnTask, MakesApproval
  <2>2. \A u \in 1..MaxTasks : task'[u].live => task'[u].mounted
    BY <1>4, <1>5 DEF AccountInv, ShownInv
  <2>3. \A u \in 1..MaxTasks : task'[u].mounted => task'[u].page \in Page /\ hook'[task'[u].page].open
    BY <1>4, <1>5, <1>7, <1>8 DEF AccountInv, ShownInv
  <2>4. \A u \in 1..MaxTasks : OwnTask(task'[u]) => hook'[task'[u].page].armingRef
    BY <1>5, <1>8, <1>10, <1>11 DEF AccountInv, ShownInv, OwnTask
  <2>5. \A u, v \in 1..MaxTasks :
          OwnTask(task'[u]) /\ OwnTask(task'[v]) /\ task'[u].page = task'[v].page => u = v
    BY <1>5, <1>10 DEF AccountInv, ShownInv
  <2>6. ASSUME NEW x \in Page, hook'[x].arming, x \notin refreshed
        PROVE  \E u \in 1..MaxTasks : OwnTask(task'[u]) /\ task'[u].page = x /\ task'[u].live
    <3>1. hook[x].arming
      BY <1>7, <1>8, <2>6
    <3>2. PICK u \in 1..MaxTasks : OwnTask(task[u]) /\ task[u].page = x /\ task[u].live
      BY <2>6, <3>1 DEF AccountInv, ShownInv
    <3>3. u # f
      BY <1>2, <3>2, RunsOver
    <3>. QED
      BY <1>5, <3>2, <3>3
  <2>. QED
    BY <2>1, <2>2, <2>3, <2>4, <2>5, <2>6 DEF ShownInv, OpenPage
<1>13. OnceInv'
  <2>1. \A u \in 1..MaxTasks : Sends(task'[u]) => Sends(task[u])
    BY <1>4, <1>5
  <2>. QED
    BY <2>1, ArmsUnchanged DEF OpenPage
<1>. QED
  BY <1>5, <1>8, <1>12, <1>13 DEF AccountInv, AccountTypes, OpenPage

\* The runs of a page that is left or refreshed.
LEMMA RetiredRuns ==
  ASSUME AccountInv, NEW p \in Page, NEW gone \in BOOLEAN
  PROVE  /\ Retired(p, gone) \in [1..MaxTasks -> TaskState]
         /\ \A t \in 1..MaxTasks :
              /\ Retired(p, gone)[t].page = task[t].page
              /\ MakesApproval(Retired(p, gone)[t]) <=> MakesApproval(task[t])
              /\ Sends(Retired(p, gone)[t]) <=> Sends(task[t])
              /\ Retired(p, gone)[t].mounted <=> (task[t].mounted /\ ~(gone /\ task[t].page = p))
              /\ Retired(p, gone)[t].live => task[t].live
              /\ Retired(p, gone)[t].live /\ task[t].page = p => ~gone /\ task[t].kind # "status"
              /\ task[t].page # p => Retired(p, gone)[t] = task[t]
<1>1. PICK all : all = Retired(p, gone)
  OBVIOUS
<1>2. DOMAIN task = 1..MaxTasks
  BY DEF AccountInv, AccountTypes
<1>3. ASSUME NEW t \in 1..MaxTasks
      PROVE  /\ all[t] \in TaskState
             /\ all[t].page = task[t].page
             /\ MakesApproval(all[t]) <=> MakesApproval(task[t])
             /\ Sends(all[t]) <=> Sends(task[t])
             /\ all[t].mounted <=> (task[t].mounted /\ ~(gone /\ task[t].page = p))
             /\ all[t].live => task[t].live
             /\ all[t].live /\ task[t].page = p => ~gone /\ task[t].kind # "status"
             /\ task[t].page # p => all[t] = task[t]
  <2>1. task[t] \in TaskState
    BY DEF AccountInv, AccountTypes
  <2>2. CASE task[t].page # p
    <3>1. all[t] = task[t]
      BY <1>1, <1>2, <2>2 DEF Retired
    <3>. QED
      BY <2>1, <2>2, <3>1
  <2>3. CASE task[t].page = p
    <3>1. PICK m, l : /\ m = (task[t].mounted /\ ~gone)
                      /\ l = (task[t].live /\ task[t].kind # "status" /\ ~gone)
      OBVIOUS
    <3>2. all[t] = [task[t] EXCEPT !.mounted = m, !.live = l]
      BY <1>1, <1>2, <2>1, <2>3, <3>1 DEF Retired, TaskState
    <3>3. m \in BOOLEAN /\ l \in BOOLEAN
      BY <3>1
    <3>4. /\ all[t] \in TaskState /\ all[t].page = task[t].page /\ all[t].kind = task[t].kind
          /\ all[t].stage = task[t].stage /\ all[t].mounted = m /\ all[t].live = l
      BY <2>1, <3>2, <3>3 DEF TaskState
    <3>. QED
      BY <2>3, <3>1, <3>4 DEF MakesApproval, Sends
  <2>. QED
    BY <2>2, <2>3
<1>4. all \in [1..MaxTasks -> TaskState]
  BY <1>1, <1>2, <1>3 DEF Retired
<1>. QED
  BY <1>1, <1>3, <1>4

LEMMA LeavePageKeeps ==
  ASSUME AccountInv, NEW p \in Page, LeavePage(p)
  PROVE  AccountInv'
<1>1. PICK all : all = Retired(p, TRUE) /\ task' = all
  BY DEF LeavePage
<1>2. /\ all \in [1..MaxTasks -> TaskState]
      /\ \A t \in 1..MaxTasks :
           /\ all[t].page = task[t].page
           /\ MakesApproval(all[t]) <=> MakesApproval(task[t])
           /\ Sends(all[t]) <=> Sends(task[t])
           /\ all[t].mounted <=> (task[t].mounted /\ task[t].page # p)
           /\ task[t].page # p => all[t] = task[t]
  BY <1>1, RetiredRuns
<1>21. \A t \in 1..MaxTasks : all[t].live => all[t].mounted
  <2>1. \A t \in 1..MaxTasks : all[t].live => task[t].live /\ task[t].page # p
    BY <1>1, RetiredRuns
  <2>. QED
    BY <1>2, <2>1 DEF AccountInv, ShownInv
<1>3. Closed \in HookState /\ ~Closed.arming
  BY DEF Closed, HookState
<1>4. /\ hook'[p] = Closed /\ \A x \in Page : x # p => hook'[x] = hook[x]
      /\ hook' \in [Page -> HookState]
  BY <1>3 DEF AccountInv, AccountTypes, LeavePage
<1>5. ShownInv'
  <2>1. \A u \in 1..MaxTasks : OwnTask(task[u])' <=> OwnTask(all[u])
    BY <1>1 DEF OwnTask, MakesApproval
  <2>2. \A u \in 1..MaxTasks : OwnTask(all[u]) => OwnTask(task[u]) /\ task[u].page # p
    BY <1>2 DEF OwnTask
  <2>3. \A u \in 1..MaxTasks : all[u].mounted => all[u].page \in Page /\ hook'[all[u].page].open
    BY <1>2, <1>4 DEF AccountInv, ShownInv
  <2>4. \A u \in 1..MaxTasks : OwnTask(all[u]) => hook'[all[u].page].armingRef
    BY <1>2, <1>4, <2>2 DEF AccountInv, ShownInv, OwnTask
  <2>5. \A u, v \in 1..MaxTasks :
          OwnTask(all[u]) /\ OwnTask(all[v]) /\ all[u].page = all[v].page => u = v
    BY <1>2, <2>2 DEF AccountInv, ShownInv
  <2>6. ASSUME NEW x \in Page, hook'[x].arming, x \notin refreshed'
        PROVE  \E u \in 1..MaxTasks : OwnTask(all[u]) /\ all[u].page = x /\ all[u].live
    <3>1. hook[x].arming /\ x # p /\ x \notin refreshed
      BY <1>3, <1>4, <2>6 DEF LeavePage
    <3>2. PICK u \in 1..MaxTasks : OwnTask(task[u]) /\ task[u].page = x /\ task[u].live
      BY <3>1 DEF AccountInv, ShownInv
    <3>. QED
      BY <1>2, <3>1, <3>2
  <2>. QED
    BY <1>1, <1>21, <2>1, <2>3, <2>4, <2>5, <2>6 DEF ShownInv
<1>6. OnceInv'
  BY <1>1, <1>2, ArmsUnchanged DEF LeavePage
<1>. QED
  BY <1>1, <1>2, <1>4, <1>5, <1>6 DEF AccountInv, AccountTypes, LeavePage

LEMMA RefreshKeeps ==
  ASSUME AccountInv, NEW p \in Page, Refresh(p)
  PROVE  AccountInv'
<1>1. PICK all : all = Retired(p, FALSE)
  OBVIOUS
<1>2. /\ all \in [1..MaxTasks -> TaskState]
      /\ \A t \in 1..MaxTasks :
           /\ all[t].page = task[t].page
           /\ MakesApproval(all[t]) <=> MakesApproval(task[t])
           /\ Sends(all[t]) <=> Sends(task[t])
           /\ all[t].mounted <=> task[t].mounted
           /\ all[t].live => task[t].live
           /\ task[t].page # p => all[t] = task[t]
  BY <1>1, RetiredRuns
<1>3. \A t \in 1..MaxTasks : OwnTask(all[t]) <=> OwnTask(task[t])
  BY <1>2 DEF OwnTask
<1>4. \E t \in 1..MaxTasks : all[t] = Over
  <2>1. PICK t \in 1..MaxTasks : task[t] = Over
    BY DEF AccountInv, AccountTypes, Refresh, Room
  <2>2. task[t].page # p
    BY <2>1, RunsOver, AccountAssumption DEF AccountAssumption
  <2>. QED
    BY <1>2, <2>1, <2>2
<1>5. PICK f \in 1..MaxTasks : all[f] = Over /\ task' = [all EXCEPT ![f] = NewTask(p, "status")]
  <2>1. DOMAIN all = 1..MaxTasks
    BY <1>2
  <2>2. \E f : PlacedAt(f, all, Started(all, p, "status"), NewTask(p, "status"))
    BY <1>4, <2>1, StartedTakesAPlace
  <2>. QED
    BY <1>1, <2>2 DEF Refresh, PlacedAt
<1>6. PICK begun : begun = NewTask(p, "status")
  OBVIOUS
<1>7. /\ begun \in TaskState /\ ~OwnTask(begun) /\ ~Sends(begun) /\ begun.page = p /\ begun.mounted
  BY <1>6, RunBegins
<1>8. /\ task'[f] = begun /\ \A u \in 1..MaxTasks : u # f => task'[u] = all[u]
      /\ task' \in [1..MaxTasks -> TaskState]
  BY <1>2, <1>5, <1>6, <1>7
<1>9. hook' = hook /\ refreshed \subseteq refreshed' /\ (hook[p].armingRef => p \in refreshed')
  BY DEF Refresh
<1>10. \A u \in 1..MaxTasks : OwnTask(task'[u]) => OwnTask(task[u]) /\ task'[u].page = task[u].page
  BY <1>2, <1>3, <1>7, <1>8
<1>11. \A u \in 1..MaxTasks : OwnTask(task[u]) => task'[u] = all[u]
  BY <1>3, <1>5, <1>8, RunsOver
<1>12. ShownInv'
  <2>1. \A u \in 1..MaxTasks : OwnTask(task[u])' <=> OwnTask(task'[u])
    BY DEF OwnTask, MakesApproval
  <2>2. \A u \in 1..MaxTasks : task'[u].live => task'[u].mounted
    BY <1>2, <1>7, <1>8 DEF AccountInv, ShownInv
  <2>3. \A u \in 1..MaxTasks : task'[u].mounted => task'[u].page \in Page /\ hook'[task'[u].page].open
    <3>1. hook[p].open
      BY DEF Refresh
    <3>2. \A u \in 1..MaxTasks : all[u].mounted => all[u].page \in Page /\ hook[all[u].page].open
      BY <1>2 DEF AccountInv, ShownInv
    <3>3. ASSUME NEW u \in 1..MaxTasks, task'[u].mounted
          PROVE  task'[u].page \in Page /\ hook[task'[u].page].open
      <4>1. CASE u = f
        BY <1>7, <1>8, <3>1, <4>1
      <4>2. CASE u # f
        BY <1>8, <3>2, <3>3, <4>2
      <4>. QED
        BY <4>1, <4>2
    <3>. QED
      BY <1>9, <3>3
  <2>4. \A u \in 1..MaxTasks : OwnTask(task'[u]) => hook'[task'[u].page].armingRef
    BY <1>9, <1>10 DEF AccountInv, ShownInv
  <2>5. \A u, v \in 1..MaxTasks :
          OwnTask(task'[u]) /\ OwnTask(task'[v]) /\ task'[u].page = task'[v].page => u = v
    BY <1>10 DEF AccountInv, ShownInv
  <2>6. ASSUME NEW x \in Page, hook'[x].arming, x \notin refreshed'
        PROVE  \E u \in 1..MaxTasks : OwnTask(task'[u]) /\ task'[u].page = x /\ task'[u].live
    <3>1. hook[x].arming /\ x \notin refreshed
      BY <1>9, <2>6
    <3>2. PICK u \in 1..MaxTasks : OwnTask(task[u]) /\ task[u].page = x /\ task[u].live
      BY <3>1 DEF AccountInv, ShownInv
    <3>3. x # p
      BY <1>9, <2>6, <3>2 DEF AccountInv, ShownInv
    <3>4. task'[u] = task[u]
      BY <1>2, <1>11, <3>2, <3>3
    <3>. QED
      BY <3>2, <3>4
  <2>. QED
    BY <2>1, <2>2, <2>3, <2>4, <2>5, <2>6 DEF ShownInv
<1>13. OnceInv'
  <2>1. \A u \in 1..MaxTasks : Sends(task'[u]) => Sends(task[u])
    BY <1>2, <1>7, <1>8
  <2>. QED
    BY <2>1, ArmsUnchanged DEF Refresh
<1>. QED
  BY <1>8, <1>9, <1>12, <1>13 DEF AccountInv, AccountTypes, Refresh

\* A run that starts the approval: it is the last of its page's effect, and no
\* other of the page makes it.
LEMMA ReadStatusKeeps ==
  ASSUME AccountInv, NEW t \in 1..MaxTasks, ReadStatus(t)
  PROVE  AccountInv'
<1>1. PICK token \in BOOLEAN, payable \in BOOLEAN, ready \in BOOLEAN :
       LET p == task[t].page
           ui == Route(token, payable)
           armed == ready /\ acct.armed
           arms == ~armed /\ ui = "SPONSORED_ONBOARDING" /\ ~hook[p].armingRef IN
       IF task[t].live
       THEN /\ hook' = [hook EXCEPT ![p].needsQusdc = (ui = "NEEDS_QUSDC"),
                                    ![p].arming = @ \/ arms, ![p].armingRef = @ \/ arms]
            /\ IF arms THEN task' = [task EXCEPT ![t].stage = "check"] ELSE Ends(t)
       ELSE Ends(t) /\ UNCHANGED hook
  BY DEF ReadStatus
<1>2. PICK p, needs, arms :
        /\ p = task[t].page
        /\ needs = (Route(token, payable) = "NEEDS_QUSDC")
        /\ arms = (~(ready /\ acct.armed) /\ Route(token, payable) = "SPONSORED_ONBOARDING"
                   /\ ~hook[p].armingRef)
  OBVIOUS
<1>3. /\ task[t] \in TaskState /\ task[t].kind = "status" /\ task[t].stage = "read"
      /\ ~MakesApproval(task[t]) /\ ~OwnTask(task[t]) /\ ~Sends(task[t])
  BY DEF AccountInv, AccountTypes, ReadStatus, MakesApproval, OwnTask, Sends
<1>4. UNCHANGED <<acct, userOps, refreshed, armRaced>>
  BY DEF ReadStatus
<1>5. CASE ~task[t].live
  <2>1. Ends(t) /\ UNCHANGED hook
    BY <1>1, <1>5
  <2>2. ShownInv' /\ task' \in [1..MaxTasks -> TaskState]
    BY <1>3, <1>4, <2>1, RunEnds
  <2>3. \A u \in 1..MaxTasks : Sends(task'[u]) => Sends(task[u])
    BY <2>1, RunsOver DEF Ends, AccountInv, AccountTypes
  <2>4. OnceInv'
    BY <1>4, <2>3, ArmsUnchanged
  <2>. QED
    BY <1>4, <2>1, <2>2, <2>4 DEF AccountInv, AccountTypes
<1>6. CASE task[t].live
  <2>1. p \in Page /\ task[t].mounted /\ hook[p] \in HookState /\ hook[p].open
    BY <1>2, <1>6 DEF AccountInv, AccountTypes, ShownInv
  <2>2. needs \in BOOLEAN /\ arms \in BOOLEAN /\ (arms => ~hook[p].armingRef)
    BY <1>2
  <2>3. hook' = [hook EXCEPT ![p].needsQusdc = needs, ![p].arming = @ \/ arms, ![p].armingRef = @ \/ arms]
    BY <1>1, <1>2, <1>6
  <2>4. PICK h : h = [hook[p] EXCEPT !.needsQusdc = needs, !.arming = @ \/ arms, !.armingRef = @ \/ arms]
    OBVIOUS
  <2>5. hook' = [hook EXCEPT ![p] = h]
    BY <2>1, <2>3, <2>4 DEF AccountInv, AccountTypes, HookState
  <2>6. h \in HookState /\ h.open /\ h.arming = (hook[p].arming \/ arms)
          /\ h.armingRef = (hook[p].armingRef \/ arms)
    BY <2>1, <2>2, <2>4 DEF HookState
  <2>7. /\ hook'[p] = h /\ \A x \in Page : x # p => hook'[x] = hook[x]
        /\ hook' \in [Page -> HookState]
    BY <2>1, <2>5, <2>6 DEF AccountInv, AccountTypes
  <2>8. \A u \in 1..MaxTasks : OwnTask(task[u])' <=> OwnTask(task'[u])
    BY DEF OwnTask, MakesApproval
  <2>9. \A u \in 1..MaxTasks : task[u].mounted => hook'[task[u].page].open
    BY <2>6, <2>7 DEF AccountInv, ShownInv
  <2>10. CASE arms
    <3>1. PICK begun : begun = [task[t] EXCEPT !.stage = "check"]
      OBVIOUS
    <3>2. /\ begun \in TaskState /\ begun.page = p /\ begun.live /\ begun.mounted
          /\ begun.kind = "status" /\ begun.stage = "check"
      BY <1>2, <1>3, <1>6, <2>1, <3>1 DEF TaskState
    <3>3. OwnTask(begun) /\ ~Sends(begun)
      BY <2>1, <3>2 DEF OwnTask, MakesApproval, Sends
    <3>4. task' = [task EXCEPT ![t] = begun]
      BY <1>1, <1>2, <1>6, <2>10, <3>1
    <3>5. /\ task'[t] = begun /\ \A u \in 1..MaxTasks : u # t => task'[u] = task[u]
          /\ task' \in [1..MaxTasks -> TaskState]
      BY <3>2, <3>4 DEF AccountInv, AccountTypes
    <3>6. \A u \in 1..MaxTasks : OwnTask(task[u]) => task[u].page # p
      BY <2>2, <2>10 DEF AccountInv, ShownInv
    <3>7. ShownInv'
      <4>2. \A u \in 1..MaxTasks : task'[u].live => task'[u].mounted
        BY <3>2, <3>5, <2>1 DEF AccountInv, ShownInv
      <4>3. \A u \in 1..MaxTasks : task'[u].mounted => task'[u].page \in Page /\ hook'[task'[u].page].open
        BY <2>1, <2>6, <2>7, <2>9, <3>2, <3>5 DEF AccountInv, ShownInv
      <4>4. \A u \in 1..MaxTasks : OwnTask(task'[u]) => hook'[task'[u].page].armingRef
        <5>1. ASSUME NEW u \in 1..MaxTasks, OwnTask(task'[u]), u # t
              PROVE  hook'[task'[u].page].armingRef
          <6>1. OwnTask(task[u]) /\ task'[u] = task[u]
            BY <3>5, <5>1
          <6>2. task[u].page \in Page /\ task[u].page # p /\ hook[task[u].page].armingRef
            BY <3>6, <6>1 DEF AccountInv, ShownInv, OwnTask
          <6>. QED
            BY <2>7, <6>1, <6>2
        <5>. QED
          BY <2>6, <2>7, <2>10, <3>2, <3>5, <5>1
      <4>5. \A u, v \in 1..MaxTasks :
              OwnTask(task'[u]) /\ OwnTask(task'[v]) /\ task'[u].page = task'[v].page => u = v
        BY <3>2, <3>5, <3>6 DEF AccountInv, ShownInv
      <4>6. ASSUME NEW x \in Page, hook'[x].arming, x \notin refreshed
            PROVE  \E u \in 1..MaxTasks : OwnTask(task'[u]) /\ task'[u].page = x /\ task'[u].live
        <5>1. CASE x = p
          BY <3>2, <3>3, <3>5, <5>1
        <5>2. CASE x # p
          <6>1. PICK u \in 1..MaxTasks : OwnTask(task[u]) /\ task[u].page = x /\ task[u].live
            BY <2>7, <4>6, <5>2 DEF AccountInv, ShownInv
          <6>. QED
            BY <1>2, <3>5, <5>2, <6>1
        <5>. QED
          BY <5>1, <5>2
      <4>. QED
        BY <1>4, <2>8, <4>2, <4>3, <4>4, <4>5, <4>6 DEF ShownInv
    <3>8. OnceInv'
      <4>1. \A u \in 1..MaxTasks : Sends(task'[u]) => Sends(task[u])
        BY <3>3, <3>5
      <4>. QED
        BY <1>4, <4>1, ArmsUnchanged
    <3>. QED
      BY <1>4, <2>7, <3>5, <3>7, <3>8 DEF AccountInv, AccountTypes
  <2>11. CASE ~arms
    <3>1. task' = [task EXCEPT ![t] = Over]
      BY <1>1, <1>2, <1>6, <2>11 DEF Ends
    <3>2. /\ task'[t] = Over /\ \A u \in 1..MaxTasks : u # t => task'[u] = task[u]
          /\ task' \in [1..MaxTasks -> TaskState]
      BY <3>1, RunsOver DEF AccountInv, AccountTypes
    <3>3. \A x \in Page : hook'[x].armingRef = hook[x].armingRef /\ hook'[x].arming = hook[x].arming
      BY <2>1, <2>6, <2>7, <2>11 DEF HookState
    <3>4. ShownInv'
      <4>1. \A u \in 1..MaxTasks : OwnTask(task'[u]) => task'[u] = task[u]
        BY <3>2, RunsOver
      <4>2. \A u \in 1..MaxTasks : task'[u].live => task'[u].mounted
        BY <3>2, RunsOver DEF AccountInv, ShownInv
      <4>3. \A u \in 1..MaxTasks : task'[u].mounted => task'[u].page \in Page /\ hook'[task'[u].page].open
        BY <2>9, <3>2, RunsOver DEF AccountInv, ShownInv
      <4>4. \A u \in 1..MaxTasks : OwnTask(task'[u]) => hook'[task'[u].page].armingRef
        BY <3>3, <4>1 DEF AccountInv, ShownInv, OwnTask
      <4>5. \A u, v \in 1..MaxTasks :
              OwnTask(task'[u]) /\ OwnTask(task'[v]) /\ task'[u].page = task'[v].page => u = v
        BY <4>1 DEF AccountInv, ShownInv
      <4>6. ASSUME NEW x \in Page, hook'[x].arming, x \notin refreshed
            PROVE  \E u \in 1..MaxTasks : OwnTask(task'[u]) /\ task'[u].page = x /\ task'[u].live
        <5>1. PICK u \in 1..MaxTasks : OwnTask(task[u]) /\ task[u].page = x /\ task[u].live
          BY <3>3, <4>6 DEF AccountInv, ShownInv
        <5>2. u # t
          BY <1>3, <5>1
        <5>. QED
          BY <3>2, <5>1, <5>2
      <4>. QED
        BY <1>4, <2>8, <4>2, <4>3, <4>4, <4>5, <4>6 DEF ShownInv
    <3>5. OnceInv'
      <4>1. \A u \in 1..MaxTasks : Sends(task'[u]) => Sends(task[u])
        BY <3>2, RunsOver
      <4>. QED
        BY <1>4, <4>1, ArmsUnchanged
    <3>. QED
      BY <1>4, <2>7, <3>2, <3>4, <3>5 DEF AccountInv, AccountTypes
  <2>. QED
    BY <2>2, <2>10, <2>11
<1>. QED
  BY <1>5, <1>6

\* A run that ends and sends nothing.
LEMMA EndKeeps ==
  ASSUME AccountInv, NEW t \in 1..MaxTasks, Ends(t), UNCHANGED <<acct, userOps, refreshed, armRaced>>,
         (MakesApproval(task[t]) /\ ArmingEnds(t)) \/ (~MakesApproval(task[t]) /\ hook' = hook)
  PROVE  AccountInv'
<1>1. ShownInv' /\ task' \in [1..MaxTasks -> TaskState] /\ hook' \in [Page -> HookState]
  BY RunEnds
<1>2. \A u \in 1..MaxTasks : Sends(task'[u]) => Sends(task[u])
  BY RunsOver DEF Ends, AccountInv, AccountTypes
<1>3. OnceInv'
  BY <1>2, ArmsUnchanged
<1>. QED
  BY <1>1, <1>3 DEF AccountInv, AccountTypes

\* A run that goes on.
LEMMA GoKeeps ==
  ASSUME AccountInv, NEW t \in 1..MaxTasks, NEW begun \in TaskState,
         task' = [task EXCEPT ![t] = begun],
         UNCHANGED <<acct, userOps, hook, refreshed, armRaced>>,
         begun.page = task[t].page, begun.live = task[t].live, begun.mounted = task[t].mounted,
         MakesApproval(begun) <=> MakesApproval(task[t]),
         Sends(begun) => Sends(task[t])
  PROVE  AccountInv'
<1>1. OwnTask(begun) <=> OwnTask(task[t])
  BY DEF OwnTask
<1>2. ShownInv'
  BY <1>1, RunGoesOn
<1>3. \A u \in 1..MaxTasks : Sends(task'[u]) => Sends(task[u])
  BY DEF AccountInv, AccountTypes
<1>4. OnceInv'
  BY <1>3, ArmsUnchanged
<1>5. task' \in [1..MaxTasks -> TaskState]
  BY DEF AccountInv, AccountTypes
<1>. QED
  BY <1>2, <1>4, <1>5 DEF AccountInv, AccountTypes

\* An approval is begun: without a race none is made, none may still be mined
\* and none was.
LEMMA ArmCheckKeeps ==
  ASSUME AccountInv, NEW t \in 1..MaxTasks, ArmCheck(t)
  PROVE  AccountInv'
<1>1. /\ task[t] \in TaskState /\ task[t].kind = "status" /\ task[t].stage = "check"
      /\ MakesApproval(task[t])
  BY DEF AccountInv, AccountTypes, ArmCheck, MakesApproval
<1>2. UNCHANGED <<acct, userOps, refreshed>>
  BY DEF ArmCheck
<1>3. CASE Ends(t) /\ ArmingEnds(t) /\ UNCHANGED armRaced
  BY <1>1, <1>2, <1>3, EndKeeps
<1>4. CASE /\ ~acct.armed
           /\ task' = [task EXCEPT ![t].stage = "build", ![t].approving = TRUE, ![t].mode = "sponsored"]
           /\ armRaced' = (armRaced \/ PendingApprovals # {} \/ Approving # {t})
           /\ UNCHANGED hook
  <2>1. PICK begun : begun = [task[t] EXCEPT !.stage = "build", !.approving = TRUE, !.mode = "sponsored"]
    OBVIOUS
  <2>2. /\ begun \in TaskState /\ begun.kind = "status" /\ begun.stage = "build" /\ begun.page = task[t].page
        /\ begun.live = task[t].live /\ begun.mounted = task[t].mounted
    BY <1>1, <2>1 DEF TaskState
  <2>3. task' = [task EXCEPT ![t] = begun]
    BY <1>4, <2>1 DEF AccountInv, AccountTypes
  <2>4. MakesApproval(begun) /\ (OwnTask(begun) <=> OwnTask(task[t]))
    BY <1>1, <2>2 DEF MakesApproval, OwnTask
  <2>5. ShownInv'
    BY <1>2, <1>4, <2>2, <2>3, <2>4, RunGoesOn
  <2>6. /\ task'[t] = begun /\ \A u \in 1..MaxTasks : u # t => task'[u] = task[u]
        /\ task' \in [1..MaxTasks -> TaskState]
    BY <2>2, <2>3 DEF AccountInv, AccountTypes
  <2>7. Arms' = Arms
    BY <1>2 DEF Arms
  <2>8. ~armRaced' => Arms = {} /\ \A u \in 1..MaxTasks : Sends(task[u]) => u = t
    <3>1. SUFFICES ASSUME ~armRaced' PROVE Arms = {} /\ \A u \in 1..MaxTasks : Sends(task[u]) => u = t
      OBVIOUS
    <3>2. PendingApprovals = {} /\ Approving = {t}
      BY <1>4, <3>1
    <3>3. \A o \in DOMAIN userOps : ~(userOps[o].kind = "arm" /\ userOps[o].status = "mined")
      BY <1>4 DEF AccountInv, OnceInv
    <3>4. \A o \in DOMAIN userOps : ~(userOps[o].kind = "arm" /\ userOps[o].status = "pool")
      BY <3>2 DEF PendingApprovals
    <3>5. \A u \in 1..MaxTasks : Sends(task[u]) => u \in Approving
      BY DEF Sends, Approving, AccountInv, AccountTypes
    <3>. QED
      BY <3>2, <3>3, <3>4, <3>5 DEF Arms
  <2>9. OnceInv'
    <3>1. \A o \in DOMAIN userOps' : (userOps[o].kind = "arm" /\ userOps[o].status = "mined" => acct.armed)'
      BY <1>2 DEF AccountInv, OnceInv
    <3>2. \A u \in 1..MaxTasks : Sends(task[u])' <=> Sends(task'[u])
      BY DEF Sends
    <3>3. ~armRaced' => \A u, v \in 1..MaxTasks : Sends(task'[u]) /\ Sends(task'[v]) => u = v
      BY <2>6, <2>8
    <3>. QED
      BY <2>7, <2>8, <3>1, <3>2, <3>3 DEF OnceInv
  <2>. QED
    <3>1. armRaced' \in BOOLEAN
      BY <1>4
    <3>. QED
      BY <1>2, <1>4, <2>5, <2>6, <2>9, <3>1 DEF AccountInv, AccountTypes
<1>. QED
  BY <1>3, <1>4 DEF ArmCheck
-----------------------------------------------------------------------------
(* The handlers and their operations *)

LEMMA PressKeeps ==
  ASSUME AccountInv, NEW p \in Page, NEW kind \in Kinds, Press(p, kind)
  PROVE  AccountInv'
<1>1. DOMAIN task = 1..MaxTasks /\ \E t \in 1..MaxTasks : task[t] = Over
  BY DEF AccountInv, AccountTypes, Press, Room
<1>2. \E f : PlacedAt(f, task, Started(task, p, kind), NewTask(p, kind))
  BY <1>1, StartedTakesAPlace
<1>3. PICK f \in 1..MaxTasks : task[f] = Over /\ task' = [task EXCEPT ![f] = NewTask(p, kind)]
  BY <1>2 DEF Press, PlacedAt
<1>4. PICK begun : begun = NewTask(p, kind)
  OBVIOUS
<1>5. begun \in TaskState /\ ~OwnTask(begun) /\ ~Sends(begun) /\ begun.page = p /\ begun.mounted
  BY <1>4, RunBegins
<1>6. /\ task'[f] = begun /\ \A u \in 1..MaxTasks : u # f => task'[u] = task[u]
      /\ task' \in [1..MaxTasks -> TaskState]
  BY <1>3, <1>4, <1>5 DEF AccountInv, AccountTypes
<1>7. UNCHANGED <<acct, userOps, hook, refreshed, armRaced>> /\ hook[p].open
  BY DEF Press, Pressable
<1>8. ShownInv'
  <2>1. \A u \in 1..MaxTasks : OwnTask(task[u])' <=> OwnTask(task'[u])
    BY DEF OwnTask, MakesApproval
  <2>2. \A u \in 1..MaxTasks : OwnTask(task'[u]) => task'[u] = task[u]
    BY <1>5, <1>6
  <2>3. \A u \in 1..MaxTasks : task'[u].live => task'[u].mounted
    BY <1>5, <1>6 DEF AccountInv, ShownInv
  <2>4. \A u \in 1..MaxTasks : task'[u].mounted => task'[u].page \in Page /\ hook[task'[u].page].open
    BY <1>5, <1>6, <1>7 DEF AccountInv, ShownInv
  <2>5. ASSUME NEW x \in Page, hook[x].arming, x \notin refreshed
        PROVE  \E u \in 1..MaxTasks : OwnTask(task'[u]) /\ task'[u].page = x /\ task'[u].live
    <3>1. PICK u \in 1..MaxTasks : OwnTask(task[u]) /\ task[u].page = x /\ task[u].live
      BY <2>5 DEF AccountInv, ShownInv
    <3>2. u # f
      BY <1>3, <3>1, RunsOver
    <3>. QED
      BY <1>6, <3>1, <3>2
  <2>6. \A u \in 1..MaxTasks : OwnTask(task'[u]) => hook[task'[u].page].armingRef
    BY <2>2 DEF AccountInv, ShownInv
  <2>7. \A u, v \in 1..MaxTasks :
          OwnTask(task'[u]) /\ OwnTask(task'[v]) /\ task'[u].page = task'[v].page => u = v
    BY <2>2 DEF AccountInv, ShownInv
  <2>. QED
    BY <1>7, <2>1, <2>3, <2>4, <2>5, <2>6, <2>7 DEF ShownInv
<1>9. OnceInv'
  <2>1. \A u \in 1..MaxTasks : Sends(task'[u]) => Sends(task[u])
    BY <1>5, <1>6
  <2>. QED
    BY <1>7, <2>1, ArmsUnchanged
<1>. QED
  BY <1>6, <1>7, <1>8, <1>9 DEF AccountInv, AccountTypes

LEMMA TakeRouteKeeps ==
  ASSUME AccountInv, NEW t \in 1..MaxTasks, TakeRoute(t)
  PROVE  AccountInv'
<1>1. /\ task[t] \in TaskState /\ task[t].kind # "status" /\ ~MakesApproval(task[t])
      /\ acct.batchable \in BOOLEAN
  BY DEF AccountInv, AccountTypes, TakeRoute, MakesApproval
<1>2. UNCHANGED <<acct, userOps, hook, refreshed, armRaced>>
  BY DEF TakeRoute
<1>3. CASE Ends(t)
  BY <1>1, <1>2, <1>3, EndKeeps
<1>4. ASSUME NEW approving \in BOOLEAN, NEW mode \in {"sponsored", "qusdc"},
             task' = [task EXCEPT ![t].stage = "build", ![t].approving = approving, ![t].mode = mode]
      PROVE  AccountInv'
  <2>1. PICK begun : begun = [task[t] EXCEPT !.stage = "build", !.approving = approving, !.mode = mode]
    OBVIOUS
  <2>2. /\ begun \in TaskState /\ begun.kind = task[t].kind /\ begun.page = task[t].page
        /\ begun.live = task[t].live /\ begun.mounted = task[t].mounted
    BY <1>1, <2>1 DEF TaskState
  <2>3. ~MakesApproval(begun) /\ ~Sends(begun)
    BY <1>1, <2>2 DEF MakesApproval, Sends
  <2>4. task' = [task EXCEPT ![t] = begun]
    BY <1>4, <2>1 DEF AccountInv, AccountTypes
  <2>. QED
    BY <1>1, <1>2, <2>2, <2>3, <2>4, GoKeeps
<1>5. PICK ui :
       IF task[t].kind = "withdraw" /\ ui = "NEEDS_QUSDC" THEN Ends(t)
       ELSE task' = [task EXCEPT
         ![t].stage = "build",
         ![t].approving = task[t].kind = "bulk" /\ ~acct.batchable,
         ![t].mode = IF task[t].kind \in {"request", "cancel"} THEN "qusdc" ELSE ModeOf(ui)]
  BY DEF TakeRoute
<1>6. PICK approving, mode :
        /\ approving = (task[t].kind = "bulk" /\ ~acct.batchable)
        /\ mode = IF task[t].kind \in {"request", "cancel"} THEN "qusdc" ELSE ModeOf(ui)
  OBVIOUS
<1>7. approving \in BOOLEAN /\ mode \in {"sponsored", "qusdc"}
  BY <1>6 DEF ModeOf
<1>8. Ends(t) \/ task' = [task EXCEPT ![t].stage = "build", ![t].approving = approving, ![t].mode = mode]
  BY <1>5, <1>6
<1>. QED
  BY <1>3, <1>4, <1>7, <1>8

LEMMA BuildKeeps ==
  ASSUME AccountInv, NEW t \in 1..MaxTasks, Build(t)
  PROVE  AccountInv'
<1>1. task[t] \in TaskState /\ task[t].stage = "build" /\ acct.nonce \in Nat
  BY DEF AccountInv, AccountTypes, Build
<1>2. PICK begun : begun = [task[t] EXCEPT !.stage = "sign", !.nonce = acct.nonce]
  OBVIOUS
<1>3. /\ begun \in TaskState /\ begun.kind = task[t].kind /\ begun.page = task[t].page
      /\ begun.live = task[t].live /\ begun.mounted = task[t].mounted /\ begun.stage = "sign"
  BY <1>1, <1>2 DEF TaskState
<1>4. (MakesApproval(begun) <=> MakesApproval(task[t])) /\ (Sends(begun) => Sends(task[t]))
  BY <1>1, <1>3 DEF MakesApproval, Sends
<1>5. task' = [task EXCEPT ![t] = begun]
  BY <1>2 DEF AccountInv, AccountTypes, Build
<1>. QED
  BY <1>3, <1>4, <1>5, GoKeeps DEF Build

LEMMA NotSentKeeps ==
  ASSUME AccountInv, NEW t \in 1..MaxTasks, NotSent(t)
  PROVE  AccountInv'
<1>1. MakesApproval(task[t]) <=> task[t].kind = "status"
  BY DEF NotSent, MakesApproval
<1>. QED
  BY <1>1, EndKeeps DEF NotSent

LEMMA AnswerWaitKeeps ==
  ASSUME AccountInv, NEW t \in 1..MaxTasks, AnswerWait(t)
  PROVE  AccountInv'
<1>1. /\ task[t] \in TaskState /\ task[t].stage = "wait"
      /\ (MakesApproval(task[t]) <=> task[t].kind = "status")
  BY DEF AccountInv, AccountTypes, AnswerWait, MakesApproval
<1>2. UNCHANGED <<acct, userOps, refreshed, armRaced>>
  BY DEF AnswerWait
<1>3. CASE Ends(t)
  BY <1>1, <1>2, <1>3, EndKeeps DEF AnswerWait
<1>4. CASE /\ task[t].kind = "bulk"
           /\ task' = [task EXCEPT ![t].stage = "build", ![t].approving = FALSE]
  <2>1. PICK begun : begun = [task[t] EXCEPT !.stage = "build", !.approving = FALSE]
    OBVIOUS
  <2>2. /\ begun \in TaskState /\ begun.kind = "bulk" /\ begun.page = task[t].page
        /\ begun.live = task[t].live /\ begun.mounted = task[t].mounted
    BY <1>1, <1>4, <2>1 DEF TaskState
  <2>3. ~MakesApproval(begun) /\ ~Sends(begun) /\ ~MakesApproval(task[t])
    BY <1>4, <2>2 DEF MakesApproval, Sends
  <2>4. task' = [task EXCEPT ![t] = begun]
    BY <1>4, <2>1 DEF AccountInv, AccountTypes
  <2>5. hook' = hook
    BY <1>4 DEF AnswerWait
  <2>. QED
    BY <1>2, <2>2, <2>3, <2>4, <2>5, GoKeeps
<1>. QED
  BY <1>3, <1>4 DEF AnswerWait

LEMMA SubmitKeeps ==
  ASSUME AccountInv, NEW t \in 1..MaxTasks, Submit(t)
  PROVE  AccountInv'
<1>1. task[t] \in TaskState /\ task[t].stage = "sign" /\ userOps \in Seq(UserOp)
  BY DEF AccountInv, AccountTypes, Submit
<1>20. PICK place \in Nat : place = Len(userOps) + 1
  BY <1>1
<1>2. PICK begun : begun = [task[t] EXCEPT !.stage = "wait", !.op = place, !.nonce = 0]
  OBVIOUS
<1>3. /\ begun \in TaskState /\ begun.kind = task[t].kind /\ begun.page = task[t].page
      /\ begun.live = task[t].live /\ begun.mounted = task[t].mounted /\ begun.stage = "wait"
  BY <1>1, <1>2 DEF TaskState
<1>4. MakesApproval(begun) <=> MakesApproval(task[t])
  BY <1>1, <1>3 DEF MakesApproval
<1>5. task' = [task EXCEPT ![t] = begun]
  BY <1>2, <1>20 DEF AccountInv, AccountTypes, Submit
<1>6. UNCHANGED <<acct, hook, refreshed, armRaced>>
  BY DEF Submit
<1>7. OwnTask(begun) <=> OwnTask(task[t])
  BY <1>3, <1>4 DEF OwnTask
<1>8. ShownInv'
  BY <1>3, <1>5, <1>6, <1>7, RunGoesOn
<1>9. PICK op : op = [kind |-> OpKind(t), mode |-> task[t].mode, nonce |-> task[t].nonce, status |-> "pool"]
  OBVIOUS
<1>10. /\ op \in UserOp /\ op.status = "pool"
       /\ (op.kind = "arm" <=> task[t].kind = "status")
  <2>1. OpKind(t) \in Kinds \cup {"arm", "approve", "none"} /\ (OpKind(t) = "arm" <=> task[t].kind = "status")
    BY <1>1 DEF OpKind, TaskState, Kinds
  <2>. QED
    BY <1>1, <1>9, <2>1 DEF UserOp, TaskState
<1>11. userOps' = Append(userOps, op)
  BY <1>9 DEF Submit
<1>12. /\ userOps' \in Seq(UserOp) /\ DOMAIN userOps' = DOMAIN userOps \cup {Len(userOps) + 1}
       /\ userOps'[Len(userOps) + 1] = op
       /\ \A o \in DOMAIN userOps : userOps'[o] = userOps[o]
  BY <1>1, <1>10, <1>11
<1>13. /\ task'[t] = begun /\ \A u \in 1..MaxTasks : u # t => task'[u] = task[u]
       /\ task' \in [1..MaxTasks -> TaskState]
  BY <1>3, <1>5 DEF AccountInv, AccountTypes
<1>14. ~Sends(begun) /\ (Sends(task[t]) <=> task[t].kind = "status")
  BY <1>1, <1>3 DEF Sends
<1>15. \A u \in 1..MaxTasks : Sends(task[u])' <=> Sends(task'[u])
  BY DEF Sends
<1>16. \A o \in DOMAIN userOps' : (userOps[o].kind = "arm" /\ userOps[o].status = "mined" => acct.armed)'
  BY <1>6, <1>10, <1>12 DEF AccountInv, OnceInv
<1>17. CASE task[t].kind = "status"
  <2>1. ~armRaced => Arms = {} /\ \A u \in 1..MaxTasks : Sends(task[u]) => u = t
    BY <1>14, <1>17 DEF AccountInv, OnceInv
  <2>2. Arms = {} => Arms' \subseteq {Len(userOps) + 1}
    BY <1>12 DEF Arms
  <2>3. ~armRaced => \A u \in 1..MaxTasks : ~Sends(task'[u])
    BY <1>13, <1>14, <2>1
  <2>4. OnceInv'
    BY <1>6, <1>15, <1>16, <2>1, <2>2, <2>3 DEF OnceInv
  <2>. QED
    BY <1>6, <1>8, <1>12, <1>13, <2>4 DEF AccountInv, AccountTypes
<1>18. CASE task[t].kind # "status"
  <2>1. Arms' \subseteq Arms
    BY <1>10, <1>12, <1>18 DEF Arms
  <2>2. \A u \in 1..MaxTasks : Sends(task[u])' => Sends(task[u])
    BY <1>13, <1>14, <1>15
  <2>3. OnceInv'
    BY <1>6, <1>16, <2>1, <2>2, ArmsStill
  <2>. QED
    BY <1>6, <1>8, <1>12, <1>13, <2>3 DEF AccountInv, AccountTypes
<1>. QED
  BY <1>17, <1>18

\* An operation that is settled on the chain.
LEMMA OpSettled ==
  ASSUME AccountInv, NEW o \in DOMAIN userOps, userOps[o].status = "pool",
         NEW status \in {"mined", "reverted", "dropped"},
         userOps' = [userOps EXCEPT ![o].status = status],
         acct' \in [nonce : Nat, free : Nat, armed : BOOLEAN, batchable : BOOLEAN],
         acct.armed => acct'.armed,
         userOps[o].kind = "arm" /\ status = "mined" => acct'.armed,
         UNCHANGED <<hook, task, refreshed, armRaced>>
  PROVE  AccountInv'
<1>1. userOps \in Seq(UserOp) /\ userOps[o] \in UserOp
  BY DEF AccountInv, AccountTypes
<1>2. PICK op : op = [userOps[o] EXCEPT !.status = status]
  OBVIOUS
<1>3. op \in UserOp /\ op.status = status /\ op.kind = userOps[o].kind
  BY <1>1, <1>2 DEF UserOp
<1>4. userOps' = [userOps EXCEPT ![o] = op]
  BY <1>1, <1>2
<1>5. /\ userOps' \in Seq(UserOp) /\ DOMAIN userOps' = DOMAIN userOps /\ userOps'[o] = op
      /\ \A x \in DOMAIN userOps : x # o => userOps'[x] = userOps[x]
  BY <1>1, <1>3, <1>4
<1>6. Arms' \subseteq Arms
  BY <1>3, <1>5 DEF Arms
<1>7. \A x \in DOMAIN userOps' : (userOps[x].kind = "arm" /\ userOps[x].status = "mined" => acct.armed)'
  BY <1>3, <1>5 DEF AccountInv, OnceInv
<1>8. \A u \in 1..MaxTasks : Sends(task[u])' => Sends(task[u])
  BY DEF Sends
<1>9. OnceInv'
  BY <1>6, <1>7, <1>8, ArmsStill
<1>10. ShownInv'
  BY DEF AccountInv, ShownInv, OwnTask, MakesApproval
<1>. QED
  BY <1>5, <1>9, <1>10 DEF AccountInv, AccountTypes

LEMMA MineOpKeeps ==
  ASSUME AccountInv, NEW o \in DOMAIN userOps, MineOp(o)
  PROVE  AccountInv'
<1>1. PICK ok \in BOOLEAN :
       /\ userOps' = [userOps EXCEPT ![o].status = IF ok THEN "mined" ELSE "reverted"]
       /\ acct' = [nonce |-> acct.nonce + 1,
                   free |-> acct.free + (IF userOps[o].mode = "sponsored" THEN 1 ELSE 0),
                   armed |-> acct.armed \/ userOps[o].kind = "arm",
                   batchable |-> acct.batchable \/ userOps[o].kind = "approve"]
  BY DEF MineOp
<1>2. PICK status \in {"mined", "reverted"} : status = IF ok THEN "mined" ELSE "reverted"
  OBVIOUS
<1>3. acct \in [nonce : Nat, free : Nat, armed : BOOLEAN, batchable : BOOLEAN]
  BY DEF AccountInv, AccountTypes
<1>4. acct' \in [nonce : Nat, free : Nat, armed : BOOLEAN, batchable : BOOLEAN]
  BY <1>1, <1>3
<1>5. (acct.armed => acct'.armed) /\ (userOps[o].kind = "arm" => acct'.armed)
  BY <1>1
<1>6. userOps[o].status = "pool" /\ UNCHANGED <<hook, task, refreshed, armRaced>>
  BY DEF MineOp
<1>. QED
  BY <1>1, <1>2, <1>4, <1>5, <1>6, OpSettled

LEMMA DropOpKeeps ==
  ASSUME AccountInv, NEW o \in DOMAIN userOps, DropOp(o)
  PROVE  AccountInv'
<1>1. acct' \in [nonce : Nat, free : Nat, armed : BOOLEAN, batchable : BOOLEAN]
  BY DEF AccountInv, AccountTypes, DropOp
<1>. QED
  BY <1>1, OpSettled DEF DropOp

LEMMA AccountStep == AccountInv /\ [AccountNext]_accountVars => AccountInv'
<1>. SUFFICES ASSUME AccountInv, [AccountNext]_accountVars PROVE AccountInv'
  OBVIOUS
<1>1. CASE UNCHANGED accountVars
  BY <1>1 DEF accountVars, AccountInv, AccountTypes, ShownInv, OnceInv, OwnTask, MakesApproval, Sends, Arms
<1>2. ASSUME NEW p \in Page, OpenPage(p) \/ LeavePage(p) \/ Refresh(p) PROVE AccountInv'
  BY <1>2, OpenPageKeeps, LeavePageKeeps, RefreshKeeps
<1>3. ASSUME NEW p \in Page, NEW kind \in Kinds, Press(p, kind) PROVE AccountInv'
  BY <1>3, PressKeeps
<1>4. ASSUME NEW t \in DOMAIN task, \/ ReadStatus(t) \/ ArmCheck(t) \/ TakeRoute(t)
                                    \/ Build(t) \/ Submit(t) \/ NotSent(t) \/ AnswerWait(t)
      PROVE  AccountInv'
  <2>1. t \in 1..MaxTasks
    BY DEF AccountInv, AccountTypes
  <2>. QED
    BY <1>4, <2>1, ReadStatusKeeps, ArmCheckKeeps, TakeRouteKeeps, BuildKeeps, SubmitKeeps,
       NotSentKeeps, AnswerWaitKeeps
<1>5. ASSUME NEW o \in DOMAIN userOps, MineOp(o) \/ DropOp(o) PROVE AccountInv'
  BY <1>5, MineOpKeeps, DropOpKeeps
<1>. QED
  BY <1>1, <1>2, <1>3, <1>4, <1>5 DEF AccountNext

\* At most one element.
LEMMA AtMostOne ==
  ASSUME NEW S, \A x, y \in S : x = y
  PROVE  Cardinality(S) <= 1
<1>1. CASE S = {}
  BY <1>1, FS_EmptySet
<1>2. CASE S # {}
  <2>1. PICK x : x \in S
    BY <1>2
  <2>2. S = {x}
    BY <2>1
  <2>. QED
    BY <2>2, FS_Singleton
<1>. QED
  BY <1>1, <1>2

(***************************************************************************)
(* The hook shows that QUSDC gas is being armed only while an approval of  *)
(* the page is under way, a page has one at a time, and one approval at    *)
(* most is mined for the account, with any number of pages, runs and       *)
(* operations, unless an approval was begun while another one was.         *)
(***************************************************************************)
THEOREM ArmingHolds == AccountSpec => []ArmingIsSound
<1>1. AccountInv => ArmingIsSound
  <2>. SUFFICES ASSUME AccountInv PROVE ArmingIsSound
    OBVIOUS
  <2>1. ArmedOnceUnlessRaced
    <3>1. PICK M : M = {o \in DOMAIN userOps : userOps[o].kind = "arm" /\ userOps[o].status = "mined"}
      OBVIOUS
    <3>2. M \subseteq Arms
      BY <3>1 DEF Arms
    <3>3. armRaced \/ \A x, y \in M : x = y
      BY <3>2 DEF AccountInv, OnceInv
    <3>4. armRaced \/ Cardinality(M) <= 1
      BY <3>3, AtMostOne
    <3>. QED
      BY <3>1, <3>4 DEF ArmedOnceUnlessRaced
  <2>2. ASSUME NEW p \in Page
        PROVE  LET own == {t \in Approving : task[t].page = p /\ task[t].mounted} IN
               /\ hook[p].arming => own # {} \/ p \in refreshed
               /\ Cardinality(own) <= 1
    <3>1. PICK own : own = {t \in Approving : task[t].page = p /\ task[t].mounted}
      OBVIOUS
    <3>2. \A t : t \in own <=> t \in 1..MaxTasks /\ OwnTask(task[t]) /\ task[t].page = p
      BY <3>1 DEF Approving, OwnTask, MakesApproval, AccountInv, AccountTypes
    <3>3. Cardinality(own) <= 1
      BY <3>2, AtMostOne DEF AccountInv, ShownInv
    <3>4. hook[p].arming => own # {} \/ p \in refreshed
      BY <3>2 DEF AccountInv, ShownInv
    <3>. QED
      BY <3>1, <3>3, <3>4
  <2>. QED
    BY <2>1, <2>2 DEF ArmingIsSound, ArmingShownIsInFlight
<1>. QED
  BY <1>1, AccountInitially, AccountStep, PTL DEF AccountSpec

-----------------------------------------------------------------------------
(***************************************************************************)
(* The feeds.  A query that waits is handed the slot of one that ends, so  *)
(* the slots in flight and those handed on do not get fewer while one      *)
(* waits.  Logs are only appended and the state a request was settled in   *)
(* is its last, so what a scan finds in its window stays what it is.       *)
(***************************************************************************)
Status == {"unpaid", "paid", "cancelled"}

Log ==
  [kind : {"transfer", "created", "paid", "cancelled", "batch"}, from : Address,
   to : Address \cup {Anyone}, req : Nat]

RequestRecord == [requestor : Address, payer : Address \cup {Anyone}, status : Status]

\* What was read of the requests.
Readings == UNION {[S -> Status] : S \in SUBSET Nat}

FeedScan ==
  [kind : {"requests", "batches", "wallet", "global"}, latest : Nat, phase : Nat, toGo : Int,
   from : Nat, stage : {"next", "queries", "records", "failed", "shown"},
   read : Readings, then : Readings]

FeedTypes ==
  /\ logs \in Seq(Seq(Log))
  /\ reqs \in Seq(RequestRecord)
  /\ scan \in Seq(FeedScan)

\* The gate: waiters and counts are of scans.
GateTypes ==
  /\ waiters \in Seq(DOMAIN scan)
  /\ woken \in Seq(Nat) /\ Len(woken) = Len(scan)
  /\ active \in Seq(Nat) /\ Len(active) = Len(scan)

\* A log of a request is of one that is there, and has what it tells.
LogHolds(log) ==
  /\ log.kind \in {"created", "paid", "cancelled"} => log.req \in DOMAIN reqs
  /\ log.kind \in {"paid", "cancelled"} => reqs[log.req].status = log.kind

\* What a scan has read when it started and since.
ScanHolds(s) ==
  /\ scan[s].from <= scan[s].latest /\ scan[s].latest <= Len(logs)
  /\ \A r \in DOMAIN scan[s].then :
       r \in DOMAIN reqs /\ scan[s].then[r] \in {"unpaid", reqs[r].status}
  /\ \A p \in Positions : p[1] <= scan[s].latest /\ LogAt(p).kind = "created" =>
       LogAt(p).req \in DOMAIN scan[s].then
  /\ \A r \in DOMAIN scan[s].read :
       /\ r \in DOMAIN scan[s].then
       /\ scan[s].read[r] = scan[s].then[r] \/
            (scan[s].read[r] = reqs[r].status /\ scan[s].read[r] # "unpaid")
  /\ scan[s].stage = "records" => scan[s].kind = "requests"
  /\ scan[s].kind = "requests" /\ scan[s].stage = "shown" => Listed(s) \subseteq DOMAIN scan[s].read

FeedInv ==
  /\ FeedTypes
  /\ GateTypes
  /\ NoSlotLost
  /\ \A p \in Positions : LogHolds(LogAt(p))
  /\ \A s \in DOMAIN scan : ScanHolds(s)

LEMMA FeedInitially == FeedInit => FeedInv
<1>. SUFFICES ASSUME FeedInit PROVE FeedInv
  OBVIOUS
<1>1. DOMAIN scan = {} /\ DOMAIN logs = {} /\ Positions = {}
  BY DEF FeedInit, Positions
<1>2. /\ waiters \in Seq(DOMAIN scan) /\ woken \in Seq(Nat) /\ active \in Seq(Nat)
      /\ Len(woken) = Len(scan) /\ Len(active) = Len(scan)
  BY <1>1 DEF FeedInit
<1>. QED
  BY <1>1, <1>2 DEF FeedInit, FeedInv, FeedTypes, GateTypes, NoSlotLost

LEMMA ElementOf ==
  ASSUME NEW S, NEW q \in Seq(S), NEW i \in DOMAIN q
  PROVE  q[i] \in S /\ i \in Nat
OBVIOUS

LEMMA ScanFields ==
  ASSUME FeedTypes, NEW s \in DOMAIN scan
  PROVE  /\ scan[s] \in FeedScan /\ s \in Nat
         /\ scan[s].from \in Nat /\ scan[s].latest \in Nat /\ scan[s].phase \in Nat
         /\ scan[s].kind \in {"requests", "batches", "wallet", "global"}
         /\ scan[s].read \in Readings /\ scan[s].then \in Readings
<1>1. scan[s] \in FeedScan /\ s \in Nat
  BY ElementOf DEF FeedTypes
<1>. QED
  BY <1>1 DEF FeedScan

\* The block an interval of LogSpan + 1 blocks, counted from the first, begins at.
LEMMA RangesCover ==
  ASSUME NEW from \in Nat, NEW to \in Nat, NEW b \in from..to
  PROVE  \E range \in BlockRanges(from, to) : b \in range[1]..range[2]
<1>1. LogSpan \in Nat
  BY FeedAssumption DEF FeedAssumption
<1>2. PICK m \in Nat, x \in Nat : m = LogSpan + 1 /\ x = b - from /\ m > 0
  BY <1>1
<1>3. (x - (x % m)) % m = 0 /\ x % m < m /\ x % m \in Nat /\ x % m <= x
  BY <1>2
<1>4. PICK s : s = b - (x % m)
  OBVIOUS
<1>5. s \in from..to /\ s <= b /\ b <= s + LogSpan /\ s - from = x - (x % m) /\ b <= to
  BY <1>1, <1>2, <1>3, <1>4
<1>6. (s - from) % (LogSpan + 1) = 0
  BY <1>2, <1>3, <1>5
<1>7. PICK e : e = IF s + LogSpan < to THEN s + LogSpan ELSE to
  OBVIOUS
<1>8. <<s, e>> \in BlockRanges(from, to)
  BY <1>5, <1>6, <1>7 DEF BlockRanges
<1>9. b \in s..e
  BY <1>1, <1>5, <1>7
<1>. QED
  BY <1>8, <1>9

LEMMA RangesWithin ==
  ASSUME NEW from \in Nat, NEW to \in Nat, NEW range \in BlockRanges(from, to), NEW b \in range[1]..range[2]
  PROVE  b \in from..to
<1>1. PICK s \in from..to : range = <<s, IF s + LogSpan < to THEN s + LogSpan ELSE to>>
  BY DEF BlockRanges
<1>2. range[1] = s /\ range[2] = IF s + LogSpan < to THEN s + LogSpan ELSE to
  BY <1>1
<1>3. LogSpan \in Nat
  BY FeedAssumption DEF FeedAssumption
<1>. QED
  BY <1>2, <1>3

\* The pages of a query are the logs of its window.
LEMMA PagedIsWindow ==
  ASSUME FeedTypes, NEW s \in DOMAIN scan, NEW filter
  PROVE  Paged(filter, s) = {p \in Positions : /\ LogAt(p).kind = filter[1]
                                               /\ LogAt(p)[filter[2]] \in filter[3]
                                               /\ p[1] \in scan[s].from..scan[s].latest}
<1>1. scan[s].from \in Nat /\ scan[s].latest \in Nat
  BY ScanFields
<1>2. ASSUME NEW p \in Positions
      PROVE  (\E range \in BlockRanges(scan[s].from, scan[s].latest) : p[1] \in range[1]..range[2])
               <=> p[1] \in scan[s].from..scan[s].latest
  BY <1>1, RangesCover, RangesWithin
<1>. QED
  BY <1>2 DEF Paged
-----------------------------------------------------------------------------
(* The gate *)

LEMMA InFlightIsTotal ==
  ASSUME NEW a
  PROVE  InFlight(a) = Total(a, DOMAIN a)
BY DEF InFlight, Total, FoldFunction

LEMMA PlacesFinite ==
  ASSUME NEW S, NEW a \in Seq(S)
  PROVE  IsFiniteSet(DOMAIN a) /\ DOMAIN a = 1..Len(a) /\ Len(a) \in Nat
<1>1. DOMAIN a = 1..Len(a) /\ Len(a) \in Nat
  OBVIOUS
<1>2. IsFiniteSet(1..Len(a))
  BY <1>1, FS_Interval
<1>. QED
  BY <1>1, <1>2

LEMMA InFlightCounts ==
  ASSUME NEW a \in Seq(Nat)
  PROVE  InFlight(a) \in Nat
<1>1. \A x \in DOMAIN a : a[x] \in Nat
  OBVIOUS
<1>. QED
  BY <1>1, PlacesFinite, InFlightIsTotal, TotalNat

LEMMA InFlightChanges ==
  ASSUME NEW a \in Seq(Nat), NEW s \in DOMAIN a, NEW m \in Int, a[s] + m \in Nat
  PROVE  /\ [a EXCEPT ![s] = @ + m] \in Seq(Nat)
         /\ Len([a EXCEPT ![s] = @ + m]) = Len(a)
         /\ InFlight([a EXCEPT ![s] = @ + m]) = InFlight(a) + m
<1>1. PICK b : b = [a EXCEPT ![s] = a[s] + m]
  OBVIOUS
<1>2. b \in Seq(Nat) /\ Len(b) = Len(a) /\ DOMAIN b = DOMAIN a
  BY <1>1
<1>3. b[s] = a[s] + m /\ \A y \in DOMAIN a : y # s => b[y] = a[y]
  BY <1>1
<1>4. \A y \in DOMAIN a : a[y] \in Int
  OBVIOUS
<1>5. IsFiniteSet(DOMAIN a)
  BY PlacesFinite
<1>6. Total(b, DOMAIN a) = Total(a, DOMAIN a) + m
  BY <1>3, <1>4, <1>5, TotalRaised
<1>7. InFlight(b) = InFlight(a) + m
  BY <1>2, <1>6, InFlightIsTotal
<1>. QED
  BY <1>1, <1>2, <1>7

LEMMA InFlightOfOneMore ==
  ASSUME NEW a \in Seq(Nat)
  PROVE  InFlight(Append(a, 0)) = InFlight(a)
<1>1. PICK b : b = Append(a, 0)
  OBVIOUS
<1>2. /\ b \in Seq(Nat) /\ DOMAIN b = DOMAIN a \cup {Len(a) + 1} /\ b[Len(a) + 1] = 0
      /\ Len(a) + 1 \notin DOMAIN a /\ \A x \in DOMAIN a : b[x] = a[x] /\ a[x] \in Int
  BY <1>1
<1>3. IsFiniteSet(DOMAIN a)
  BY PlacesFinite
<1>4. Total(b, DOMAIN a) = Total(a, DOMAIN a)
  BY <1>2, <1>3, TotalSame
<1>5. \A y \in DOMAIN a : b[y] \in Int
  BY <1>2
<1>6. Total(b, DOMAIN a \cup {Len(a) + 1}) = b[Len(a) + 1] + Total(b, DOMAIN a)
  BY <1>2, <1>3, <1>5, TotalAdd
<1>7. Total(a, DOMAIN a) \in Int
  BY <1>2, <1>3, TotalType
<1>8. InFlight(b) = InFlight(a)
  BY <1>2, <1>4, <1>6, <1>7, InFlightIsTotal
<1>. QED
  BY <1>1, <1>8

\* A gate of some scans.
Gate(w, k, a, n) ==
  /\ w \in Seq(1..n)
  /\ k \in Seq(Nat) /\ Len(k) = n
  /\ a \in Seq(Nat) /\ Len(a) = n
  /\ w # << >> => InFlight(a) + InFlight(k) >= LogSlots

LEMMA GateIs ==
  ASSUME FeedTypes
  PROVE  GateTypes /\ NoSlotLost <=> Gate(waiters, woken, active, Len(scan))
<1>1. DOMAIN scan = 1..Len(scan)
  BY DEF FeedTypes
<1>. QED
  BY <1>1 DEF GateTypes, NoSlotLost, Gate

LEMMA IssueGate ==
  ASSUME NEW w, NEW k, NEW a, NEW n \in Nat, Gate(w, k, a, n), NEW s \in 1..n, NEW q \in Nat,
         NEW now, now = IF LogSlots - InFlight(a) <= 0 THEN 0
                        ELSE IF q < LogSlots - InFlight(a) THEN q ELSE LogSlots - InFlight(a)
  PROVE  Gate(w \o [i \in 1..(q - now) |-> s], k, [a EXCEPT ![s] = @ + now], n)
<1>1. LogSlots \in Nat
  BY FeedAssumption DEF FeedAssumption
<1>2. InFlight(a) \in Nat /\ InFlight(k) \in Nat
  BY InFlightCounts DEF Gate
<1>3. now \in Nat /\ now <= q /\ q - now \in Nat
  BY <1>1, <1>2
<1>4. PICK more : more = [i \in 1..(q - now) |-> s]
  OBVIOUS
<1>5. more \in Seq(1..n) /\ (q = now => more = << >>)
  BY <1>3, <1>4
<1>6. w \o more \in Seq(1..n) /\ (w \o more # << >> => w # << >> \/ q # now)
  BY <1>5, SMTT(30) DEF Gate
<1>7. PICK b : b = [a EXCEPT ![s] = @ + now]
  OBVIOUS
<1>8. b \in Seq(Nat) /\ Len(b) = n /\ InFlight(b) = InFlight(a) + now
  <2>1. a \in Seq(Nat) /\ s \in DOMAIN a /\ Len(a) = n /\ now \in Int
    BY <1>3 DEF Gate
  <2>2. a[s] + now \in Nat
    BY <1>3, <2>1
  <2>. QED
    BY <1>7, <2>1, <2>2, InFlightChanges, ZenonT(30)
<1>9. q # now => InFlight(b) >= LogSlots
  BY <1>1, <1>2, <1>3, <1>8
<1>10. w \o more # << >> => InFlight(b) + InFlight(k) >= LogSlots
  <2>1. CASE q # now
    BY <1>1, <1>2, <1>3, <1>8, <1>9, <2>1, SMTT(30)
  <2>2. CASE w # << >>
    <3>1. InFlight(a) + InFlight(k) >= LogSlots
      BY <2>2 DEF Gate
    <3>. QED
      BY <1>1, <1>2, <1>3, <1>8, <3>1, SMTT(30)
  <2>. QED
    BY <1>6, <2>1, <2>2
<1>. QED
  BY <1>4, <1>6, <1>7, <1>8, <1>10 DEF Gate

\* A query ends: a slot is free, or is the first waiter's.
LEMMA EndGate ==
  ASSUME NEW w, NEW k, NEW a, NEW n \in Nat, Gate(w, k, a, n), NEW s \in 1..n, a[s] > 0
  PROVE  /\ w = << >> => Gate(w, k, [a EXCEPT ![s] = @ - 1], n)
         /\ w # << >> => Gate(Tail(w), [k EXCEPT ![Head(w)] = @ + 1], [a EXCEPT ![s] = @ - 1], n)
<1>1. LogSlots \in Nat
  BY FeedAssumption DEF FeedAssumption
<1>2. InFlight(a) \in Nat /\ InFlight(k) \in Nat
  BY InFlightCounts DEF Gate
<1>3. PICK b : b = [a EXCEPT ![s] = @ - 1]
  OBVIOUS
<1>4. b \in Seq(Nat) /\ Len(b) = n /\ InFlight(b) = InFlight(a) - 1
  <2>1. a \in Seq(Nat) /\ s \in DOMAIN a /\ Len(a) = n
    BY DEF Gate
  <2>2. a[s] + (-1) \in Nat /\ -1 \in Int /\ a[s] - 1 = a[s] + (-1)
    BY <2>1
  <2>3. PICK c : c = [a EXCEPT ![s] = @ + (-1)]
    OBVIOUS
  <2>4. c = b
    BY <1>3, <2>2, <2>3
  <2>5. c \in Seq(Nat) /\ Len(c) = Len(a) /\ InFlight(c) = InFlight(a) + (-1)
    BY <2>1, <2>2, <2>3, InFlightChanges
  <2>. QED
    BY <1>2, <2>1, <2>4, <2>5
<1>5. CASE w = << >>
  BY <1>3, <1>4, <1>5 DEF Gate
<1>6. CASE w # << >>
  <2>1. Head(w) \in 1..n /\ Tail(w) \in Seq(1..n)
    BY <1>6 DEF Gate
  <2>2. PICK c : c = [k EXCEPT ![Head(w)] = @ + 1]
    OBVIOUS
  <2>3. k \in Seq(Nat) /\ Head(w) \in DOMAIN k /\ Len(k) = n
    BY <2>1 DEF Gate
  <2>4. k[Head(w)] + 1 \in Nat /\ 1 \in Int
    BY <2>3
  <2>5. c \in Seq(Nat) /\ Len(c) = n /\ InFlight(c) = InFlight(k) + 1
    BY <2>2, <2>3, <2>4, InFlightChanges
  <2>6. InFlight(b) + InFlight(c) >= LogSlots
    <3>1. InFlight(a) + InFlight(k) >= LogSlots
      BY <1>6 DEF Gate
    <3>. QED
      BY <1>1, <1>2, <1>4, <2>5, <3>1
  <2>. QED
    BY <1>3, <1>4, <1>6, <2>1, <2>2, <2>5, <2>6 DEF Gate
<1>. QED
  BY <1>5, <1>6

LEMMA GoOnGate ==
  ASSUME NEW w, NEW k, NEW a, NEW n \in Nat, Gate(w, k, a, n), NEW s \in 1..n, k[s] > 0
  PROVE  Gate(w, [k EXCEPT ![s] = @ - 1], [a EXCEPT ![s] = @ + 1], n)
<1>1. LogSlots \in Nat
  BY FeedAssumption DEF FeedAssumption
<1>2. InFlight(a) \in Nat /\ InFlight(k) \in Nat
  BY InFlightCounts DEF Gate
<1>3. PICK b : b = [k EXCEPT ![s] = @ - 1]
  OBVIOUS
<1>4. b \in Seq(Nat) /\ Len(b) = n /\ InFlight(b) = InFlight(k) - 1
  <2>1. k \in Seq(Nat) /\ s \in DOMAIN k /\ Len(k) = n
    BY DEF Gate
  <2>2. k[s] + (-1) \in Nat /\ -1 \in Int /\ k[s] - 1 = k[s] + (-1)
    BY <2>1
  <2>3. PICK c : c = [k EXCEPT ![s] = @ + (-1)]
    OBVIOUS
  <2>4. c = b
    BY <1>3, <2>2, <2>3
  <2>5. c \in Seq(Nat) /\ Len(c) = Len(k) /\ InFlight(c) = InFlight(k) + (-1)
    BY <2>1, <2>2, <2>3, InFlightChanges
  <2>. QED
    BY <1>2, <2>1, <2>4, <2>5
<1>5. PICK c : c = [a EXCEPT ![s] = @ + 1]
  OBVIOUS
<1>6. c \in Seq(Nat) /\ Len(c) = n /\ InFlight(c) = InFlight(a) + 1
  <2>1. a \in Seq(Nat) /\ s \in DOMAIN a /\ Len(a) = n
    BY DEF Gate
  <2>2. a[s] + 1 \in Nat /\ 1 \in Int
    BY <2>1
  <2>. QED
    BY <1>5, <2>1, <2>2, InFlightChanges
<1>. QED
  BY <1>1, <1>2, <1>3, <1>4, <1>5, <1>6 DEF Gate

\* A scan that starts has no query yet.
LEMMA MoreGate ==
  ASSUME NEW w, NEW k, NEW a, NEW n \in Nat, Gate(w, k, a, n)
  PROVE  Gate(w, Append(k, 0), Append(a, 0), n + 1)
<1>1. InFlight(Append(k, 0)) = InFlight(k) /\ InFlight(Append(a, 0)) = InFlight(a)
  BY InFlightOfOneMore DEF Gate
<1>2. w \in Seq(1..(n + 1))
  <2>1. 1..n \subseteq 1..(n + 1) /\ w \in Seq(1..n)
    BY DEF Gate
  <2>. QED
    BY <2>1
<1>3. Append(k, 0) \in Seq(Nat) /\ Len(Append(k, 0)) = n + 1 /\ Append(a, 0) \in Seq(Nat)
        /\ Len(Append(a, 0)) = n + 1
  BY DEF Gate
<1>. QED
  BY <1>1, <1>2, <1>3 DEF Gate
-----------------------------------------------------------------------------
(* The chain *)

\* Blocks are added and requests settled; nothing else changes.
Grown ==
  /\ Len(logs) <= Len(logs')
  /\ \A p \in Positions : p \in Positions' /\ LogAt(p)' = LogAt(p)
  /\ \A p \in Positions' : p[1] <= Len(logs) => p \in Positions
  /\ \A r \in DOMAIN reqs :
       r \in DOMAIN reqs' /\ (reqs[r].status # "unpaid" => reqs'[r].status = reqs[r].status)

LEMMA NotGrown ==
  ASSUME FeedTypes, UNCHANGED <<logs, reqs>>
  PROVE  Grown /\ Positions' = Positions /\ \A p \in Positions : LogAt(p)' = LogAt(p)
<1>1. Len(logs) \in Nat
  BY DEF FeedTypes
<1>2. Positions' = Positions /\ \A p \in Positions : LogAt(p)' = LogAt(p)
  BY DEF Positions, LogAt
<1>. QED
  BY <1>1, <1>2 DEF Grown, Positions

LEMMA PositionIs ==
  ASSUME FeedTypes, NEW p \in Positions
  PROVE  /\ p[1] \in DOMAIN logs /\ p[1] \in Nat /\ p[2] \in DOMAIN logs[p[1]]
         /\ LogAt(p) \in Log /\ p[1] <= Len(logs) /\ p = <<p[1], p[2]>>
<1>1. p \in (1..Len(logs)) \X (1..2) /\ p[2] <= Len(logs[p[1]])
  BY DEF Positions
<1>2. p[1] \in 1..Len(logs) /\ p[2] \in 1..2 /\ p = <<p[1], p[2]>>
  BY <1>1
<1>3. p[1] \in DOMAIN logs
  BY <1>2 DEF FeedTypes
<1>4. logs[p[1]] \in Seq(Log)
  BY <1>3, ElementOf DEF FeedTypes
<1>5. p[2] \in DOMAIN logs[p[1]]
  BY <1>1, <1>2, <1>4
<1>. QED
  BY <1>2, <1>3, <1>4, <1>5, ElementOf DEF LogAt

LEMMA MinedLogs ==
  ASSUME FeedTypes, NEW events \in Seq(Log), logs' = Append(logs, events)
  PROVE  /\ logs' \in Seq(Seq(Log)) /\ Len(logs') = Len(logs) + 1
         /\ \A p \in Positions : p \in Positions' /\ LogAt(p)' = LogAt(p)
         /\ \A p \in Positions' : p[1] <= Len(logs) => p \in Positions
         /\ \A p \in Positions' : ~(p[1] <= Len(logs)) => p[2] \in DOMAIN events /\ LogAt(p)' = events[p[2]]
<1>1. logs \in Seq(Seq(Log))
  BY DEF FeedTypes
<1>2. /\ logs' \in Seq(Seq(Log)) /\ Len(logs') = Len(logs) + 1 /\ Len(logs) \in Nat
      /\ logs'[Len(logs) + 1] = events
      /\ \A b \in 1..Len(logs) : logs'[b] = logs[b]
  BY <1>1
<1>3. ASSUME NEW p \in Positions PROVE p \in Positions' /\ LogAt(p)' = LogAt(p)
  <2>1. p \in (1..Len(logs)) \X (1..2) /\ p[2] <= Len(logs[p[1]])
    BY DEF Positions
  <2>2. p[1] \in 1..Len(logs) /\ p \in (1..Len(logs')) \X (1..2)
    BY <1>2, <2>1
  <2>. QED
    BY <1>2, <2>1, <2>2 DEF Positions, LogAt
<1>4. ASSUME NEW p \in Positions' PROVE /\ p[1] <= Len(logs) => p \in Positions
                                        /\ ~(p[1] <= Len(logs)) => p[2] \in DOMAIN events /\ LogAt(p)' = events[p[2]]
  <2>1. p \in (1..Len(logs')) \X (1..2) /\ p[2] <= Len(logs'[p[1]])
    BY DEF Positions
  <2>2. CASE p[1] <= Len(logs)
    <3>1. p[1] \in 1..Len(logs) /\ p \in (1..Len(logs)) \X (1..2)
      BY <1>2, <2>1, <2>2
    <3>. QED
      BY <1>2, <2>1, <2>2, <3>1 DEF Positions
  <2>3. CASE ~(p[1] <= Len(logs))
    <3>1. p[1] = Len(logs) + 1 /\ p[2] \in 1..2
      BY <1>2, <2>1, <2>3
    <3>2. p[2] \in DOMAIN events
      BY <1>2, <2>1, <3>1
    <3>. QED
      BY <1>2, <2>3, <3>1, <3>2 DEF LogAt
  <2>. QED
    BY <2>2, <2>3
<1>. QED
  BY <1>2, <1>3, <1>4

\* What is found in the window of a scan does not change.
LEMMA FoundStays ==
  ASSUME FeedTypes, Grown, NEW s \in DOMAIN scan, scan[s].latest <= Len(logs),
         scan'[s].kind = scan[s].kind, scan'[s].from = scan[s].from, scan'[s].latest = scan[s].latest,
         NEW phase
  PROVE  Found(s, phase)' = Found(s, phase) /\ Found(s, phase) \subseteq Positions
<1>1. scan[s].from \in Nat /\ scan[s].latest \in Nat /\ Len(logs) \in Nat
  BY ScanFields DEF FeedTypes
<1>2. ASSUME NEW filter PROVE Paged(filter, s)' = Paged(filter, s)
  <2>1. ASSUME NEW p \in Positions',
               \E range \in BlockRanges(scan[s].from, scan[s].latest) : p[1] \in range[1]..range[2]
        PROVE  p \in Positions
    <3>1. p[1] \in scan[s].from..scan[s].latest
      BY <1>1, <2>1, RangesWithin
    <3>2. p[1] <= Len(logs)
      BY <1>1, <3>1
    <3>. QED
      BY <3>2 DEF Grown
  <2>2. Paged(filter, s)' =
          {p \in Positions' : /\ LogAt(p)'.kind = filter[1]
                              /\ LogAt(p)'[filter[2]] \in filter[3]
                              /\ \E range \in BlockRanges(scan[s].from, scan[s].latest) :
                                   p[1] \in range[1]..range[2]}
    BY DEF Paged
  <2>3. \A p \in Positions : p \in Positions' /\ LogAt(p)' = LogAt(p)
    BY DEF Grown
  <2>. QED
    BY <2>1, <2>2, <2>3 DEF Paged
<1>3. Found(s, phase)' = UNION {Paged(filter, s)' : filter \in Filters(scan[s].kind, phase)}
  BY DEF Found
<1>4. \A filter \in Filters(scan[s].kind, phase) : Paged(filter, s) \subseteq Positions
  BY DEF Paged
<1>. QED
  BY <1>2, <1>3, <1>4 DEF Found

LEMMA ListedStays ==
  ASSUME FeedTypes, Grown, NEW s \in DOMAIN scan, scan[s].latest <= Len(logs),
         scan'[s].kind = scan[s].kind, scan'[s].from = scan[s].from, scan'[s].latest = scan[s].latest
  PROVE  Listed(s)' = Listed(s)
<1>1. Found(s, 1)' = Found(s, 1) /\ Found(s, 1) \subseteq Positions
  BY FoundStays
<1>2. Listed(s)' = {LogAt(p)'.req : p \in Found(s, 1)'}
  BY DEF Listed
<1>3. \A p \in Found(s, 1) : LogAt(p)' = LogAt(p)
  BY <1>1 DEF Grown
<1>. QED
  BY <1>1, <1>2, <1>3 DEF Listed

\* A scan that keeps what it has read, while the chain grows.
LEMMA ScanStays ==
  ASSUME FeedTypes, Grown, NEW s \in DOMAIN scan, ScanHolds(s),
         scan'[s].kind = scan[s].kind, scan'[s].from = scan[s].from, scan'[s].latest = scan[s].latest,
         scan'[s].then = scan[s].then, scan'[s].read = scan[s].read,
         scan'[s].kind = "requests" /\ scan'[s].stage = "shown" =>
           scan[s].stage = "shown" \/ Listed(s) \subseteq DOMAIN scan[s].read,
         scan'[s].stage = "records" => scan[s].stage = "records" \/ scan[s].kind = "requests"
  PROVE  ScanHolds(s)'
<1>1. scan[s].from \in Nat /\ scan[s].latest \in Nat /\ Len(logs) \in Nat /\ scan[s].latest <= Len(logs)
  BY ScanFields DEF FeedTypes, ScanHolds
<1>2. scan'[s].from <= scan'[s].latest /\ scan'[s].latest <= Len(logs')
  <2>1. Len(logs) <= Len(logs') /\ scan[s].from <= scan[s].latest
    BY DEF Grown, ScanHolds
  <2>. QED
    BY <1>1, <2>1
<1>3. \A r \in DOMAIN scan[s].then :
        r \in DOMAIN reqs' /\ scan[s].then[r] \in {"unpaid", reqs'[r].status}
  BY DEF Grown, ScanHolds
<1>4. \A p \in Positions' : p[1] <= scan[s].latest /\ LogAt(p)'.kind = "created" =>
        LogAt(p)'.req \in DOMAIN scan[s].then
  <2>1. SUFFICES ASSUME NEW p \in Positions', p[1] <= scan[s].latest, LogAt(p)'.kind = "created"
                 PROVE  LogAt(p)'.req \in DOMAIN scan[s].then
    OBVIOUS
  <2>2. p[1] <= Len(logs)
    <3>1. p[1] \in Nat
      BY DEF Positions
    <3>. QED
      BY <1>1, <2>1, <3>1
  <2>3. p \in Positions /\ LogAt(p)' = LogAt(p)
    BY <2>2 DEF Grown
  <2>. QED
    BY <2>1, <2>3 DEF ScanHolds
<1>5. \A r \in DOMAIN scan[s].read :
        /\ r \in DOMAIN scan[s].then
        /\ scan[s].read[r] = scan[s].then[r] \/
             (scan[s].read[r] = reqs'[r].status /\ scan[s].read[r] # "unpaid")
  BY DEF Grown, ScanHolds
<1>6. Listed(s)' = Listed(s)
  BY <1>1, ListedStays
<1>7. scan'[s].kind = "requests" /\ scan'[s].stage = "shown" => Listed(s)' \subseteq DOMAIN scan'[s].read
  BY <1>6 DEF ScanHolds
<1>8. scan'[s].stage = "records" => scan'[s].kind = "requests"
  BY DEF ScanHolds
<1>. QED
  BY <1>2, <1>3, <1>4, <1>5, <1>7, <1>8 DEF ScanHolds

\* A block is mined: its logs are of requests as they are then.
LEMMA BlockMined ==
  ASSUME FeedInv, NEW events \in Seq(Log), Mine(events), reqs' \in Seq(RequestRecord),
         \A r \in DOMAIN reqs :
           r \in DOMAIN reqs' /\ (reqs[r].status # "unpaid" => reqs'[r].status = reqs[r].status),
         \A i \in DOMAIN events :
           /\ events[i].kind \in {"created", "paid", "cancelled"} => events[i].req \in DOMAIN reqs'
           /\ events[i].kind \in {"paid", "cancelled"} => reqs'[events[i].req].status = events[i].kind
  PROVE  FeedInv'
<1>1. FeedTypes /\ logs' = Append(logs, events) /\ UNCHANGED <<scan, waiters, woken, active>>
  BY DEF FeedInv, Mine
<1>2. /\ logs' \in Seq(Seq(Log)) /\ Len(logs') = Len(logs) + 1
      /\ \A p \in Positions : p \in Positions' /\ LogAt(p)' = LogAt(p)
      /\ \A p \in Positions' : p[1] <= Len(logs) => p \in Positions
      /\ \A p \in Positions' : ~(p[1] <= Len(logs)) => p[2] \in DOMAIN events /\ LogAt(p)' = events[p[2]]
  BY <1>1, MinedLogs
<1>3. Len(logs) \in Nat
  BY <1>1 DEF FeedTypes
<1>4. Grown
  BY <1>2, <1>3 DEF Grown
<1>5. FeedTypes'
  BY <1>1, <1>2 DEF FeedTypes
<1>6. \A p \in Positions' : LogHolds(LogAt(p))'
  <2>1. SUFFICES ASSUME NEW p \in Positions', NEW log, log = LogAt(p)'
                 PROVE  /\ log.kind \in {"created", "paid", "cancelled"} => log.req \in DOMAIN reqs'
                        /\ log.kind \in {"paid", "cancelled"} => reqs'[log.req].status = log.kind
    BY DEF LogHolds
  <2>2. CASE p[1] <= Len(logs)
    <3>1. p \in Positions /\ log = LogAt(p)
      BY <1>2, <2>1, <2>2
    <3>2. /\ log.kind \in {"created", "paid", "cancelled"} => log.req \in DOMAIN reqs
          /\ log.kind \in {"paid", "cancelled"} => reqs[log.req].status = log.kind
      BY <3>1 DEF FeedInv, LogHolds
    <3>. QED
      BY <3>2
  <2>3. CASE ~(p[1] <= Len(logs))
    BY <1>2, <2>1, <2>3
  <2>. QED
    BY <2>2, <2>3
<1>7. \A s \in DOMAIN scan' : ScanHolds(s)'
  BY <1>1, <1>4, ScanStays DEF FeedInv
<1>8. GateTypes' /\ NoSlotLost'
  BY <1>1 DEF FeedInv, GateTypes, NoSlotLost
<1>. QED
  BY <1>5, <1>6, <1>7, <1>8 DEF FeedInv

LEMMA RequestCreatedKeeps ==
  ASSUME FeedInv, NEW asker \in Address, NEW payer \in Address \cup {Anyone},
         RequestCreated(asker, payer)
  PROVE  FeedInv'
<1>1. reqs \in Seq(RequestRecord)
  BY DEF FeedInv, FeedTypes
<1>2. PICK n \in Nat : n = Len(reqs) + 1
  BY <1>1
<1>3. PICK log : log = Mentions("created", asker, payer, n)
  OBVIOUS
<1>4. log \in Log /\ log.kind = "created" /\ log.req = n
  BY <1>2, <1>3 DEF Mentions, Log
<1>5. PICK record : record = [requestor |-> asker, payer |-> payer, status |-> "unpaid"]
  OBVIOUS
<1>6. record \in RequestRecord
  BY <1>5 DEF RequestRecord, Status
<1>7. reqs' = Append(reqs, record) /\ Mine(<<log>>)
  BY <1>2, <1>3, <1>5 DEF RequestCreated
<1>8. /\ reqs' \in Seq(RequestRecord) /\ n \in DOMAIN reqs'
      /\ \A r \in DOMAIN reqs : r \in DOMAIN reqs' /\ reqs'[r] = reqs[r]
  BY <1>1, <1>2, <1>6, <1>7
<1>9. <<log>> \in Seq(Log) /\ DOMAIN <<log>> = {1} /\ <<log>>[1] = log
  BY <1>4
<1>10. \A i \in DOMAIN <<log>> :
         /\ <<log>>[i].kind \in {"created", "paid", "cancelled"} => <<log>>[i].req \in DOMAIN reqs'
         /\ <<log>>[i].kind \in {"paid", "cancelled"} => reqs'[<<log>>[i].req].status = <<log>>[i].kind
  BY <1>4, <1>8, <1>9
<1>. QED
  BY <1>7, <1>8, <1>9, <1>10, BlockMined

\* A request is settled: what is left of it.
LEMMA RequestSettled ==
  ASSUME FeedInv, NEW r \in DOMAIN reqs, reqs[r].status = "unpaid", NEW status \in {"paid", "cancelled"},
         reqs' = [reqs EXCEPT ![r].status = status]
  PROVE  /\ reqs' \in Seq(RequestRecord) /\ r \in DOMAIN reqs' /\ reqs'[r].status = status
         /\ \A x \in DOMAIN reqs :
              x \in DOMAIN reqs' /\ (reqs[x].status # "unpaid" => reqs'[x].status = reqs[x].status)
<1>1. reqs \in Seq(RequestRecord) /\ reqs[r] \in RequestRecord
  BY ElementOf DEF FeedInv, FeedTypes
<1>2. PICK record : record = [reqs[r] EXCEPT !.status = status]
  OBVIOUS
<1>3. record \in RequestRecord /\ record.status = status
  BY <1>1, <1>2 DEF RequestRecord, Status
<1>4. reqs' = [reqs EXCEPT ![r] = record]
  BY <1>2
<1>. QED
  BY <1>1, <1>3, <1>4

LEMMA RequestCancelledKeeps ==
  ASSUME FeedInv, NEW r \in DOMAIN reqs, RequestCancelled(r)
  PROVE  FeedInv'
<1>1. reqs[r] \in RequestRecord /\ r \in Nat
  BY ElementOf DEF FeedInv, FeedTypes
<1>2. PICK log : log = Mentions("cancelled", reqs[r].requestor, reqs[r].payer, r)
  OBVIOUS
<1>3. log \in Log /\ log.kind = "cancelled" /\ log.req = r
  BY <1>1, <1>2 DEF Mentions, Log, RequestRecord
<1>4. /\ reqs' \in Seq(RequestRecord) /\ r \in DOMAIN reqs' /\ reqs'[r].status = "cancelled"
      /\ \A x \in DOMAIN reqs :
           x \in DOMAIN reqs' /\ (reqs[x].status # "unpaid" => reqs'[x].status = reqs[x].status)
  BY RequestSettled DEF RequestCancelled
<1>5. <<log>> \in Seq(Log) /\ DOMAIN <<log>> = {1} /\ <<log>>[1] = log
  BY <1>3
<1>6. Mine(<<log>>)
  BY <1>2 DEF RequestCancelled
<1>7. \A i \in DOMAIN <<log>> :
         /\ <<log>>[i].kind \in {"created", "paid", "cancelled"} => <<log>>[i].req \in DOMAIN reqs'
         /\ <<log>>[i].kind \in {"paid", "cancelled"} => reqs'[<<log>>[i].req].status = <<log>>[i].kind
  BY <1>3, <1>4, <1>5
<1>. QED
  BY <1>4, <1>5, <1>6, <1>7, BlockMined

LEMMA RequestPaidKeeps ==
  ASSUME FeedInv, NEW r \in DOMAIN reqs, NEW payer \in Address, RequestPaid(r, payer)
  PROVE  FeedInv'
<1>1. reqs[r] \in RequestRecord /\ r \in Nat
  BY ElementOf DEF FeedInv, FeedTypes
<1>2. PICK moved, log : /\ moved = Transfer(payer, reqs[r].requestor)
                        /\ log = Mentions("paid", payer, reqs[r].requestor, r)
  OBVIOUS
<1>3. moved \in Log /\ moved.kind = "transfer" /\ log \in Log /\ log.kind = "paid" /\ log.req = r
  BY <1>1, <1>2 DEF Mentions, Transfer, Log, RequestRecord
<1>4. /\ reqs' \in Seq(RequestRecord) /\ r \in DOMAIN reqs' /\ reqs'[r].status = "paid"
      /\ \A x \in DOMAIN reqs :
           x \in DOMAIN reqs' /\ (reqs[x].status # "unpaid" => reqs'[x].status = reqs[x].status)
  BY RequestSettled DEF RequestPaid
<1>5. PICK events : events = <<moved, log>>
  OBVIOUS
<1>6. events \in Seq(Log) /\ DOMAIN events = {1, 2} /\ events[1] = moved /\ events[2] = log
  BY <1>3, <1>5
<1>7. Mine(events)
  BY <1>2, <1>5 DEF RequestPaid
<1>8. \A i \in DOMAIN events :
         /\ events[i].kind \in {"created", "paid", "cancelled"} => events[i].req \in DOMAIN reqs'
         /\ events[i].kind \in {"paid", "cancelled"} => reqs'[events[i].req].status = events[i].kind
  BY <1>3, <1>4, <1>6
<1>. QED
  BY <1>4, <1>6, <1>7, <1>8, BlockMined

LEMMA TwoJoined ==
  ASSUME NEW S, NEW x \in S, NEW y \in S, NEW e, e = <<x>> \o <<y>>
  PROVE  e \in Seq(S) /\ \A i \in DOMAIN e : e[i] \in {x, y}
OBVIOUS

LEMMA PaidKeeps ==
  ASSUME FeedInv, NEW from \in Address, NEW to \in Address, NEW batch \in BOOLEAN, Paid(from, to, batch)
  PROVE  FeedInv'
<1>1. PICK moved, log : moved = Transfer(from, to) /\ log = Mentions("batch", from, to, 0)
  OBVIOUS
<1>2. moved \in Log /\ moved.kind = "transfer" /\ log \in Log /\ log.kind = "batch"
  BY <1>1 DEF Mentions, Transfer, Log
<1>3. PICK events : events = <<moved>> \o (IF batch THEN <<log>> ELSE << >>)
  OBVIOUS
<1>4. events \in Seq(Log) /\ \A i \in DOMAIN events : events[i] \in {moved, log}
  <2>1. CASE batch
    <3>1. events = <<moved>> \o <<log>>
      BY <1>3, <2>1
    <3>. QED
      BY <1>2, <3>1, TwoJoined
  <2>2. CASE ~batch
    <3>1. events = <<moved>>
      BY <1>3, <2>2
    <3>. QED
      BY <1>2, <3>1
  <2>. QED
    BY <2>1, <2>2
<1>5. Mine(events) /\ reqs' = reqs
  BY <1>1, <1>3 DEF Paid
<1>6. \A i \in DOMAIN events :
         /\ events[i].kind \in {"created", "paid", "cancelled"} => events[i].req \in DOMAIN reqs'
         /\ events[i].kind \in {"paid", "cancelled"} => reqs'[events[i].req].status = events[i].kind
  BY <1>2, <1>4
<1>7. reqs' \in Seq(RequestRecord)
  BY <1>5 DEF FeedInv, FeedTypes
<1>. QED
  BY <1>4, <1>5, <1>6, <1>7, BlockMined
-----------------------------------------------------------------------------
(* The scans *)

LEMMA ImageFinite ==
  ASSUME NEW f, IsFiniteSet(DOMAIN f)
  PROVE  IsFiniteSet({f[x] : x \in DOMAIN f})
<1>1. PICK T : T = {f[x] : x \in DOMAIN f}
  OBVIOUS
<1>2. PICK g : g = [x \in DOMAIN f |-> f[x]]
  OBVIOUS
<1>3. g \in Surjection(DOMAIN f, T)
  BY <1>1, <1>2 DEF Surjection
<1>4. IsFiniteSet(T)
  BY <1>3, FS_Surjection
<1>. QED
  BY <1>1, <1>4

LEMMA FiltersFinite ==
  ASSUME NEW kind \in {"requests", "batches", "wallet", "global"}, NEW phase
  PROVE  IsFiniteSet(Filters(kind, phase))
<1>1. PICK E, A, T :
        /\ E = {"transfer", "created", "paid", "cancelled", "batch"}
        /\ A = {"from", "to"}
        /\ T = (SUBSET Tracked) \cup {{Me}, Address}
  OBVIOUS
<1>2. IsFiniteSet(E) /\ IsFiniteSet(A)
  <2>1. IsFiniteSet({})
    BY FS_EmptySet
  <2>2. IsFiniteSet({} \cup {"from"}) /\ IsFiniteSet(({} \cup {"from"}) \cup {"to"})
    BY <2>1, FS_AddElement
  <2>3. A = ({} \cup {"from"}) \cup {"to"}
    BY <1>1
  <2>4. PICK B : B = {"transfer", "created"}
    OBVIOUS
  <2>5. IsFiniteSet({"transfer"})
    BY FS_Singleton
  <2>6. IsFiniteSet({"transfer"} \cup {"created"})
    BY <2>5, FS_AddElement
  <2>7. IsFiniteSet(({"transfer"} \cup {"created"}) \cup {"paid"})
    BY <2>6, FS_AddElement
  <2>8. IsFiniteSet((({"transfer"} \cup {"created"}) \cup {"paid"}) \cup {"cancelled"})
    BY <2>7, FS_AddElement
  <2>9. IsFiniteSet(((({"transfer"} \cup {"created"}) \cup {"paid"}) \cup {"cancelled"}) \cup {"batch"})
    BY <2>8, FS_AddElement
  <2>10. E = ((({"transfer"} \cup {"created"}) \cup {"paid"}) \cup {"cancelled"}) \cup {"batch"}
    BY <1>1
  <2>. QED
    BY <2>2, <2>3, <2>9, <2>10
<1>3. IsFiniteSet(T)
  <2>1. IsFiniteSet(SUBSET Tracked)
    BY FS_SUBSET, FeedAssumption DEF FeedAssumption
  <2>2. IsFiniteSet((SUBSET Tracked) \cup {{Me}})
    BY <2>1, FS_AddElement
  <2>3. IsFiniteSet(((SUBSET Tracked) \cup {{Me}}) \cup {Address})
    BY <2>2, FS_AddElement
  <2>4. T = ((SUBSET Tracked) \cup {{Me}}) \cup {Address}
    BY <1>1
  <2>. QED
    BY <2>3, <2>4
<1>4. IsFiniteSet((E \X A) \X T)
  BY <1>2, <1>3, FS_Product
<1>5. PICK f : f = [q \in (E \X A) \X T |-> <<q[1][1], q[1][2], q[2]>>]
  OBVIOUS
<1>6. PICK all : all = {f[q] : q \in DOMAIN f} /\ IsFiniteSet(all)
  <2>1. IsFiniteSet(DOMAIN f)
    BY <1>4, <1>5
  <2>. QED
    BY <2>1, ImageFinite
<1>7. ASSUME NEW e \in E, NEW a \in A, NEW t \in T PROVE <<e, a, t>> \in all
  <2>1. PICK q : q = <<<<e, a>>, t>>
    OBVIOUS
  <2>2. q \in DOMAIN f /\ f[q] = <<e, a, t>>
    BY <1>5, <1>7, <2>1
  <2>. QED
    BY <1>6, <2>2
<1>8. {Me} \in T /\ Address \in T /\ \A a \in Tracked : {a} \in T
  BY <1>1
<1>9. Filters(kind, phase) \in SUBSET all
  BY <1>1, <1>7, <1>8 DEF Filters
<1>. QED
  BY <1>6, <1>9, FS_Subset

LEMMA QueriesCount ==
  ASSUME FeedTypes, NEW s \in DOMAIN scan, NEW phase
  PROVE  Queries(s, phase) \in Nat
<1>1. PICK F : F = Filters(scan[s].kind, phase) /\ IsFiniteSet(F)
  BY FiltersFinite, ScanFields
<1>2. PICK R : R = BlockRanges(scan[s].from, scan[s].latest)
  OBVIOUS
<1>3. IsFiniteSet(R)
  <2>1. scan[s].from \in Int /\ scan[s].latest \in Int
    BY ScanFields
  <2>2. PICK from, to : from = scan[s].from /\ to = scan[s].latest
    OBVIOUS
  <2>3. PICK S : S = {b \in from..to : (b - from) % (LogSpan + 1) = 0}
    OBVIOUS
  <2>4. IsFiniteSet(from..to) /\ S \in SUBSET (from..to)
    BY <2>1, <2>2, <2>3, FS_Interval
  <2>5. IsFiniteSet(S)
    BY <2>4, FS_Subset
  <2>6. PICK f : f = [b \in S |-> <<b, IF b + LogSpan < to THEN b + LogSpan ELSE to>>]
    OBVIOUS
  <2>7. IsFiniteSet({f[x] : x \in DOMAIN f})
    BY <2>5, <2>6, ImageFinite
  <2>8. R = {f[x] : x \in DOMAIN f}
    BY <1>2, <2>2, <2>3, <2>6 DEF BlockRanges
  <2>. QED
    BY <2>7, <2>8
<1>4. Cardinality(F) \in Nat /\ Cardinality(R) \in Nat
  BY <1>1, <1>3, FS_CardinalityType
<1>5. Queries(s, phase) = Cardinality(F) * Cardinality(R)
  BY <1>1, <1>2 DEF Queries
<1>. QED
  BY <1>4, <1>5

\* A scan goes on and the gate with it; the chain does not change.
LEMMA ScanGoesOn ==
  ASSUME FeedInv, NEW s \in DOMAIN scan, NEW record \in FeedScan, scan' = [scan EXCEPT ![s] = record],
         UNCHANGED <<logs, reqs>>, Gate(waiters', woken', active', Len(scan)),
         record.kind = scan[s].kind, record.from = scan[s].from, record.latest = scan[s].latest,
         record.then = scan[s].then, record.read = scan[s].read,
         record.kind = "requests" /\ record.stage = "shown" =>
           scan[s].stage = "shown" \/ Listed(s) \subseteq DOMAIN scan[s].read,
         record.stage = "records" => scan[s].stage = "records" \/ scan[s].kind = "requests"
  PROVE  FeedInv'
<1>1. FeedTypes /\ scan \in Seq(FeedScan)
  BY DEF FeedInv, FeedTypes
<1>2. /\ scan' \in Seq(FeedScan) /\ Len(scan') = Len(scan) /\ DOMAIN scan' = DOMAIN scan
      /\ scan'[s] = record /\ \A x \in DOMAIN scan : x # s => scan'[x] = scan[x]
  BY <1>1
<1>3. Grown /\ Positions' = Positions /\ \A p \in Positions : LogAt(p)' = LogAt(p)
  BY <1>1, NotGrown
<1>4. ASSUME NEW x \in DOMAIN scan PROVE ScanHolds(x)'
  <2>1. ScanHolds(x)
    BY DEF FeedInv
  <2>2. CASE x = s
    <3>1. /\ scan'[x].kind = scan[x].kind /\ scan'[x].from = scan[x].from /\ scan'[x].latest = scan[x].latest
          /\ scan'[x].then = scan[x].then /\ scan'[x].read = scan[x].read
          /\ scan'[x].kind = "requests" /\ scan'[x].stage = "shown" =>
               scan[x].stage = "shown" \/ Listed(x) \subseteq DOMAIN scan[x].read
          /\ scan'[x].stage = "records" => scan[x].stage = "records" \/ scan[x].kind = "requests"
      BY <1>2, <2>2
    <3>. QED
      BY <1>1, <1>3, <2>1, <3>1, ScanStays
  <2>3. CASE x # s
    <3>1. scan'[x] = scan[x]
      BY <1>2, <2>3
    <3>. QED
      BY <1>1, <1>3, <2>1, <3>1, ScanStays
  <2>. QED
    BY <2>2, <2>3
<1>5. \A p \in Positions' : LogHolds(LogAt(p))'
  <2>1. ASSUME NEW p \in Positions' PROVE LogHolds(LogAt(p))'
    <3>1. LogHolds(LogAt(p)) /\ LogAt(p)' = LogAt(p)
      BY <1>3, <2>1 DEF FeedInv
    <3>. QED
      BY <3>1 DEF LogHolds
  <2>. QED
    BY <2>1
<1>6. FeedTypes'
  BY <1>1, <1>2 DEF FeedTypes
<1>7. GateTypes' /\ NoSlotLost'
  <2>1. Gate(waiters', woken', active', Len(scan'))
    BY <1>2
  <2>2. DOMAIN scan' = 1..Len(scan')
    BY <1>2
  <2>. QED
    BY <2>1, <2>2 DEF GateTypes, NoSlotLost, Gate
<1>. QED
  BY <1>2, <1>4, <1>5, <1>6, <1>7 DEF FeedInv

LEMMA GateNow ==
  ASSUME FeedInv
  PROVE  /\ Gate(waiters, woken, active, Len(scan)) /\ Len(scan) \in Nat
         /\ DOMAIN scan = 1..Len(scan) /\ FeedTypes
<1>1. FeedTypes /\ scan \in Seq(FeedScan)
  BY DEF FeedInv, FeedTypes
<1>. QED
  BY <1>1, GateIs DEF FeedInv

LEMMA NextPhaseKeeps ==
  ASSUME FeedInv, NEW s \in DOMAIN scan, NextPhase(s)
  PROVE  FeedInv'
<1>1. /\ Gate(waiters, woken, active, Len(scan)) /\ Len(scan) \in Nat
      /\ DOMAIN scan = 1..Len(scan) /\ FeedTypes
  BY GateNow
<1>2. scan[s] \in FeedScan /\ scan[s].phase \in Nat /\ scan[s].stage = "next"
  BY <1>1, ScanFields DEF NextPhase
<1>3. PICK phase \in Nat : phase = scan[s].phase + 1
  BY <1>2
<1>4. UNCHANGED <<logs, reqs, woken>>
  BY DEF NextPhase
<1>5. CASE /\ Issue(s, Queries(s, phase))
           /\ scan' = [scan EXCEPT ![s].phase = phase, ![s].stage = "queries",
                                   ![s].toGo = Queries(s, phase)]
  <2>1. PICK q \in Nat : q = Queries(s, phase)
    BY <1>1, QueriesCount
  <2>8. q \in Int
    OBVIOUS
  <2>2. PICK now : now = IF LogSlots - InFlight(active) <= 0 THEN 0
                         ELSE IF q < LogSlots - InFlight(active) THEN q ELSE LogSlots - InFlight(active)
    OBVIOUS
  <2>3. /\ active' = [active EXCEPT ![s] = @ + now]
        /\ waiters' = waiters \o [i \in 1..(q - now) |-> s]
    BY <1>5, <2>1, <2>2 DEF Issue
  <2>4. Gate(waiters', woken', active', Len(scan))
    BY <1>1, <1>4, <2>2, <2>3, IssueGate
  <2>5. PICK record : record = [scan[s] EXCEPT !.phase = phase, !.stage = "queries", !.toGo = q]
    OBVIOUS
  <2>6. /\ record \in FeedScan /\ record.kind = scan[s].kind /\ record.from = scan[s].from
        /\ record.latest = scan[s].latest /\ record.then = scan[s].then /\ record.read = scan[s].read
        /\ record.stage = "queries"
    BY <1>2, <1>3, <2>5, <2>8 DEF FeedScan
  <2>7. scan' = [scan EXCEPT ![s] = record]
    BY <1>5, <2>1, <2>5
  <2>. QED
    BY <1>4, <2>4, <2>6, <2>7, ScanGoesOn
<1>6. CASE /\ scan' = [scan EXCEPT ![s].stage = IF scan[s].kind = "requests" THEN "records" ELSE "shown"]
           /\ UNCHANGED <<waiters, active>>
  <2>1. PICK record : record = [scan[s] EXCEPT !.stage = IF scan[s].kind = "requests" THEN "records" ELSE "shown"]
    OBVIOUS
  <2>2. /\ record \in FeedScan /\ record.kind = scan[s].kind /\ record.from = scan[s].from
        /\ record.latest = scan[s].latest /\ record.then = scan[s].then /\ record.read = scan[s].read
        /\ record.stage = IF scan[s].kind = "requests" THEN "records" ELSE "shown"
    BY <1>2, <2>1 DEF FeedScan
  <2>3. scan' = [scan EXCEPT ![s] = record]
    BY <1>6, <2>1
  <2>4. Gate(waiters', woken', active', Len(scan))
    BY <1>1, <1>4, <1>6
  <2>. QED
    BY <1>4, <2>2, <2>3, <2>4, ScanGoesOn
<1>. QED
  BY <1>3, <1>5, <1>6 DEF NextPhase

LEMMA GoOnKeeps ==
  ASSUME FeedInv, NEW s \in DOMAIN scan, GoOn(s)
  PROVE  FeedInv'
<1>1. /\ Gate(waiters, woken, active, Len(scan)) /\ Len(scan) \in Nat
      /\ DOMAIN scan = 1..Len(scan) /\ FeedTypes
  BY GateNow
<1>2. Gate(waiters', woken', active', Len(scan))
  BY <1>1, GoOnGate DEF GoOn
<1>3. scan[s] \in FeedScan
  BY <1>1, ScanFields
<1>4. scan' = [scan EXCEPT ![s] = scan[s]]
  BY DEF GoOn, FeedInv, FeedTypes
<1>5. /\ UNCHANGED <<logs, reqs>>
      /\ scan[s].kind = "requests" /\ scan[s].stage = "shown" =>
           scan[s].stage = "shown" \/ Listed(s) \subseteq DOMAIN scan[s].read
      /\ scan[s].stage = "records" => scan[s].stage = "records" \/ scan[s].kind = "requests"
  BY DEF GoOn
<1>. QED
  BY <1>2, <1>3, <1>4, <1>5, ScanGoesOn

LEMMA QueryEndsKeeps ==
  ASSUME FeedInv, NEW s \in DOMAIN scan, NEW ok \in BOOLEAN, QueryEnds(s, ok)
  PROVE  FeedInv'
<1>1. /\ Gate(waiters, woken, active, Len(scan)) /\ Len(scan) \in Nat
      /\ DOMAIN scan = 1..Len(scan) /\ FeedTypes
  BY GateNow
<1>2. Gate(waiters', woken', active', Len(scan))
  <2>1. /\ waiters = << >> => Gate(waiters, woken, [active EXCEPT ![s] = @ - 1], Len(scan))
        /\ waiters # << >> => Gate(Tail(waiters), [woken EXCEPT ![Head(waiters)] = @ + 1],
                                   [active EXCEPT ![s] = @ - 1], Len(scan))
    BY <1>1, EndGate DEF QueryEnds
  <2>. QED
    BY <2>1 DEF QueryEnds, WakeNext
<1>3. scan[s] \in FeedScan
  BY <1>1, ScanFields
<1>4. PICK stage : stage = CASE scan[s].stage # "queries" -> scan[s].stage
                             [] ~ok -> "failed"
                             [] scan[s].toGo = 1 -> "next"
                             [] OTHER -> scan[s].stage
  OBVIOUS
<1>5. /\ stage \in {"next", "queries", "records", "failed", "shown"}
      /\ stage \in {"shown", "records"} => scan[s].stage = stage
  <2>1. CASE scan[s].stage # "queries"
    BY <1>3, <1>4, <2>1 DEF FeedScan
  <2>2. CASE scan[s].stage = "queries"
    <3>1. stage \in {"failed", "next", "queries"}
      BY <1>4, <2>2
    <3>. QED
      BY <3>1
  <2>. QED
    BY <2>1, <2>2
<1>9. PICK toGo \in Int : toGo = scan[s].toGo - 1
  BY <1>3 DEF FeedScan
<1>6. PICK record : record = [scan[s] EXCEPT !.toGo = toGo, !.stage = stage]
  OBVIOUS
<1>7. /\ record \in FeedScan /\ record.kind = scan[s].kind /\ record.from = scan[s].from
      /\ record.latest = scan[s].latest /\ record.then = scan[s].then /\ record.read = scan[s].read
      /\ record.stage = stage
  BY <1>3, <1>5, <1>6 DEF FeedScan
<1>10. scan' = [scan EXCEPT ![s].toGo = toGo, ![s].stage = stage]
  BY <1>4, <1>9 DEF QueryEnds
<1>8. scan' = [scan EXCEPT ![s] = record]
  BY <1>1, <1>3, <1>6, <1>10 DEF FeedTypes
<1>11. /\ UNCHANGED <<logs, reqs>>
       /\ record.kind = "requests" /\ record.stage = "shown" =>
            scan[s].stage = "shown" \/ Listed(s) \subseteq DOMAIN scan[s].read
       /\ record.stage = "records" => scan[s].stage = "records" \/ scan[s].kind = "requests"
  BY <1>5, <1>7 DEF QueryEnds
<1>. QED
  BY <1>2, <1>7, <1>8, <1>11, ScanGoesOn

LEMMA NothingListedKeeps ==
  ASSUME FeedInv, NEW s \in DOMAIN scan, NothingListed(s)
  PROVE  FeedInv'
<1>1. /\ Gate(waiters, woken, active, Len(scan)) /\ FeedTypes
  BY GateNow
<1>2. scan[s] \in FeedScan /\ Listed(s) = {}
  BY <1>1, ScanFields DEF NothingListed
<1>3. PICK record : record = [scan[s] EXCEPT !.stage = "shown"]
  OBVIOUS
<1>4. /\ record \in FeedScan /\ record.kind = scan[s].kind /\ record.from = scan[s].from
      /\ record.latest = scan[s].latest /\ record.then = scan[s].then /\ record.read = scan[s].read
      /\ record.stage = "shown"
  BY <1>2, <1>3 DEF FeedScan
<1>5. scan' = [scan EXCEPT ![s] = record] /\ UNCHANGED <<logs, reqs, waiters, woken, active>>
  BY <1>3 DEF NothingListed
<1>6. Gate(waiters', woken', active', Len(scan))
  BY <1>1, <1>5
<1>. QED
  BY <1>2, <1>4, <1>5, <1>6, ScanGoesOn

\* What a request reads as is what the contract has at that moment.
LEMMA StatusIsRead ==
  ASSUME FeedInv, NEW s \in DOMAIN scan, scan[s].kind = "requests", NEW r \in Listed(s)
  PROVE  /\ r \in DOMAIN scan[s].then /\ r \in DOMAIN reqs
         /\ StatusOf(s, r) = reqs[r].status
         /\ scan[s].then[r] \in {"unpaid", reqs[r].status}
<1>1. FeedTypes /\ ScanHolds(s) /\ \A p \in Positions : LogHolds(LogAt(p))
  BY DEF FeedInv
<1>2. PICK p \in Found(s, 1) : r = LogAt(p).req
  BY DEF Listed
<1>3. PICK filter \in Filters("requests", 1) : p \in Paged(filter, s)
  BY <1>2 DEF Found
<1>4. filter[1] = "created"
  BY <1>3 DEF Filters
<1>5. p \in Positions /\ LogAt(p).kind = "created" /\ p[1] \in scan[s].from..scan[s].latest
  BY <1>1, <1>3, <1>4, PagedIsWindow
<1>6. r \in DOMAIN scan[s].then
  <2>1. p[1] <= scan[s].latest
    BY <1>1, <1>5, ScanFields
  <2>. QED
    BY <1>1, <1>2, <1>5, <2>1 DEF ScanHolds
<1>7. r \in DOMAIN reqs /\ scan[s].then[r] \in {"unpaid", reqs[r].status}
  BY <1>1, <1>6 DEF ScanHolds
<1>8. ASSUME NEW event \in {"paid", "cancelled"}, r \in Seen(s, event)
      PROVE  reqs[r].status = event
  <2>1. PICK q \in Found(s, 2) : LogAt(q).kind = event /\ r = LogAt(q).req
    BY <1>8 DEF Seen
  <2>2. q \in Positions
    BY <2>1 DEF Found, Paged
  <2>3. LogHolds(LogAt(q))
    BY <1>1, <2>2
  <2>. QED
    BY <2>1, <2>3 DEF LogHolds
<1>9. StatusOf(s, r) = reqs[r].status
  BY <1>8 DEF StatusOf
<1>. QED
  BY <1>6, <1>7, <1>9

LEMMA ReadingsAre ==
  ASSUME NEW f \in Readings
  PROVE  DOMAIN f \in SUBSET Nat /\ \A x \in DOMAIN f : f[x] \in Status
<1>1. PICK S \in SUBSET Nat : f \in [S -> Status]
  BY DEF Readings
<1>. QED
  BY <1>1

LEMMA OneMoreRead ==
  ASSUME NEW f \in Readings, NEW r \in Nat, NEW status \in Status,
         NEW g, g = [x \in DOMAIN f \cup {r} |-> IF x = r THEN status ELSE f[x]]
  PROVE  /\ g \in Readings /\ DOMAIN g = DOMAIN f \cup {r} /\ g[r] = status
         /\ \A x \in DOMAIN f : x # r => g[x] = f[x]
<1>1. PICK S \in SUBSET Nat : S = DOMAIN f \cup {r} /\ f \in [DOMAIN f -> Status]
  BY ReadingsAre DEF Readings
<1>2. g \in [S -> Status]
  BY <1>1
<1>. QED
  BY <1>1, <1>2 DEF Readings

LEMMA ReadRequestKeeps ==
  ASSUME FeedInv, NEW s \in DOMAIN scan, NEW r \in DOMAIN reqs, ReadRequest(s, r)
  PROVE  FeedInv'
<1>1. FeedTypes /\ GateTypes /\ NoSlotLost /\ ScanHolds(s) /\ scan \in Seq(FeedScan)
  BY DEF FeedInv, FeedTypes
<1>2. /\ scan[s].stage = "records" /\ scan[s].kind = "requests"
      /\ r \in Listed(s) /\ r \notin DOMAIN scan[s].read
  BY <1>1 DEF ReadRequest, ScanHolds
<1>3. /\ r \in DOMAIN scan[s].then /\ StatusOf(s, r) = reqs[r].status
      /\ scan[s].then[r] \in {"unpaid", reqs[r].status}
  BY <1>2, StatusIsRead
<1>4. r \in Nat /\ reqs[r].status \in Status
  <2>1. reqs[r] \in RequestRecord /\ r \in Nat
    BY <1>1, ElementOf DEF FeedTypes
  <2>. QED
    BY <2>1 DEF RequestRecord
<1>5. PICK read : read = [x \in DOMAIN scan[s].read \cup {r} |->
                            IF x = r THEN reqs[r].status ELSE scan[s].read[x]]
  OBVIOUS
<1>6. /\ read \in Readings /\ DOMAIN read = DOMAIN scan[s].read \cup {r} /\ read[r] = reqs[r].status
      /\ \A x \in DOMAIN scan[s].read : x # r => read[x] = scan[s].read[x]
  <2>1. PICK old \in Readings : old = scan[s].read
    BY <1>1, ScanFields
  <2>2. read = [x \in DOMAIN old \cup {r} |-> IF x = r THEN reqs[r].status ELSE old[x]]
    BY <1>5, <2>1
  <2>3. /\ read \in Readings /\ DOMAIN read = DOMAIN old \cup {r} /\ read[r] = reqs[r].status
        /\ \A x \in DOMAIN old : x # r => read[x] = old[x]
    BY <1>4, <2>2, OneMoreRead
  <2>. QED
    BY <2>1, <2>3
<1>7. PICK stage \in {"records", "shown"} : stage = IF DOMAIN read = Listed(s) THEN "shown" ELSE "records"
  OBVIOUS
<1>8. PICK record : record = [scan[s] EXCEPT !.read = read, !.stage = stage]
  OBVIOUS
<1>9. scan[s] \in FeedScan
  BY <1>1, ScanFields
<1>10. /\ record \in FeedScan /\ record.kind = scan[s].kind /\ record.from = scan[s].from
       /\ record.latest = scan[s].latest /\ record.then = scan[s].then /\ record.read = read
       /\ record.stage = stage
  BY <1>6, <1>8, <1>9 DEF FeedScan
<1>11. scan' = [scan EXCEPT ![s].read = read, ![s].stage = stage]
  BY <1>2, <1>3, <1>5, <1>7 DEF ReadRequest
<1>12. scan' = [scan EXCEPT ![s] = record]
  BY <1>1, <1>8, <1>9, <1>11
<1>13. /\ scan' \in Seq(FeedScan) /\ DOMAIN scan' = DOMAIN scan /\ Len(scan') = Len(scan)
       /\ scan'[s] = record /\ \A x \in DOMAIN scan : x # s => scan'[x] = scan[x]
  BY <1>1, <1>10, <1>12
<1>14. UNCHANGED <<logs, reqs, waiters, woken, active>>
  BY DEF ReadRequest
<1>15. Grown /\ Positions' = Positions /\ \A p \in Positions : LogAt(p)' = LogAt(p)
  BY <1>1, <1>14, NotGrown
<1>16. ScanHolds(s)'
  <2>1. Listed(s)' = Listed(s)
    <3>1. scan[s].latest <= Len(logs)
      BY <1>1 DEF ScanHolds
    <3>. QED
      BY <1>1, <1>10, <1>13, <1>15, <3>1, ListedStays
  <2>2. scan'[s].from <= scan'[s].latest /\ scan'[s].latest <= Len(logs')
    BY <1>1, <1>10, <1>13, <1>14 DEF ScanHolds
  <2>3. \A x \in DOMAIN scan'[s].then :
          x \in DOMAIN reqs' /\ scan'[s].then[x] \in {"unpaid", reqs'[x].status}
    BY <1>1, <1>10, <1>13, <1>14 DEF ScanHolds
  <2>4. \A p \in Positions' : p[1] <= scan'[s].latest /\ LogAt(p)'.kind = "created" =>
          LogAt(p)'.req \in DOMAIN scan'[s].then
    BY <1>1, <1>10, <1>13, <1>15 DEF ScanHolds
  <2>5. ASSUME NEW x \in DOMAIN read
        PROVE  /\ x \in DOMAIN scan[s].then
               /\ read[x] = scan[s].then[x] \/ (read[x] = reqs[x].status /\ read[x] # "unpaid")
    <3>1. CASE x = r
      BY <1>3, <1>6, <3>1
    <3>2. CASE x # r
      BY <1>1, <1>6, <3>2 DEF ScanHolds
    <3>. QED
      BY <3>1, <3>2
  <2>6. \A x \in DOMAIN scan'[s].read :
          /\ x \in DOMAIN scan'[s].then
          /\ scan'[s].read[x] = scan'[s].then[x] \/
               (scan'[s].read[x] = reqs'[x].status /\ scan'[s].read[x] # "unpaid")
    BY <1>10, <1>13, <1>14, <2>5
  <2>7. scan'[s].stage = "shown" => Listed(s)' \subseteq DOMAIN scan'[s].read
    BY <1>7, <1>10, <1>13, <2>1
  <2>8. scan'[s].stage = "records" => scan'[s].kind = "requests"
    BY <1>2, <1>10, <1>13
  <2>. QED
    BY <2>2, <2>3, <2>4, <2>6, <2>7, <2>8 DEF ScanHolds
<1>17. ASSUME NEW x \in DOMAIN scan PROVE ScanHolds(x)'
  <2>1. CASE x # s
    <3>1. scan'[x] = scan[x] /\ ScanHolds(x)
      BY <1>13, <2>1 DEF FeedInv
    <3>. QED
      BY <1>1, <1>15, <3>1, ScanStays
  <2>. QED
    BY <1>16, <2>1
<1>18. \A p \in Positions' : LogHolds(LogAt(p))'
  <2>1. ASSUME NEW p \in Positions' PROVE LogHolds(LogAt(p))'
    <3>1. LogHolds(LogAt(p)) /\ LogAt(p)' = LogAt(p)
      BY <1>15, <2>1 DEF FeedInv
    <3>. QED
      BY <1>14, <3>1 DEF LogHolds
  <2>. QED
    BY <2>1
<1>19. FeedTypes' /\ GateTypes' /\ NoSlotLost'
  BY <1>1, <1>13, <1>14 DEF FeedTypes, GateTypes, NoSlotLost
<1>. QED
  BY <1>13, <1>17, <1>18, <1>19 DEF FeedInv

LEMMA StartScanKeeps ==
  ASSUME FeedInv, NEW kind \in {"requests", "batches", "wallet", "global"}, StartScan(kind)
  PROVE  FeedInv'
<1>1. /\ Gate(waiters, woken, active, Len(scan)) /\ Len(scan) \in Nat
      /\ DOMAIN scan = 1..Len(scan) /\ FeedTypes
  BY GateNow
<1>2. PICK window : window = IF kind \in {"requests", "batches"} THEN HistoryWindow ELSE FeedWindow
  OBVIOUS
<1>3. window \in Nat /\ Len(logs) \in Nat
  BY <1>1, <1>2, FeedAssumption DEF FeedAssumption, FeedTypes
<1>4. PICK from \in Nat : from = (IF Len(logs) > window THEN Len(logs) - window ELSE 0) /\ from <= Len(logs)
  <2>1. PICK from : from = IF Len(logs) > window THEN Len(logs) - window ELSE 0
    OBVIOUS
  <2>2. from \in Nat /\ from <= Len(logs)
    BY <1>3, <2>1
  <2>. QED
    BY <2>1, <2>2
<1>5. PICK then : then = [r \in DOMAIN reqs |-> reqs[r].status]
  OBVIOUS
<1>6. then \in Readings /\ DOMAIN then = DOMAIN reqs /\ \A r \in DOMAIN reqs : then[r] = reqs[r].status
  <2>1. PICK S \in SUBSET Nat : S = DOMAIN reqs
    BY <1>1 DEF FeedTypes
  <2>2. \A r \in DOMAIN reqs : reqs[r].status \in Status
    <3>1. ASSUME NEW r \in DOMAIN reqs PROVE reqs[r].status \in Status
      <4>1. reqs[r] \in RequestRecord
        BY <1>1, ElementOf DEF FeedTypes
      <4>. QED
        BY <4>1 DEF RequestRecord
    <3>. QED
      BY <3>1
  <2>3. then \in [S -> Status]
    BY <1>5, <2>1, <2>2
  <2>. QED
    BY <1>5, <2>3 DEF Readings
<1>7. PICK none : none = << >>
  OBVIOUS
<1>8. none \in Readings /\ DOMAIN none = {}
  <2>1. {} \in SUBSET Nat /\ none \in [{} -> Status]
    BY <1>7
  <2>. QED
    BY <1>7, <2>1 DEF Readings
<1>9. PICK record : record = [kind |-> kind, latest |-> Len(logs), phase |-> 0, toGo |-> 0,
                        from |-> from, stage |-> "next", read |-> none, then |-> then]
  OBVIOUS
<1>10. record \in FeedScan
  BY <1>3, <1>6, <1>8, <1>9 DEF FeedScan
<1>11. scan' = Append(scan, record)
  BY <1>2, <1>4, <1>5, <1>7, <1>9 DEF StartScan
<1>12. PICK n \in Nat : n = Len(scan) + 1
  BY <1>1
<1>13. /\ scan' \in Seq(FeedScan) /\ Len(scan') = n /\ DOMAIN scan' = 1..n /\ scan'[n] = record
       /\ DOMAIN scan' = DOMAIN scan \cup {n} /\ \A x \in DOMAIN scan : scan'[x] = scan[x]
  BY <1>1, <1>10, <1>11, <1>12 DEF FeedTypes
<1>14. UNCHANGED <<logs, reqs, waiters>> /\ woken' = Append(woken, 0) /\ active' = Append(active, 0)
  BY DEF StartScan
<1>15. Gate(waiters', woken', active', n)
  BY <1>1, <1>12, <1>14, MoreGate
<1>16. Grown /\ Positions' = Positions /\ \A p \in Positions : LogAt(p)' = LogAt(p)
  BY <1>1, <1>14, NotGrown
<1>17. ScanHolds(n)'
  <2>1. /\ scan'[n].from = from /\ scan'[n].latest = Len(logs) /\ scan'[n].then = then
        /\ scan'[n].read = none /\ scan'[n].stage = "next"
    BY <1>9, <1>13
  <2>2. \A p \in Positions : LogAt(p).kind = "created" => LogAt(p).req \in DOMAIN reqs
    BY DEF FeedInv, LogHolds
  <2>3. \A p \in Positions' : LogAt(p)'.kind = "created" => LogAt(p)'.req \in DOMAIN scan'[n].then
    BY <1>6, <1>16, <2>1, <2>2
  <2>4. \A r \in DOMAIN scan'[n].then :
          r \in DOMAIN reqs' /\ scan'[n].then[r] \in {"unpaid", reqs'[r].status}
    BY <1>6, <1>14, <2>1
  <2>5. scan'[n].from <= scan'[n].latest /\ scan'[n].latest <= Len(logs')
    BY <1>3, <1>4, <1>14, <2>1
  <2>6. DOMAIN scan'[n].read = {}
    BY <1>8, <2>1
  <2>. QED
    BY <2>1, <2>3, <2>4, <2>5, <2>6 DEF ScanHolds
<1>18. ASSUME NEW x \in DOMAIN scan' PROVE ScanHolds(x)'
  <2>1. CASE x \in DOMAIN scan
    <3>1. scan'[x] = scan[x] /\ ScanHolds(x)
      BY <1>13, <2>1 DEF FeedInv
    <3>. QED
      BY <1>1, <1>16, <2>1, <3>1, ScanStays
  <2>. QED
    BY <1>13, <1>17, <2>1
<1>19. \A p \in Positions' : LogHolds(LogAt(p))'
  <2>1. ASSUME NEW p \in Positions' PROVE LogHolds(LogAt(p))'
    <3>1. LogHolds(LogAt(p)) /\ LogAt(p)' = LogAt(p)
      BY <1>16, <2>1 DEF FeedInv
    <3>. QED
      BY <1>14, <3>1 DEF LogHolds
  <2>. QED
    BY <2>1
<1>20. FeedTypes'
  BY <1>1, <1>13, <1>14 DEF FeedTypes
<1>21. GateTypes' /\ NoSlotLost'
  BY <1>13, <1>15 DEF GateTypes, NoSlotLost, Gate
<1>. QED
  BY <1>18, <1>19, <1>20, <1>21 DEF FeedInv

LEMMA FeedStep == FeedInv /\ [FeedNext]_feedVars => FeedInv'
<1>. SUFFICES ASSUME FeedInv, [FeedNext]_feedVars PROVE FeedInv'
  OBVIOUS
<1>1. CASE \E asker \in Address, payer \in Address \cup {Anyone} : RequestCreated(asker, payer)
  BY <1>1, RequestCreatedKeeps
<1>2. CASE \E r \in DOMAIN reqs : RequestCancelled(r) \/ \E payer \in Address : RequestPaid(r, payer)
  BY <1>2, RequestCancelledKeeps, RequestPaidKeeps
<1>3. CASE \E from, to \in Address, batch \in BOOLEAN : Paid(from, to, batch)
  BY <1>3, PaidKeeps
<1>4. CASE \E kind \in {"requests", "batches", "wallet", "global"} : StartScan(kind)
  BY <1>4, StartScanKeeps
<1>5. CASE \E s \in DOMAIN scan :
             \/ NextPhase(s) \/ GoOn(s) \/ NothingListed(s)
             \/ \E ok \in BOOLEAN : QueryEnds(s, ok)
             \/ \E r \in DOMAIN reqs : ReadRequest(s, r)
  <2>1. PICK s \in DOMAIN scan :
             \/ NextPhase(s) \/ GoOn(s) \/ NothingListed(s)
             \/ \E ok \in BOOLEAN : QueryEnds(s, ok)
             \/ \E r \in DOMAIN reqs : ReadRequest(s, r)
    BY <1>5
  <2>2. CASE NextPhase(s)
    BY <2>2, NextPhaseKeeps
  <2>3. CASE GoOn(s)
    BY <2>3, GoOnKeeps
  <2>4. CASE NothingListed(s)
    BY <2>4, NothingListedKeeps
  <2>5. CASE \E ok \in BOOLEAN : QueryEnds(s, ok)
    BY <2>5, QueryEndsKeeps
  <2>6. CASE \E r \in DOMAIN reqs : ReadRequest(s, r)
    BY <2>6, ReadRequestKeeps
  <2>. QED
    BY <2>1, <2>2, <2>3, <2>4, <2>5, <2>6
<1>6. CASE UNCHANGED feedVars
  <2>1. FeedTypes /\ UNCHANGED <<logs, reqs>> /\ UNCHANGED <<scan, waiters, woken, active>>
    BY <1>6 DEF feedVars, FeedInv
  <2>2. Grown /\ Positions' = Positions /\ \A p \in Positions : LogAt(p)' = LogAt(p)
    BY <2>1, NotGrown
  <2>3. \A s \in DOMAIN scan' : ScanHolds(s)'
    BY <2>1, <2>2, ScanStays DEF FeedInv
  <2>4. \A p \in Positions' : LogHolds(LogAt(p))'
    BY <2>1, <2>2 DEF FeedInv, LogHolds
  <2>5. FeedTypes' /\ GateTypes' /\ NoSlotLost'
    BY <2>1 DEF FeedInv, FeedTypes, GateTypes, NoSlotLost
  <2>. QED
    BY <2>3, <2>4, <2>5 DEF FeedInv
<1>. QED
  BY <1>1, <1>2, <1>3, <1>4, <1>5, <1>6 DEF FeedNext

LEMMA FeedInvariant == FeedSpec => []FeedInv
BY FeedInitially, FeedStep, PTL DEF FeedSpec

\* No slot of the gate of log queries is lost (NoSlotLost): withLogQuerySlot in
\* history.ts hands the slot of a query that ends to the first that waits.
THEOREM SlotsAreHandedOn == FeedSpec => []NoSlotLost
<1>1. FeedInv => NoSlotLost
  BY DEF FeedInv
<1>. QED
  BY <1>1, FeedInvariant, PTL

\* A log is one a filter asks for.
Matches(p, filter) == LogAt(p).kind = filter[1] /\ LogAt(p)[filter[2]] \in filter[3]

LEMMA MatchesIs ==
  ASSUME NEW p, NEW e, NEW arg, NEW S
  PROVE  Matches(p, <<e, arg, S>>) <=> LogAt(p).kind = e /\ LogAt(p)[arg] \in S
BY DEF Matches

\* What a phase finds, and that it is all there is in the window.
LEMMA FoundIs ==
  ASSUME FeedTypes, NEW s \in DOMAIN scan, NEW phase, NEW p
  PROVE  p \in Found(s, phase) <=>
           /\ p \in LogsOfWindow(s)
           /\ \E filter \in Filters(scan[s].kind, phase) : Matches(p, filter)
<1>1. \A filter : p \in Paged(filter, s) <=>
         p \in LogsOfWindow(s) /\ Matches(p, filter)
  BY PagedIsWindow DEF LogsOfWindow, Matches
<1>. QED
  BY <1>1 DEF Found

LEMMA LogIs ==
  ASSUME FeedTypes, NEW s, NEW p \in LogsOfWindow(s)
  PROVE  /\ p \in Positions /\ LogAt(p).from \in Address
         /\ LogAt(p).kind \in {"transfer", "created", "paid", "cancelled", "batch"}
<1>1. p \in Positions
  BY DEF LogsOfWindow
<1>2. LogAt(p) \in Log
  BY <1>1, PositionIs
<1>. QED
  BY <1>1, <1>2 DEF Log

LEMMA RequestsAreShown ==
  ASSUME FeedInv, NEW s \in DOMAIN scan, scan[s].stage = "shown", scan[s].kind = "requests",
         NEW p \in LogsOfWindow(s), LogAt(p).kind = "created", Me \in {LogAt(p).from, LogAt(p).to}
  PROVE  /\ LogAt(p).req \in DOMAIN scan[s].read
         /\ scan[s].read[LogAt(p).req] \in {scan[s].then[LogAt(p).req], reqs[LogAt(p).req].status}
<1>1. FeedTypes /\ ScanHolds(s)
  BY DEF FeedInv
<1>2. PICK arg \in {"from", "to"} : LogAt(p)[arg] = Me
  OBVIOUS
<1>3. PICK filter : filter = <<"created", arg, {Me}>>
  OBVIOUS
<1>4. filter \in Filters(scan[s].kind, 1)
  BY <1>3 DEF Filters
<1>5. Matches(p, filter)
  BY <1>2, <1>3, MatchesIs
<1>6. p \in Found(s, 1)
  BY <1>1, <1>4, <1>5, FoundIs
<1>7. LogAt(p).req \in Listed(s)
  BY <1>6 DEF Listed
<1>. QED
  BY <1>1, <1>7 DEF ScanHolds

LEMMA BatchesAreShown ==
  ASSUME FeedTypes, NEW s \in DOMAIN scan, scan[s].kind = "batches"
  PROVE  Found(s, 1) = {p \in LogsOfWindow(s) : LogAt(p).kind = "batch" /\ LogAt(p).from = Me}
<1>1. Filters(scan[s].kind, 1) = {<<"batch", "from", {Me}>>}
  BY DEF Filters
<1>2. \A p : p \in Found(s, 1) <=>
         p \in LogsOfWindow(s) /\ LogAt(p).kind = "batch" /\ LogAt(p).from \in {Me}
  <2>1. ASSUME NEW p
        PROVE  p \in Found(s, 1) <=>
                 p \in LogsOfWindow(s) /\ LogAt(p).kind = "batch" /\ LogAt(p).from \in {Me}
    <3>1. p \in Found(s, 1) <=> p \in LogsOfWindow(s) /\ Matches(p, <<"batch", "from", {Me}>>)
      BY <1>1, FoundIs
    <3>2. Matches(p, <<"batch", "from", {Me}>>) <=> LogAt(p).kind = "batch" /\ LogAt(p)["from"] \in {Me}
      BY MatchesIs
    <3>. QED
      BY <3>1, <3>2
  <2>. QED
    BY <2>1
<1>. QED
  BY <1>2

LEMMA WalletFilters ==
  ASSUME NEW filter
  PROVE  /\ filter \in Filters("wallet", 1) <=>
              \E arg \in {"from", "to"}, a \in Tracked : filter = <<"transfer", arg, {a}>>
         /\ filter \in Filters("wallet", 2) <=>
              \/ \E e \in {"batch", "created", "paid"}, a \in Tracked : filter = <<e, "from", {a}>>
              \/ \E a \in Tracked : filter = <<"created", "to", {a}>>
<1>1. filter \in Filters("wallet", 1) <=>
        \E arg \in {"from", "to"}, a \in Tracked : filter = <<"transfer", arg, {a}>>
  BY DEF Filters
<1>2. filter \in Filters("wallet", 2) <=>
        \/ \E e \in {"batch", "created", "paid"}, a \in Tracked : filter = <<e, "from", {a}>>
        \/ \E a \in Tracked : filter = <<"created", "to", {a}>>
  BY DEF Filters
<1>. QED
  BY <1>1, <1>2

LEMMA ItemsAreAll ==
  ASSUME FeedTypes, NEW s \in DOMAIN scan, scan[s].kind \in {"wallet", "global"}
  PROVE  Items(s) = {p \in LogsOfWindow(s) : Belongs(s, p)}
<1>1. ASSUME NEW p PROVE p \in Items(s) <=> p \in LogsOfWindow(s) /\ Belongs(s, p)
  <2>1. p \in Items(s) <=> p \in Found(s, 1) \/ p \in Found(s, 2)
    BY DEF Items
  <2>2. CASE scan[s].kind = "global"
    <3>1. /\ Filters(scan[s].kind, 1) = {<<e, "from", Address>> : e \in {"created", "paid", "batch"}}
          /\ Filters(scan[s].kind, 2) = {}
      BY <2>2 DEF Filters
    <3>2. p \notin Found(s, 2)
      BY <3>1, FoundIs
    <3>3. p \in Found(s, 1) <=>
             /\ p \in LogsOfWindow(s)
             /\ LogAt(p).kind \in {"created", "paid", "batch"} /\ LogAt(p).from \in Address
      <4>1. p \in Found(s, 1) <=>
               /\ p \in LogsOfWindow(s)
               /\ \E e \in {"created", "paid", "batch"} : Matches(p, <<e, "from", Address>>)
        <5>1. PICK F : F = Filters(scan[s].kind, 1)
          OBVIOUS
        <5>2. p \in Found(s, 1) <=> p \in LogsOfWindow(s) /\ \E filter \in F : Matches(p, filter)
          BY <5>1, FoundIs
        <5>. QED
          BY <3>1, <5>1, <5>2
      <4>2. \A e : Matches(p, <<e, "from", Address>>) <=> LogAt(p).kind = e /\ LogAt(p)["from"] \in Address
        BY MatchesIs
      <4>. QED
        BY <4>1, <4>2
    <3>4. Belongs(s, p) <=> LogAt(p).kind \in {"created", "paid", "batch"}
      BY <2>2 DEF Belongs
    <3>. QED
      BY <2>1, <3>2, <3>3, <3>4, LogIs
  <2>3. CASE scan[s].kind = "wallet"
    <3>2. p \in Found(s, 1) <=>
             /\ p \in LogsOfWindow(s)
             /\ \E arg \in {"from", "to"}, a \in Tracked :
                  LogAt(p).kind = "transfer" /\ LogAt(p)[arg] \in {a}
      <4>1. p \in Found(s, 1) <=>
               /\ p \in LogsOfWindow(s)
               /\ \E arg \in {"from", "to"}, a \in Tracked : Matches(p, <<"transfer", arg, {a}>>)
        <5>1. p \in Found(s, 1) <=>
                p \in LogsOfWindow(s) /\ \E filter \in Filters("wallet", 1) : Matches(p, filter)
          BY <2>3, FoundIs
        <5>2. ASSUME NEW filter \in Filters("wallet", 1), Matches(p, filter)
              PROVE  \E arg \in {"from", "to"}, a \in Tracked : Matches(p, <<"transfer", arg, {a}>>)
          <6>1. PICK arg \in {"from", "to"}, a \in Tracked : filter = <<"transfer", arg, {a}>>
            BY WalletFilters
          <6>. QED
            BY <5>2, <6>1
        <5>3. ASSUME NEW arg \in {"from", "to"}, NEW a \in Tracked, Matches(p, <<"transfer", arg, {a}>>)
              PROVE  \E filter \in Filters("wallet", 1) : Matches(p, filter)
          <6>1. PICK filter : filter = <<"transfer", arg, {a}>>
            OBVIOUS
          <6>2. filter \in Filters("wallet", 1)
            BY <6>1, WalletFilters
          <6>. QED
            BY <5>3, <6>1, <6>2
        <5>. QED
          BY <5>1, <5>2, <5>3
      <4>2. \A arg, a : Matches(p, <<"transfer", arg, {a}>>) <=> LogAt(p).kind = "transfer" /\ LogAt(p)[arg] \in {a}
        BY MatchesIs
      <4>. QED
        BY <4>1, <4>2
    <3>3. p \in Found(s, 2) <=>
             /\ p \in LogsOfWindow(s)
             /\ \/ \E e \in {"batch", "created", "paid"}, a \in Tracked :
                     LogAt(p).kind = e /\ LogAt(p).from \in {a}
                \/ \E a \in Tracked : LogAt(p).kind = "created" /\ LogAt(p).to \in {a}
      <4>1. p \in Found(s, 2) <=>
               /\ p \in LogsOfWindow(s)
               /\ \/ \E e \in {"batch", "created", "paid"}, a \in Tracked : Matches(p, <<e, "from", {a}>>)
                  \/ \E a \in Tracked : Matches(p, <<"created", "to", {a}>>)
        <5>1. p \in Found(s, 2) <=>
                p \in LogsOfWindow(s) /\ \E filter \in Filters("wallet", 2) : Matches(p, filter)
          BY <2>3, FoundIs
        <5>2. ASSUME NEW filter \in Filters("wallet", 2), Matches(p, filter)
              PROVE  \/ \E e \in {"batch", "created", "paid"}, a \in Tracked : Matches(p, <<e, "from", {a}>>)
                     \/ \E a \in Tracked : Matches(p, <<"created", "to", {a}>>)
          <6>1. CASE \E e \in {"batch", "created", "paid"}, a \in Tracked : filter = <<e, "from", {a}>>
            <7>1. PICK e \in {"batch", "created", "paid"}, a \in Tracked : filter = <<e, "from", {a}>>
              BY <6>1
            <7>. QED
              BY <5>2, <7>1
          <6>2. CASE \E a \in Tracked : filter = <<"created", "to", {a}>>
            <7>1. PICK a \in Tracked : filter = <<"created", "to", {a}>>
              BY <6>2
            <7>. QED
              BY <5>2, <7>1
          <6>. QED
            BY <6>1, <6>2, WalletFilters
        <5>3. ASSUME NEW e \in {"batch", "created", "paid"}, NEW a \in Tracked, Matches(p, <<e, "from", {a}>>)
              PROVE  \E filter \in Filters("wallet", 2) : Matches(p, filter)
          <6>1. PICK filter : filter = <<e, "from", {a}>>
            OBVIOUS
          <6>2. filter \in Filters("wallet", 2)
            BY <6>1, WalletFilters
          <6>. QED
            BY <5>3, <6>1, <6>2
        <5>4. ASSUME NEW a \in Tracked, Matches(p, <<"created", "to", {a}>>)
              PROVE  \E filter \in Filters("wallet", 2) : Matches(p, filter)
          <6>1. PICK filter : filter = <<"created", "to", {a}>>
            OBVIOUS
          <6>2. filter \in Filters("wallet", 2)
            BY <6>1, WalletFilters
          <6>. QED
            BY <5>4, <6>1, <6>2
        <5>. QED
          BY <5>1, <5>2, <5>3, <5>4
      <4>2. \A e, a : Matches(p, <<e, "from", {a}>>) <=> LogAt(p).kind = e /\ LogAt(p)["from"] \in {a}
        BY MatchesIs
      <4>3. \A a : Matches(p, <<"created", "to", {a}>>) <=> LogAt(p).kind = "created" /\ LogAt(p)["to"] \in {a}
        BY MatchesIs
      <4>. QED
        BY <4>1, <4>2, <4>3
    <3>4. Belongs(s, p) <=>
            \/ LogAt(p).kind = "transfer" /\ {LogAt(p).from, LogAt(p).to} \cap Tracked # {}
            \/ LogAt(p).kind = "created" /\ {LogAt(p).from, LogAt(p).to} \cap Tracked # {}
            \/ LogAt(p).kind \in {"batch", "paid"} /\ LogAt(p).from \in Tracked
      BY <2>3 DEF Belongs
    <3>. QED
      BY <2>1, <3>2, <3>3, <3>4
  <2>. QED
    BY <2>2, <2>3
<1>. QED
  BY <1>1
-----------------------------------------------------------------------------
(* The feed *)

\* The place of a log from the newest: a newer one has a lower one.
Age(p) == 4 * (Len(logs) - p[1]) + Rank(p)

LEMMA AgeOrders ==
  ASSUME FeedTypes, NEW p \in Positions, NEW q \in Positions
  PROVE  Age(p) \in Nat /\ (Newer(p, q) => Age(p) < Age(q))
<1>1. /\ p[1] \in Nat /\ p[1] <= Len(logs) /\ q[1] \in Nat /\ q[1] <= Len(logs) /\ Len(logs) \in Nat
  BY PositionIs DEF FeedTypes
<1>2. Rank(p) \in 0..3 /\ Rank(q) \in 0..3
  BY DEF Rank
<1>3. PICK n, a, b, i, j :
        n = Len(logs) /\ a = p[1] /\ b = q[1] /\ i = Rank(p) /\ j = Rank(q)
  OBVIOUS
<1>4. /\ n \in Nat /\ a \in Nat /\ b \in Nat /\ i \in 0..3 /\ j \in 0..3
      /\ a <= n /\ b <= n
  BY <1>1, <1>2, <1>3
<1>5. 4 * (n - a) + i \in Nat
  BY <1>4
<1>6. a > b \/ (a = b /\ i < j) => 4 * (n - a) + i < 4 * (n - b) + j
  BY <1>4
<1>7. Age(p) = 4 * (n - a) + i /\ Age(q) = 4 * (n - b) + j
  BY <1>3 DEF Age
<1>8. Newer(p, q) <=> a > b \/ (a = b /\ i < j)
  BY <1>3 DEF Newer
<1>. QED
  BY <1>5, <1>6, <1>7, <1>8

LEMMA OldestFirst ==
  ASSUME FeedTypes, NEW B \in SUBSET Positions, B # {}
  PROVE  \E q \in B : \A x \in B : ~ Newer(x, q)
<1>1. PICK T \in SUBSET Nat : T = {Age(q) : q \in B} /\ T # {}
  <2>1. PICK T : T = {Age(q) : q \in B}
    OBVIOUS
  <2>2. \A q \in B : Age(q) \in Nat
    BY AgeOrders
  <2>. QED
    BY <2>1, <2>2
<1>2. IsWellFoundedOn(OpToRel(<, Nat), Nat)
  BY NatLessThanWellFounded
<1>3. PICK n \in T : \A m \in T : ~ (<<m, n>> \in OpToRel(<, Nat))
  BY <1>1, <1>2, WFMin
<1>4. PICK q \in B : Age(q) = n
  BY <1>1
<1>5. ASSUME NEW x \in B, Newer(x, q) PROVE FALSE
  <2>1. Age(x) < n /\ Age(x) \in T /\ Age(x) \in Nat /\ n \in Nat
    BY <1>1, <1>4, <1>5, AgeOrders
  <2>2. <<Age(x), n>> \in OpToRel(<, Nat)
    BY <2>1 DEF OpToRel
  <2>. QED
    BY <1>3, <2>1, <2>2
<1>. QED
  BY <1>5

LEMMA PositionsFinite ==
  ASSUME FeedTypes, NEW A \in SUBSET Positions
  PROVE  IsFiniteSet(A) /\ Cardinality(A) \in Nat
<1>1. Len(logs) \in Int /\ 1 \in Int /\ 2 \in Int
  BY DEF FeedTypes
<1>2. IsFiniteSet(1..Len(logs)) /\ IsFiniteSet(1..2)
  BY <1>1, FS_Interval
<1>3. IsFiniteSet((1..Len(logs)) \X (1..2))
  BY <1>2, FS_Product
<1>4. A \in SUBSET ((1..Len(logs)) \X (1..2))
  BY DEF Positions
<1>5. IsFiniteSet(A)
  BY <1>3, <1>4, FS_Subset
<1>. QED
  BY <1>5, FS_CardinalityType

\* The newest of some logs, as getWalletFeed and getGlobalFeed slice them.
LEMMA NewestAreTaken ==
  ASSUME FeedTypes, NEW A \in SUBSET Positions,
         NEW F, F = {p \in A : Cardinality({q \in A : Newer(q, p)}) < FeedSize}
  PROVE  /\ Cardinality(F) >= IF Cardinality(A) < FeedSize THEN Cardinality(A) ELSE FeedSize
         /\ \A p \in F, q \in A \ F : p[1] >= q[1]
<1>1. FeedSize \in Nat
  BY FeedAssumption DEF FeedAssumption
<1>2. IsFiniteSet(F) /\ Cardinality(F) \in Nat /\ Cardinality(A) \in Nat
  <2>1. F \in SUBSET Positions
    OBVIOUS
  <2>. QED
    BY <2>1, PositionsFinite
<1>3. ASSUME NEW q \in A
      PROVE  /\ {x \in A : Newer(x, q)} \in SUBSET Positions
             /\ IsFiniteSet({x \in A : Newer(x, q)}) /\ Cardinality({x \in A : Newer(x, q)}) \in Nat
  <2>1. {x \in A : Newer(x, q)} \in SUBSET Positions
    OBVIOUS
  <2>. QED
    BY <2>1, PositionsFinite
<1>4. Cardinality(F) >= IF Cardinality(A) < FeedSize THEN Cardinality(A) ELSE FeedSize
  <2>1. CASE A \ F = {}
    <3>1. Cardinality(F) = Cardinality(A)
      <4>1. F = A
        BY <2>1
      <4>. QED
        BY <4>1
    <3>. QED
      BY <1>1, <1>2, <3>1
  <2>2. CASE A \ F # {}
    <3>1. PICK q \in A \ F : \A x \in A \ F : ~ Newer(x, q)
      BY <2>2, OldestFirst
    <3>2. PICK N : N = {x \in A : Newer(x, q)} /\ Cardinality(N) \in Nat
      BY <1>3
    <3>3. ~ (Cardinality(N) < FeedSize)
      BY <3>1, <3>2
    <3>4. N \in SUBSET F
      BY <3>1, <3>2
    <3>5. Cardinality(N) <= Cardinality(F)
      BY <1>2, <3>4, FS_Subset
    <3>6. Cardinality(F) >= FeedSize
      BY <1>1, <1>2, <3>2, <3>3, <3>5
    <3>7. CASE Cardinality(A) < FeedSize
      BY <1>1, <1>2, <3>6, <3>7
    <3>8. CASE ~ (Cardinality(A) < FeedSize)
      BY <3>6, <3>8
    <3>. QED
      BY <3>7, <3>8
  <2>. QED
    BY <2>1, <2>2
<1>5. ASSUME NEW p \in F, NEW q \in A \ F, ~ (p[1] >= q[1])
      PROVE  FALSE
  <2>1. p[1] \in Nat /\ q[1] \in Nat /\ \A x \in A : x[1] \in Nat
    BY PositionIs
  <2>2. PICK N : N = {x \in A : Newer(x, p)} /\ IsFiniteSet(N) /\ Cardinality(N) \in Nat
    BY <1>3
  <2>3. PICK M : M = {x \in A : Newer(x, q)} /\ Cardinality(M) \in Nat
    BY <1>3
  <2>4. M \in SUBSET N
    BY <1>5, <2>1, <2>2, <2>3 DEF Newer
  <2>5. Cardinality(M) <= Cardinality(N)
    BY <2>2, <2>4, FS_Subset
  <2>6. Cardinality(N) < FeedSize
    BY <2>2
  <2>7. Cardinality(M) < FeedSize
    BY <1>1, <2>2, <2>3, <2>5, <2>6
  <2>. QED
    BY <2>3, <2>7
<1>. QED
  BY <1>4, <1>5

LEMMA ShownIsWhole == FeedInv => ShownScanIsWhole
<1>. SUFFICES ASSUME FeedInv, NEW s \in DOMAIN scan, scan[s].stage = "shown"
              PROVE  CASE scan[s].kind = "requests" ->
                            \A p \in LogsOfWindow(s) :
                              LogAt(p).kind = "created" /\ Me \in {LogAt(p).from, LogAt(p).to} =>
                                LET r == LogAt(p).req IN
                                /\ r \in DOMAIN scan[s].read
                                /\ scan[s].read[r] \in {scan[s].then[r], reqs[r].status}
                       [] scan[s].kind = "batches" ->
                            Found(s, 1) = {p \in LogsOfWindow(s) : LogAt(p).kind = "batch" /\ LogAt(p).from = Me}
                       [] OTHER ->
                            LET all == {p \in LogsOfWindow(s) : Belongs(s, p)} IN
                            /\ Feed(s) \subseteq all
                            /\ Cardinality(Feed(s)) >= IF Cardinality(all) < FeedSize THEN Cardinality(all) ELSE FeedSize
                            /\ \A p \in Feed(s), q \in all \ Feed(s) : p[1] >= q[1]
  BY DEF ShownScanIsWhole
<1>1. FeedTypes
  BY DEF FeedInv
<1>2. scan[s].kind \in {"requests", "batches", "wallet", "global"}
  BY <1>1, ScanFields
<1>3. CASE scan[s].kind = "requests"
  BY <1>3, RequestsAreShown
<1>4. CASE scan[s].kind = "batches"
  BY <1>1, <1>4, BatchesAreShown
<1>5. CASE scan[s].kind \in {"wallet", "global"}
  <2>1. PICK all : all = {p \in LogsOfWindow(s) : Belongs(s, p)}
    OBVIOUS
  <2>2. Items(s) = all
    BY <1>1, <1>5, <2>1, ItemsAreAll
  <2>3. all \in SUBSET Positions
    BY <2>1 DEF LogsOfWindow
  <2>4. PICK F : F = {p \in all : Cardinality({q \in all : Newer(q, p)}) < FeedSize}
    OBVIOUS
  <2>5. Feed(s) = F
    BY <2>2, <2>4 DEF Feed
  <2>6. /\ Cardinality(F) >= IF Cardinality(all) < FeedSize THEN Cardinality(all) ELSE FeedSize
        /\ \A p \in F, q \in all \ F : p[1] >= q[1]
    BY <1>1, <2>3, <2>4, NewestAreTaken
  <2>7. F \subseteq all
    BY <2>4
  <2>. QED
    BY <1>5, <2>1, <2>5, <2>6, <2>7
<1>. QED
  BY <1>2, <1>3, <1>4, <1>5

\* A scan that is shown has read its window whole (ShownScanIsWhole): the pages
\* of blockRanges leave no block out, what was read of a request it had then or
\* since, and the feed is the newest of what belongs in it.
THEOREM ScansAreWhole == FeedSpec => []ShownScanIsWhole
BY ShownIsWhole, FeedInvariant, PTL
-----------------------------------------------------------------------------
CommandRecord ==
  [said : Sayable, parsed : Sayable, stage : {"resolve", "over"},
   legs : UNION {[D -> Owner \cup {Unowned}] : D \in SUBSET Nick},
   owners : [Nick -> SUBSET (Owner \cup {Unowned})]]

\* A command was read as it was meant, and each recipient that was resolved has an
\* address that its name has had since; what is shown has all of them.
CommandFaithful(c) ==
  /\ commands[c].parsed = commands[c].said
  /\ \A n \in Nick : ownerOf[n] \in commands[c].owners[n]
  /\ \A n \in DOMAIN commands[c].legs : commands[c].legs[n] \in commands[c].owners[n]
  /\ commands[c].stage = "over" => DOMAIN commands[c].legs = Inputs(c)

\* The form that is open, if one is.
OpenForm ==
  form # << >> =>
    \E f : /\ form = <<f>> /\ f.command \in DOMAIN commands
           /\ commands[f.command].said.kind # "payment_link"
           /\ DOMAIN f.rows = DOMAIN commands[f.command].said.orders

CommandsInv ==
  /\ ownerOf \in [Nick -> Owner \cup {Unowned}]
  /\ commands \in Seq(CommandRecord)
  /\ result \in {0} \cup DOMAIN commands
  /\ OpenForm
  /\ \A c \in DOMAIN commands : CommandFaithful(c)
  /\ result # 0 => commands[result].stage = "over"

LEMMA SayableOrders ==
  ASSUME NEW s \in Sayable
  PROVE  /\ s.orders \in Seq([to : Nick \cup {""}, amount : Numeral])
         /\ s.kind # "payment_link" => \A k \in DOMAIN s.orders : s.orders[k].to \in Nick
<1> DEFINE Entry == [to : Nick \cup {""}, amount : Numeral]
<1>1. \/ s.orders \in Orders(1) \cup Orders(2)
      \/ s.kind = "payment_link" /\ s.orders \in [1..1 -> [to : {""}, amount : Numeral]]
  BY DEF Sayable, MeantWith
<1>2. CASE s.orders \in Orders(1) \cup Orders(2)
  <2>1. PICK n \in {1, 2} : s.orders \in [1..n -> [to : Nick, amount : Numeral]]
    BY <1>2 DEF Orders
  <2>2. \A k \in DOMAIN s.orders : s.orders[k] \in [to : Nick, amount : Numeral]
    BY <2>1
  <2>3. s.orders \in [1..n -> Entry]
    BY <2>1
  <2>4. s.orders \in Seq(Entry)
    <3> HIDE DEF Entry
    <3> QED
      BY <2>3
  <2> QED
    BY <2>2, <2>4
<1>3. CASE s.kind = "payment_link" /\ s.orders \in [1..1 -> [to : {""}, amount : Numeral]]
  <2>1. s.orders \in [1..1 -> Entry]
    BY <1>3
  <2>2. s.orders \in Seq(Entry)
    <3> HIDE DEF Entry
    <3> QED
      BY <2>1, SeqDef
  <2> QED
    BY <1>3, <2>2
<1> QED
  BY <1>1, <1>2, <1>3

LEMMA CommandsInitially == CommandInit => CommandsInv /\ FormIsWhatWasSaid
BY DEF CommandInit, CommandsInv, OpenForm, FormIsWhatWasSaid

\* A step that only adds to what the names were keeps the form that is open.
LEMMA OpenFormStays ==
  ASSUME CommandsInv, FormIsWhatWasSaid, form' = form,
         DOMAIN commands \subseteq DOMAIN commands',
         \A c \in DOMAIN commands :
           /\ commands'[c].said = commands[c].said
           /\ \A n \in Nick : commands[c].owners[n] \subseteq commands'[c].owners[n]
  PROVE  OpenForm' /\ FormIsWhatWasSaid'
<1> SUFFICES ASSUME form # << >>
             PROVE  OpenForm' /\ FormIsWhatWasSaid'
  BY DEF FormIsWhatWasSaid, OpenForm
<1>1. PICK f : /\ form = <<f>> /\ f.command \in DOMAIN commands
               /\ commands[f.command].said.kind # "payment_link"
               /\ DOMAIN f.rows = DOMAIN commands[f.command].said.orders
  BY DEF CommandsInv, OpenForm
<1> DEFINE said == commands[f.command].said
           owners == commands[f.command].owners
<1>2. form[1] = f /\ form'[1] = f
  BY <1>1
<1>3. commands[f.command] \in CommandRecord
  BY <1>1, ElementOfSeq DEF CommandsInv
<1>4. /\ f.rail = said.kind /\ f.memo = said.memo /\ f.period = said.period
      /\ f.startAt = said.startAt
      /\ f.runs = IF said.kind = "subscription" /\ said.runs = "" THEN "12" ELSE said.runs
      /\ Len(f.rows) = Len(said.orders)
      /\ \A k \in DOMAIN f.rows :
           /\ f.rows[k].amount = said.orders[k].amount
           /\ f.rows[k].to \in owners[said.orders[k].to] \ {Unowned}
  BY <1>2 DEF FormIsWhatWasSaid
<1>5. /\ said.orders \in Seq([to : Nick \cup {""}, amount : Numeral])
      /\ \A k \in DOMAIN said.orders : said.orders[k].to \in Nick
  <2>1. said \in Sayable /\ said.kind # "payment_link"
    BY <1>1, <1>3 DEF CommandRecord
  <2> QED
    BY <2>1, SayableOrders
<1>6. ASSUME NEW k \in DOMAIN f.rows
      PROVE  f.rows[k].to \in commands'[f.command].owners[said.orders[k].to]
  BY <1>1, <1>4, <1>5, <1>6 
<1>7. commands'[f.command].said = said
  BY <1>1
<1>8. OpenForm'
  BY <1>1, <1>7 DEF OpenForm
<1> HIDE DEF said, owners
<1> QED
  BY <1>2, <1>4, <1>6, <1>7, <1>8, ZenonT(30) DEF FormIsWhatWasSaid

LEMMA CommandSaid ==
  ASSUME CommandsInv, FormIsWhatWasSaid, EachFormIsRead, NEW s \in Sayable, Say(s)
  PROVE  CommandsInv' /\ FormIsWhatWasSaid'
<1>0. PICK money \in BOOLEAN : \E t \in Written(s, money) :
        commands' = Append(commands, [said |-> s, parsed |-> Parse(t), legs |-> << >>, stage |-> "resolve",
                                      owners |-> [n \in Nick |-> {ownerOf[n]}]])
  BY DEF Say
<1>1. PICK t \in Written(s, money) :
        commands' = Append(commands, [said |-> s, parsed |-> Parse(t), legs |-> << >>, stage |-> "resolve",
                                      owners |-> [n \in Nick |-> {ownerOf[n]}]])
  BY <1>0
<1> DEFINE new == [said |-> s, parsed |-> s, legs |-> << >>, stage |-> "resolve",
                   owners |-> [n \in Nick |-> {ownerOf[n]}]]
<1>2. commands' = Append(commands, new)
  <2>1. Parse(t) = s
    BY DEF EachFormIsRead
  <2> QED
    BY <1>1, <2>1
<1>3. new \in CommandRecord
  <2>1. << >> \in [{} -> Owner \cup {Unowned}]
    OBVIOUS
  <2>2. << >> \in UNION {[D -> Owner \cup {Unowned}] : D \in SUBSET Nick}
    BY <2>1
  <2>3. [n \in Nick |-> {ownerOf[n]}] \in [Nick -> SUBSET (Owner \cup {Unowned})]
    BY DEF CommandsInv
  <2> QED
    BY <2>2, <2>3 DEF CommandRecord
<1>4. /\ commands' \in Seq(CommandRecord)
      /\ DOMAIN commands' = DOMAIN commands \cup {Len(commands) + 1}
      /\ \A c \in DOMAIN commands : commands'[c] = commands[c]
      /\ commands'[Len(commands) + 1] = new
  <2> HIDE DEF new
  <2> QED
    BY <1>2, <1>3 DEF CommandsInv
<1>5. UNCHANGED <<ownerOf, form>> /\ result' = 0
  BY DEF Say
<1>6. ASSUME NEW c \in DOMAIN commands'
      PROVE  CommandFaithful(c)'
  <2>1. CASE c \in DOMAIN commands
    <3>1. CommandFaithful(c) /\ commands'[c] = commands[c]
      BY <1>4, <2>1 DEF CommandsInv
    <3> HIDE DEF new
    <3> QED
      BY <1>5, <3>1 DEF CommandFaithful, Inputs
  <2>2. CASE c = Len(commands) + 1
    <3>1. commands'[c] = new
      BY <1>4, <2>2
    <3> QED
      BY <1>5, <3>1 DEF CommandFaithful
  <2> QED
    BY <1>4, <2>1, <2>2
<1>7. OpenForm' /\ FormIsWhatWasSaid'
  BY <1>4, <1>5, OpenFormStays
<1>8. CommandsInv'
  <2> HIDE DEF new
  <2> QED
    BY <1>4, <1>5, <1>6, <1>7 DEF CommandsInv
<1> QED
  BY <1>7, <1>8

LEMMA LegResolved ==
  ASSUME CommandsInv, FormIsWhatWasSaid, NEW c \in DOMAIN commands, NEW n \in Inputs(c), ResolveLeg(c, n)
  PROVE  CommandsInv' /\ FormIsWhatWasSaid'
<1>1. /\ commands[c] \in CommandRecord
      /\ CommandFaithful(c)
      /\ commands \in Seq(CommandRecord)
  BY ElementOfSeq DEF CommandsInv
<1>2. n \in Nick
  <2>1. PICK k \in DOMAIN commands[c].parsed.orders : n = commands[c].parsed.orders[k].to
    BY DEF Inputs
  <2>2. commands[c].parsed \in Sayable /\ commands[c].parsed.kind # "payment_link"
    BY <1>1 DEF Inputs, CommandRecord
  <2> QED
    BY <2>1, <2>2, SayableOrders
<1> DEFINE old == commands[c].legs
           legs == [x \in DOMAIN old \cup {n} |-> IF x # n THEN old[x] ELSE ownerOf[n]]
           new == [commands[c] EXCEPT !.legs = legs]
<1>3. commands' = [commands EXCEPT ![c] = new]
  BY <1>2 DEF ResolveLeg
<1>4. new \in CommandRecord
  <2>1. PICK D \in SUBSET Nick : old \in [D -> Owner \cup {Unowned}]
    BY <1>1 DEF CommandRecord
  <2>2. ownerOf[n] \in Owner \cup {Unowned}
    BY <1>2 DEF CommandsInv
  <2>3. legs \in [D \cup {n} -> Owner \cup {Unowned}]
    BY <2>1, <2>2
  <2>4. legs \in UNION {[E -> Owner \cup {Unowned}] : E \in SUBSET Nick}
    <3>1. D \cup {n} \in SUBSET Nick
      BY <1>2
    <3> HIDE DEF legs
    <3> QED
      BY <2>3, <3>1
  <2> HIDE DEF legs
  <2> QED
    BY <1>1, <2>4 DEF CommandRecord
<1>5. /\ commands' \in Seq(CommandRecord)
      /\ DOMAIN commands' = DOMAIN commands
      /\ \A d \in DOMAIN commands \ {c} : commands'[d] = commands[d]
      /\ commands'[c] = new
  <2> HIDE DEF new
  <2> QED
    BY <1>1, <1>3, <1>4, ExceptSeq
<1>6. /\ new.said = commands[c].said /\ new.parsed = commands[c].parsed /\ new.legs = legs
      /\ new.owners = commands[c].owners /\ new.stage = "resolve"
  BY <1>1 DEF CommandRecord, ResolveLeg
<1>7. UNCHANGED <<ownerOf, result, form>> /\ commands[c].stage = "resolve"
  BY DEF ResolveLeg
<1>8. ASSUME NEW d \in DOMAIN commands'
      PROVE  CommandFaithful(d)'
  <2>1. CASE d = c
    <3>1. \A x \in DOMAIN legs : legs[x] \in commands[c].owners[x]
      BY <1>1, <1>2 DEF CommandFaithful
    <3> HIDE DEF new, legs
    <3> QED
      BY <1>1, <1>5, <1>6, <1>7, <2>1, <3>1 DEF CommandFaithful
  <2>2. CASE d # c
    <3>1. CommandFaithful(d) /\ commands'[d] = commands[d]
      BY <1>5, <2>2 DEF CommandsInv
    <3> QED
      BY <1>7, <3>1 DEF CommandFaithful, Inputs
  <2> QED
    BY <2>1, <2>2
<1> HIDE DEF new, legs, old
<1>9. \A d \in DOMAIN commands :
        /\ commands'[d].said = commands[d].said
        /\ commands'[d].owners = commands[d].owners
        /\ d # c => commands'[d].stage = commands[d].stage
  BY <1>5, <1>6
<1>10. OpenForm' /\ FormIsWhatWasSaid'
  <2>1. form' = form /\ DOMAIN commands \subseteq DOMAIN commands'
    BY <1>5, <1>7
  <2>2. \A d \in DOMAIN commands :
          /\ commands'[d].said = commands[d].said
          /\ \A x \in Nick : commands[d].owners[x] \subseteq commands'[d].owners[x]
    BY <1>9
  <2> QED
    BY <2>1, <2>2, OpenFormStays
<1>11. result # 0 => commands'[result].stage = "over"
  <2>1. result \in {0} \cup DOMAIN commands /\ (result # 0 => commands[result].stage = "over")
    BY DEF CommandsInv
  <2>2. result # 0 => result # c
    BY <1>7, <2>1
  <2> QED
    BY <1>9, <2>1, <2>2
<1>12. CommandsInv'
  BY <1>5, <1>7, <1>8, <1>10, <1>11 DEF CommandsInv
<1> QED
  BY <1>10, <1>12

LEMMA ResultShown ==
  ASSUME CommandsInv, FormIsWhatWasSaid, NEW c \in DOMAIN commands, ShowResult(c)
  PROVE  CommandsInv' /\ FormIsWhatWasSaid'
<1>1. /\ commands[c] \in CommandRecord
      /\ CommandFaithful(c)
      /\ commands \in Seq(CommandRecord)
  BY ElementOfSeq DEF CommandsInv
<1> DEFINE new == [commands[c] EXCEPT !.stage = "over"]
<1>2. new \in CommandRecord
  BY <1>1 DEF CommandRecord
<1>3. commands' = [commands EXCEPT ![c] = new]
  BY DEF ShowResult
<1>4. /\ commands' \in Seq(CommandRecord)
      /\ DOMAIN commands' = DOMAIN commands
      /\ \A d \in DOMAIN commands \ {c} : commands'[d] = commands[d]
      /\ commands'[c] = new
  <2> HIDE DEF new
  <2> QED
    BY <1>1, <1>2, <1>3, ExceptSeq
<1>5. /\ new.said = commands[c].said /\ new.parsed = commands[c].parsed
      /\ new.legs = commands[c].legs /\ new.owners = commands[c].owners /\ new.stage = "over"
  BY <1>1 DEF CommandRecord
<1>6. UNCHANGED <<ownerOf, form>> /\ result' = c /\ DOMAIN commands[c].legs = Inputs(c)
  BY DEF ShowResult
<1> HIDE DEF new
<1>7. ASSUME NEW d \in DOMAIN commands'
      PROVE  CommandFaithful(d)'
  <2>1. CASE d = c
    <3>1. Inputs(c)' = Inputs(c)
      BY <1>4, <1>5 DEF Inputs
    <3>2. \A n \in Nick : ownerOf'[n] \in commands'[c].owners[n]
      BY <1>1, <1>4, <1>5, <1>6 DEF CommandFaithful
    <3>3. \A n \in DOMAIN commands'[c].legs : commands'[c].legs[n] \in commands'[c].owners[n]
      BY <1>1, <1>4, <1>5 DEF CommandFaithful
    <3>4. commands'[c].parsed = commands'[c].said
      BY <1>1, <1>4, <1>5 DEF CommandFaithful
    <3>5. DOMAIN commands'[c].legs = Inputs(c)'
      BY <1>4, <1>5, <1>6, <3>1
    <3> QED
      BY <2>1, <3>2, <3>3, <3>4, <3>5 DEF CommandFaithful
  <2>2. CASE d # c
    <3>1. CommandFaithful(d) /\ commands'[d] = commands[d]
      BY <1>4, <2>2 DEF CommandsInv
    <3> QED
      BY <1>6, <3>1 DEF CommandFaithful, Inputs
  <2> QED
    BY <2>1, <2>2
<1>8. \A d \in DOMAIN commands :
        /\ commands'[d].said = commands[d].said
        /\ commands'[d].owners = commands[d].owners
  BY <1>4, <1>5
<1>9. OpenForm' /\ FormIsWhatWasSaid'
  BY <1>4, <1>6, <1>8, OpenFormStays
<1>10. CommandsInv'
  BY <1>4, <1>5, <1>6, <1>7, <1>9 DEF CommandsInv
<1> QED
  BY <1>9, <1>10

LEMMA OwnerChanged ==
  ASSUME CommandsInv, FormIsWhatWasSaid, NEW n \in Nick, NEW a \in Owner \cup {Unowned},
         ChangeOwner(n, a)
  PROVE  CommandsInv' /\ FormIsWhatWasSaid'
<1> DEFINE New(c) == [commands[c] EXCEPT !.owners[n] = @ \cup {a}]
<1>1. /\ commands' = [c \in DOMAIN commands |-> New(c)]
      /\ ownerOf' = [ownerOf EXCEPT ![n] = a]
      /\ UNCHANGED <<result, form>>
  BY DEF ChangeOwner
<1>2. commands \in Seq(CommandRecord) /\ ownerOf \in [Nick -> Owner \cup {Unowned}]
  BY DEF CommandsInv
<1>3. ASSUME NEW c \in DOMAIN commands
      PROVE  /\ New(c) \in CommandRecord
             /\ New(c).said = commands[c].said /\ New(c).parsed = commands[c].parsed
             /\ New(c).legs = commands[c].legs /\ New(c).stage = commands[c].stage
             /\ \A x \in Nick : commands[c].owners[x] \subseteq New(c).owners[x]
             /\ a \in New(c).owners[n]
  <2>1. commands[c] \in CommandRecord
    BY <1>2, ElementOfSeq
  <2> QED
    BY <2>1 DEF CommandRecord
<1> HIDE DEF New
<1>4. /\ commands' \in Seq(CommandRecord) /\ DOMAIN commands' = DOMAIN commands
      /\ \A c \in DOMAIN commands : commands'[c] = New(c)
  <2>1. Len(commands) \in Nat /\ DOMAIN commands = 1..Len(commands)
    BY <1>2
  <2>2. commands' \in [1..Len(commands) -> CommandRecord]
    BY <1>1, <1>3, <2>1
  <2> QED
    BY <1>1, <2>1, <2>2, SeqDef
<1>5. ownerOf' \in [Nick -> Owner \cup {Unowned}]
  BY <1>1, <1>2
<1>6. ASSUME NEW c \in DOMAIN commands'
      PROVE  CommandFaithful(c)'
  <2>1. c \in DOMAIN commands /\ CommandFaithful(c) /\ commands[c] \in CommandRecord
    BY <1>2, <1>4, ElementOfSeq DEF CommandsInv
  <2>2. \A x \in Nick : ownerOf'[x] \in commands'[c].owners[x]
    BY <1>1, <1>2, <1>3, <1>4, <2>1 DEF CommandFaithful
  <2>3. \A x \in DOMAIN commands'[c].legs : commands'[c].legs[x] \in commands'[c].owners[x]
    BY <1>3, <1>4, <2>1 DEF CommandFaithful, CommandRecord
  <2>4. commands'[c].parsed = commands'[c].said
    BY <1>3, <1>4, <2>1 DEF CommandFaithful
  <2>5. commands'[c].stage = "over" => DOMAIN commands'[c].legs = Inputs(c)'
    <3>1. /\ commands'[c].stage = commands[c].stage /\ commands'[c].legs = commands[c].legs
          /\ commands'[c].parsed = commands[c].parsed
      BY <1>3, <1>4, <2>1
    <3>2. Inputs(c)' = Inputs(c)
      BY <3>1 DEF Inputs
    <3> QED
      BY <2>1, <3>1, <3>2 DEF CommandFaithful
  <2> QED
    BY <2>2, <2>3, <2>4, <2>5 DEF CommandFaithful
<1>7. OpenForm' /\ FormIsWhatWasSaid'
  BY <1>1, <1>3, <1>4, OpenFormStays
<1>8. result' # 0 => commands'[result'].stage = "over"
  BY <1>1, <1>3, <1>4 DEF CommandsInv
<1>9. CommandsInv'
  BY <1>1, <1>4, <1>5, <1>6, <1>7, <1>8 DEF CommandsInv
<1> QED
  BY <1>7, <1>9

LEMMA RailOpened ==
  ASSUME CommandsInv, OpenRail
  PROVE  CommandsInv' /\ FormIsWhatWasSaid'
<1> DEFINE c == result
           said == commands[c].said
<1>1. /\ c \in DOMAIN commands /\ commands[c] \in CommandRecord /\ CommandFaithful(c)
      /\ commands[c].stage = "over"
  BY ElementOfSeq DEF CommandsInv, OpenRail
<1>2. /\ commands[c].parsed = said
      /\ DOMAIN commands[c].legs = Inputs(c)
      /\ \A n \in Inputs(c) : commands[c].legs[n] \in commands[c].owners[n] \ {Unowned}
  BY <1>1 DEF CommandFaithful, OpenRail, Blocked
<1>3. /\ said.kind # "payment_link" /\ said \in Sayable
      /\ form' = <<FormOf(c)>>
      /\ UNCHANGED <<ownerOf, commands, result>>
  BY <1>1, <1>2 DEF OpenRail, CommandRecord
<1>4. said.orders \in Seq([to : Nick \cup {""}, amount : Numeral])
  BY <1>3, SayableOrders
<1> DEFINE rows == [k \in DOMAIN said.orders |-> Order(LegTarget(c, said.orders[k].to), said.orders[k].amount)]
           f == FormOf(c)
<1>5. /\ f.rail = said.kind /\ f.command = c /\ f.memo = said.memo /\ f.period = said.period
      /\ f.startAt = said.startAt /\ f.runs = (IF said.kind = "subscription" /\ said.runs = "" THEN "12" ELSE said.runs)
      /\ f.rows = rows
  BY <1>2 DEF FormOf, FormRows, PaymentsShown
<1>6. Len(rows) = Len(said.orders) /\ DOMAIN rows = DOMAIN said.orders
  <2>1. PICK S : said.orders \in Seq(S)
    BY <1>4
  <2> DEFINE to(k) == Order(LegTarget(c, said.orders[k].to), said.orders[k].amount)
  <2>2. rows = [k \in DOMAIN said.orders |-> to(k)]
    OBVIOUS
  <2> HIDE DEF said, rows, to
  <2>3. DOMAIN said.orders = 1..Len(said.orders) /\ Len(said.orders) \in Nat
    BY <2>1
  <2>4. DOMAIN rows = 1..Len(said.orders) /\ rows \in Seq({to(k) : k \in DOMAIN said.orders})
    BY <2>2, <2>3, SeqDef
  <2> QED
    BY <2>3, <2>4
<1>7. ASSUME NEW k \in DOMAIN rows
      PROVE  /\ rows[k].amount = said.orders[k].amount
             /\ rows[k].to \in commands[c].owners[said.orders[k].to] \ {Unowned}
  <2>1. said.orders[k].to \in Inputs(c)
    BY <1>2, <1>3 DEF Inputs
  <2>2. rows[k] = [to |-> commands[c].legs[said.orders[k].to], amount |-> said.orders[k].amount]
    BY <1>2, <2>1 DEF Order, LegTarget
  <2> HIDE DEF rows
  <2> QED
    BY <1>2, <2>1, <2>2, SMTT(30)
<1> HIDE DEF rows, f, said
<1>8. form' = <<f>> /\ form' # << >> /\ form'[1] = f
  BY <1>3 DEF f
<1>9. commands'[f.command].said = said
  BY <1>3, <1>5 DEF said
<1>10. FormIsWhatWasSaid'
  BY <1>3, <1>5, <1>6, <1>7, <1>8, <1>9 DEF FormIsWhatWasSaid
<1>11. OpenForm'
  BY <1>1, <1>3, <1>5, <1>6, <1>8, <1>9 DEF OpenForm
<1>12. \A d \in DOMAIN commands' : CommandFaithful(d)'
  BY <1>3 DEF CommandsInv, CommandFaithful, Inputs
<1> QED
  BY <1>3, <1>10, <1>11, <1>12 DEF CommandsInv

(***************************************************************************)
(* If each form is read as it was meant, then the form that a command      *)
(* opens is what was said: however the resolutions of several commands and *)
(* the changes of the names interleave (agentCommands.ts:46-159,           *)
(* AgentCommands.tsx:29-165).                                              *)
(***************************************************************************)
THEOREM OpensWhatWasSaid == EachFormIsRead => (CommandSpec => []FormIsWhatWasSaid)
<1> SUFFICES ASSUME EachFormIsRead
             PROVE  CommandSpec => []FormIsWhatWasSaid
  OBVIOUS
<1>1. ASSUME CommandsInv /\ FormIsWhatWasSaid, [CommandNext]_commandVars
      PROVE  (CommandsInv /\ FormIsWhatWasSaid)'
  <2>1. ASSUME NEW s \in Sayable, Say(s)
        PROVE  CommandsInv' /\ FormIsWhatWasSaid'
    BY <1>1, <2>1, CommandSaid
  <2>2. ASSUME NEW c \in DOMAIN commands, ShowResult(c)
        PROVE  CommandsInv' /\ FormIsWhatWasSaid'
    BY <1>1, <2>2, ResultShown
  <2>3. ASSUME NEW c \in DOMAIN commands, NEW n \in Inputs(c), ResolveLeg(c, n)
        PROVE  CommandsInv' /\ FormIsWhatWasSaid'
    BY <1>1, <2>3, LegResolved
  <2>4. CASE OpenRail
    BY <1>1, <2>4, RailOpened
  <2>5. ASSUME NEW n \in Nick, NEW a \in Owner \cup {Unowned}, ChangeOwner(n, a)
        PROVE  CommandsInv' /\ FormIsWhatWasSaid'
    BY <1>1, <2>5, OwnerChanged
  <2>6. CASE UNCHANGED commandVars
    <3>1. \A c \in DOMAIN commands' : CommandFaithful(c)'
      BY <1>1, <2>6 DEF commandVars, CommandsInv, CommandFaithful, Inputs
    <3> QED
      BY <1>1, <2>6, <3>1 DEF commandVars, CommandsInv, OpenForm, FormIsWhatWasSaid
  <2> QED
    BY <1>1, <2>1, <2>2, <2>3, <2>4, <2>5, <2>6 DEF CommandNext, PlanNext
<1>2. CommandInit => CommandsInv /\ FormIsWhatWasSaid
  BY CommandsInitially
<1> QED
  BY <1>1, <1>2, PTL DEF CommandSpec
================================================================================
