-------------------------------- MODULE SendFlow --------------------------------
(***************************************************************************)
(* The send page of the app (Send.tsx) with the SDK's two ways to resolve  *)
(* a recipient: the page previews with resolveDetailed, which may use a    *)
(* configured resolver and falls back to a username, and the payment is    *)
(* built with resolve, which does neither.  The payment is reconciled in   *)
(* the background; a request, when the page was opened for one, is paid    *)
(* while the page waits.                                                   *)
(***************************************************************************)
EXTENDS Integers, Sequences, FiniteSets

CONSTANTS
  Person,        \* addresses
  NoOne,         \* the zero address, null
  Name,          \* names, each as "name", "name.qie" or both
  NoInput,       \* the empty field
  MaxSends,      \* bound on operations
  MaxEdits,      \* bound on what is typed
  MaxRenames,    \* bound on changes of what names stand for
  MaxFaults      \* bound on reads that fail

ASSUME SendAssumption ==
  /\ NoOne \notin Person
  /\ {MaxSends, MaxEdits, MaxRenames, MaxFaults} \subseteq Nat

Service == {"username", "registry", "resolver"}
Input == ({"address"} \X Person) \cup ({"domain", "bare"} \X Name)

VARIABLES
  names,         \* what each name service has: service -> name -> person
  domainConfig,  \* which domain services are configured
  requestor,     \* who made the request the page was opened for, or NoOne
  requestPaid,   \* the request contract has it paid
  page,          \* state of the component
  ops,           \* operations accepted by the bundler, with the wait for each
  issued,        \* receipts: [op, payee]
  disturbed,     \* history: typing went on during a lookup, a name changed or a
                 \* read failed
  edits, renames, readFaults

nameVars == <<names, domainConfig>>
sendVars == <<nameVars, requestor, requestPaid, page, ops, issued, disturbed,
              edits, renames, readFaults>>

\* resolvedAddr survives everything but the next preview; result and receipt
\* name the operation they are of.
Blank == [step |-> "form", to |-> NoInput, looking |-> NoInput, shown |-> NoOne,
          result |-> 0, receipt |-> 0]

SendInit ==
  /\ names \in [Service -> [Name -> Person \cup {NoOne}]]
  /\ domainConfig \in SUBSET {"registry", "resolver"}
  /\ requestor \in Person \cup {NoOne}
  /\ requestPaid = FALSE
  /\ page = Blank
  /\ ops = << >>
  /\ issued = {}
  /\ disturbed = FALSE
  /\ edits = 0
  /\ renames = 0
  /\ readFaults = 0

\* A lookup in a service that cannot be read gives nothing.
Ask(s, n, failing) == IF s \in failing THEN NoOne ELSE names[s][n]

\* deriveQieDomainConfig and createResolverAdapter: a resolver wins over the
\* registry.
Adapter == IF "resolver" \in domainConfig THEN {"resolver"} ELSE domainConfig

FirstOf(answers) == IF \A i \in DOMAIN answers : answers[i] = NoOne THEN NoOne
  ELSE answers[CHOOSE i \in DOMAIN answers :
         answers[i] # NoOne /\ \A j \in 1..(i - 1) : answers[j] = NoOne]

ResolveUsernameFirst(input, failing) ==
  CASE input[1] = "address" -> input[2]
    [] input[1] = "domain" ->
         FirstOf(<<Ask("username", input[2], failing),
                   IF Adapter = {} THEN NoOne
                   ELSE Ask(CHOOSE s \in Adapter : TRUE, input[2], failing)>>)
    [] input[1] = "bare" -> Ask("username", input[2], failing)

\* resolveRecipientDetailed: the adapter, then the username of the bare name.
ResolveDetailed(input, failing) ==
  CASE input[1] = "address" -> input[2]
    [] input[1] = "domain" ->
         FirstOf(<<IF Adapter = {} THEN NoOne
                   ELSE Ask(CHOOSE s \in Adapter : TRUE, input[2], failing),
                   Ask("username", input[2], failing)>>)
    [] input[1] = "bare" -> Ask("username", input[2], failing)

\* resolveRecipient, behind client.resolve: the registry or nothing.
Resolve(input, failing) ==
  CASE input[1] = "address" -> input[2]
    [] input[1] = "domain" ->
         IF "registry" \in domainConfig THEN Ask("registry", input[2], failing) ELSE NoOne
    [] input[1] = "bare" -> Ask("username", input[2], failing)

\* The reads that fail in a step.
Failing(failing) ==
  /\ readFaults + Cardinality(failing) <= MaxFaults
  /\ readFaults' = readFaults + Cardinality(failing)
  /\ disturbed' = (disturbed \/ failing # {})

Rename ==
  /\ renames < MaxRenames
  /\ \E s \in Service, n \in Name, p \in Person \cup {NoOne} :
       names' = [names EXCEPT ![s] = [@ EXCEPT ![n] = p]]
  /\ renames' = renames + 1
  /\ disturbed' = TRUE
  /\ UNCHANGED <<domainConfig, requestor, requestPaid, page, ops, issued, edits, readFaults>>
-----------------------------------------------------------------------------
\* The effect that loads the request.
LoadRequest ==
  /\ requestor # NoOne
  /\ page.shown = NoOne
  /\ page' = [page EXCEPT !.shown = requestor, !.to = <<"address", requestor>>]
  /\ UNCHANGED <<nameVars, requestor, requestPaid, ops, issued, disturbed, edits, renames, readFaults>>

\* The field can be edited while a lookup is on its way.
Type(input) ==
  /\ page.step = "form"
  /\ edits < MaxEdits
  /\ edits' = edits + 1
  /\ page' = [page EXCEPT !.to = input]
  /\ disturbed' = (disturbed \/ page.looking # NoInput)
  /\ UNCHANGED <<nameVars, requestor, requestPaid, ops, issued, renames, readFaults>>

\* handlePreview.  For a request there is nothing to look up.
Preview ==
  /\ page.step = "form"
  /\ page.looking = NoInput
  /\ IF requestor # NoOne
     THEN page.shown # NoOne /\ page' = [page EXCEPT !.step = "confirm"]
     ELSE page.to # NoInput /\ page' = [page EXCEPT !.looking = page.to]
  /\ UNCHANGED <<nameVars, requestor, requestPaid, ops, issued, disturbed, edits, renames, readFaults>>

PreviewAnswers ==
  /\ page.looking # NoInput
  /\ \E failing \in SUBSET Service :
       /\ Failing(failing)
       /\ LET found == ResolveDetailed(page.looking, failing) IN
          page' = IF found = NoOne THEN [page EXCEPT !.looking = NoInput]
                  ELSE [page EXCEPT !.looking = NoInput, !.step = "confirm", !.shown = found]
  /\ UNCHANGED <<nameVars, requestor, requestPaid, ops, issued, edits, renames>>

BackToForm ==
  /\ page.step = "confirm"
  /\ page' = [page EXCEPT !.step = "form"]
  /\ UNCHANGED <<nameVars, requestor, requestPaid, ops, issued, disturbed, edits, renames, readFaults>>

\* handleSend up to its first await.
Approve ==
  /\ page.step = "confirm"
  /\ Len(ops) < MaxSends
  /\ page' = [page EXCEPT !.step = "sending", !.result = 0]
  /\ UNCHANGED <<nameVars, requestor, requestPaid, ops, issued, disturbed, edits, renames, readFaults>>

\* No operation of this page is being sent and awaited by the page itself.
NotAwaited == \A o \in DOMAIN ops : ~(ops[o].request /\ ops[o].wait = "waiting")

NewOp(to) == [to |-> to, shown |-> page.shown, request |-> requestor # NoOne,
              status |-> "pool", wait |-> "waiting"]

\* Gas parameters, the recipient again, and the bundler, which may refuse.  The
\* page is done with a payment that is accepted, and waits for a request's.
SubmitPayment ==
  /\ page.step = "sending"
  /\ NotAwaited
  /\ \E failing \in SUBSET Service :
       /\ requestor # NoOne \/ page.to = NoInput => failing = {}
       /\ Failing(failing)
       /\ LET to == IF requestor # NoOne THEN requestor
                    ELSE IF page.to = NoInput THEN NoOne ELSE Resolve(page.to, failing) IN
          \/ /\ to # NoOne
             /\ ops' = Append(ops, NewOp(to))
             /\ page' = IF requestor # NoOne THEN page ELSE [page EXCEPT !.step = "done"]
          \/ page' = [page EXCEPT !.step = "confirm"] /\ UNCHANGED ops
  /\ UNCHANGED <<nameVars, requestor, requestPaid, issued, edits, renames>>
-----------------------------------------------------------------------------
\* The bundler has the operation executed, where it may revert, or drops it; a
\* request is paid once.
Settled(o) ==
  /\ ops[o].status = "pool"
  /\ \E status \in {"mined", "reverted", "dropped"} :
       /\ ops[o].request /\ requestPaid => status # "mined"
       /\ ops' = [ops EXCEPT ![o].status = status]
       /\ requestPaid' = (requestPaid \/ (ops[o].request /\ status = "mined"))
  /\ UNCHANGED <<nameVars, requestor, page, issued, disturbed, edits, renames, readFaults>>

\* The page after a wait that ended well or not; the result is put on the page
\* whatever it shows by then.
After(o, mined) ==
  IF ops[o].request THEN [page EXCEPT !.step = "done", !.result = o]
  ELSE IF mined THEN [page EXCEPT !.result = o] ELSE page

\* waitForUserOp: the receipt of an operation that was executed, or "failed"
\* when the polls are used up, which may be before it is.
WaitEnds(o) ==
  /\ ops[o].wait = "waiting"
  /\ \/ /\ ops[o].status = "mined"
        /\ ops' = [ops EXCEPT ![o].wait = "receipt"]
        /\ page' = After(o, TRUE)
     \/ /\ ops' = [ops EXCEPT ![o].wait = "over"]
        /\ page' = After(o, FALSE)
  /\ UNCHANGED <<nameVars, requestor, requestPaid, issued, disturbed, edits, renames, readFaults>>

\* createReceipt, which may fail.
ReceiptAnswers(o) ==
  /\ ops[o].wait = "receipt"
  /\ ops' = [ops EXCEPT ![o].wait = "over"]
  /\ \/ /\ issued' = issued \cup {[op |-> o, payee |-> ops[o].shown]}
        /\ page' = [page EXCEPT !.receipt = o]
     \/ UNCHANGED <<issued, page>>
  /\ UNCHANGED <<nameVars, requestor, requestPaid, disturbed, edits, renames, readFaults>>

SendAnother ==
  /\ page.step = "done"
  /\ edits < MaxEdits
  /\ page' = [Blank EXCEPT !.shown = page.shown]
  /\ UNCHANGED <<nameVars, requestor, requestPaid, ops, issued, disturbed, edits, renames, readFaults>>

SendNext ==
  \/ Rename
  \/ LoadRequest
  \/ \E input \in Input : Type(input)
  \/ Preview
  \/ PreviewAnswers
  \/ BackToForm
  \/ Approve
  \/ SubmitPayment
  \/ \E o \in DOMAIN ops : Settled(o) \/ WaitEnds(o) \/ ReceiptAnswers(o)
  \/ SendAnother

SendSpec == SendInit /\ [][SendNext]_sendVars
-----------------------------------------------------------------------------
(***************************************************************************)
(* What README.md says of manual payments: the address a payment goes to   *)
(* was shown before it was approved.                                       *)
(***************************************************************************)
ShownIsPaid == \A o \in DOMAIN ops : ops[o].to = ops[o].shown

(***************************************************************************)
(* The two resolutions agree, and the address shown is paid, when no       *)
(* resolver overrides the registry and nothing changed under the page: no  *)
(* typing during a lookup, no name that changed, no read that failed.      *)
(***************************************************************************)
ShownIsPaidUndisturbed == "resolver" \in domainConfig \/ disturbed \/ ShownIsPaid

(***************************************************************************)
(* A receipt is issued only for a payment that was mined, once, however    *)
(* the page has moved on, though an operation may be mined after its wait  *)
(* was over.                                                               *)
(***************************************************************************)
SendReceiptsBacked ==
  /\ \A r \in issued : ops[r.op].status = "mined"
  /\ \A r, s \in issued : r.op = s.op => r = s

\* The page shows what it pays and issues receipts for what it has paid.
SendTellsTheTruth == ShownIsPaidUndisturbed /\ SendReceiptsBacked
=============================================================================
