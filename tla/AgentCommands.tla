------------------------------ MODULE AgentCommands ------------------------------
(***************************************************************************)
(* From an instruction to a form (parser.ts, agentCommands.ts,             *)
(* AgentCommands.tsx): a sentence is parsed, the names in it are resolved, *)
(* each at its own moment, and the plan links to the page of a rail, which *)
(* fills its form from the link.  A sentence is a sequence of words; what  *)
(* the regular expressions tell apart is kept: where an amount stands,     *)
(* where a recipient, which keywords.                                      *)
(***************************************************************************)
EXTENDS Integers, Sequences, FiniteSets, SequencesExt

CONSTANTS
  Numeral,        \* words that are amounts
  Nick,           \* words that are recipients; a username may be a numeral
  Owner,          \* addresses
  Unowned,        \* a name without an address
  Day,            \* names of weekdays
  Word,           \* what memos are made of
  MaxCommands, MaxNameChanges    \* bounds

ASSUME CommandAssumption ==
  /\ Unowned \notin Owner
  /\ {MaxCommands, MaxNameChanges} \subseteq Nat

VARIABLES
  ownerOf,        \* what a name resolves to
  commands,       \* runs of buildAgentCommand: [said, parsed, legs, stage, owners]
  result,         \* the run whose result the page shows, 0 for none
  form,           \* the form of the rail that was opened, << >> for none
  nameChanges

commandVars == <<ownerOf, commands, result, form, nameChanges>>

CommandInit ==
  /\ ownerOf \in [Nick -> Owner]
  /\ commands = << >>
  /\ result = 0
  /\ form = << >>
  /\ nameChanges = 0
-----------------------------------------------------------------------------
Order(to, amount) == [to |-> to, amount |-> amount]

\* An intent of the parser; a field that its kind has not is empty.
Intent(kind, orders, memo) ==
  [kind |-> kind, orders |-> orders, memo |-> memo, period |-> "", runs |-> "", startAt |-> ""]

Clarification == Intent("clarification", << >>, << >>)

Is(t, i, words) == i \in DOMAIN t /\ t[i] \in words
IsRecipient(t, i) == i \in DOMAIN t /\ t[i] # ","
RestFrom(t, i) == SubSeq(t, i, Len(t))

\* Behind the amount at i, which may be followed by its currency.
PastAmount(t, i) == IF Is(t, i + 1, {"QUSDC"}) THEN i + 2 ELSE i + 1

LeastOf(S) == CHOOSE i \in S : \A j \in S : i <= j

MemoAt(t, i) == IF Is(t, i, {"for"}) THEN RestFrom(t, i + 1) ELSE << >>

\* A leading "pay", "send" or "to" of a clause.
Clause(t) == IF Is(t, 1, {"pay", "send", "to"}) THEN Tail(t) ELSE t

AmountToRecipient(c) ==
  LET i == PastAmount(c, 1) IN
  IF Is(c, 1, Numeral) /\ Is(c, i, {"to"}) /\ IsRecipient(c, i + 1)
    THEN <<Order(c[i + 1], c[1])>> ELSE << >>

RecipientAmount(c) ==
  IF IsRecipient(c, 1) /\ Is(c, 2, Numeral) THEN <<Order(c[1], c[2])>> ELSE << >>

AmountRecipient(c) ==
  LET i == PastAmount(c, 1) IN
  IF Is(c, 1, Numeral) /\ IsRecipient(c, i) THEN <<Order(c[i], c[1])>> ELSE << >>

FirstMade(attempts) ==
  LET made == SelectSeq(attempts, LAMBDA a : a # << >>) IN IF made = << >> THEN << >> ELSE made[1]

ParsePair(t) ==
  LET c == Clause(t) IN
  FirstMade(<<AmountToRecipient(c), RecipientAmount(c), AmountRecipient(c)>>)

\* The clauses between commas and "and".
Clauses(t) ==
  LET breaks == {0, Len(t) + 1} \cup {i \in DOMAIN t : t[i] \in {",", "and"}}
      starts == SetToSortSeq(breaks \ {Len(t) + 1}, <) IN
  [k \in DOMAIN starts |-> SubSeq(t, starts[k] + 1, LeastOf({b \in breaks : b > starts[k]}) - 1)]

ExtractPairs(t) ==
  LET unbatched == IF Is(t, 1, {"batch"}) /\ Is(t, 2, {"pay", "send"}) THEN Tail(t) ELSE t
      stripped == IF Is(unbatched, 1, {"pay", "send"}) THEN Tail(unbatched) ELSE unbatched IN
  FlattenSeq([k \in DOMAIN Clauses(stripped) |-> ParsePair(Clauses(stripped)[k])])

RequestAt(t) ==
  {i \in DOMAIN t : /\ t[i] = "request" /\ Is(t, i + 1, Numeral)
                    /\ Is(t, PastAmount(t, i + 1), {"from"})
                    /\ IsRecipient(t, PastAmount(t, i + 1) + 1)}

LinkAt(t) ==
  {i \in DOMAIN t : t[i] = "payment" /\ Is(t, i + 1, {"link"}) /\ Is(t, i + 2, {"for"})
                      /\ Is(t, i + 3, Numeral)}

\* "pay <recipient> <amount> ... every <word>": the start and the place of "every".
RecurringAt(t) ==
  {p \in (DOMAIN t) \X (DOMAIN t) :
     /\ t[p[1]] \in {"pay", "send"} /\ IsRecipient(t, p[1] + 1) /\ Is(t, p[1] + 2, Numeral)
     /\ p[2] > p[1] + 2 /\ t[p[2]] = "every" /\ p[2] < Len(t)}

ToPeriod(w) ==
  IF w \in {"day", "daily"} THEN "day"
  ELSE IF w \in {"week", "weekly"} \cup Day THEN "week"
  ELSE IF w \in {"month", "monthly"} THEN "month" ELSE ""

\* "for <n> <unit>": the unit is not looked at any further.
RunsOf(t) ==
  LET at == {i \in DOMAIN t : t[i] = "for" /\ Is(t, i + 1, Numeral)
                                /\ Is(t, i + 2, {"days", "weeks", "months", "times"})} IN
  IF at = {} THEN "" ELSE t[LeastOf(at) + 1]

Recurring(t) ==
  LET p == CHOOSE p \in RecurringAt(t) : \A q \in RecurringAt(t) : p[1] < q[1] \/ (p[1] = q[1] /\ p[2] <= q[2])
      every == t[p[2] + 1] IN
  IF ToPeriod(every) = "" THEN Clarification
  ELSE [Intent("subscription", <<Order(t[p[1] + 1], t[p[1] + 2])>>, << >>) EXCEPT
          !.period = ToPeriod(every), !.runs = RunsOf(t),
          !.startAt = IF every \in Day THEN every ELSE ""]

HasEach(t) == \E i \in DOMAIN t : t[i] \in Numeral /\ Is(t, PastAmount(t, i), {"each"})
Has(t, w) == \E i \in DOMAIN t : t[i] = w

PayOrSend(t) ==
  LET pairs == ExtractPairs(t)
      one == IF pairs # << >> THEN <<pairs[1]>> ELSE ParsePair(t)
      memo == IF Has(t, "for") THEN MemoAt(t, LeastOf({i \in DOMAIN t : t[i] = "for"})) ELSE << >> IN
  IF Len(pairs) >= 2 THEN Intent("batch", pairs, << >>)
  ELSE IF Has(t, "batch") \/ HasEach(t) THEN Clarification
  ELSE IF (Has(t, "pay") \/ Has(t, "send") \/ pairs # << >>) /\ one # << >> THEN Intent("send", one, memo)
  ELSE Clarification

\* parseAgentCommand
Parse(t) ==
  CASE RequestAt(t) # {} ->
         LET i == LeastOf(RequestAt(t)) + 1
             from == PastAmount(t, i) + 1 IN
         Intent("payment_request", <<Order(t[from], t[i])>>, MemoAt(t, from + 1))
    [] RequestAt(t) = {} /\ LinkAt(t) # {} ->
         LET i == LeastOf(LinkAt(t)) + 3 IN
         Intent("payment_link", <<Order("", t[i])>>, MemoAt(t, PastAmount(t, i)))
    [] RequestAt(t) = {} /\ LinkAt(t) = {} /\ RecurringAt(t) # {} -> Recurring(t)
    [] OTHER -> PayOrSend(t)
-----------------------------------------------------------------------------
\* The unit of a number of payments that are a period apart.
UnitsOf(period) ==
  CASE period = "day" -> {"days", "times"}
    [] period = "week" -> {"weeks", "times"}
    [] OTHER -> {"months", "times"}

\* How a user writes an intent: the forms the parser names.  "every day for 5
\* weeks" is none of them: nobody says 5 payments like that.
Written(s, money) ==
  LET coin == IF money THEN <<"QUSDC">> ELSE << >>
      memo == IF s.memo = << >> THEN << >> ELSE <<"for">> \o s.memo
      amount == <<s.orders[1].amount>> \o coin
      to == s.orders[1].to IN
  CASE s.kind = "payment_request" -> {<<"request">> \o amount \o <<"from", to>> \o memo}
    [] s.kind = "payment_link" -> {<<"create", "a", "payment", "link", "for">> \o amount \o memo}
    [] s.kind = "send" -> {<<"pay", to>> \o amount \o memo, <<"send">> \o amount \o <<"to", to>> \o memo}
    [] s.kind = "batch" ->
         {lead \o amount2 \o <<sep>> \o rest :
            lead \in {<<"pay">>, <<"batch", "pay">>},
            amount2 \in {<<to>> \o amount, amount \o <<"to", to>>},
            sep \in {",", "and"},
            rest \in {<<s.orders[2].to, s.orders[2].amount>> \o coin}}
    [] OTHER ->
         {<<"pay", to>> \o amount \o <<"every", w>>
            \o (IF s.runs = "" THEN << >> ELSE <<"for", s.runs, unit>>) :
              w \in IF s.startAt # "" THEN {s.startAt} ELSE {s.period},
              unit \in UnitsOf(s.period)}

\* What a user may mean: orders, and what else an intent of the kind has.
Orders(n) == [1..n -> [to : Nick, amount : Numeral]]

MeantWith(kinds, orders, memos, periods, starts, numbers) ==
  [kind : kinds, orders : orders, memo : memos, period : periods, startAt : starts, runs : numbers]

Sayable ==
  LET memos == {<< >>} \cup {<<w>> : w \in Word}
      none == {""} IN
  MeantWith({"send", "payment_request"}, Orders(1), memos, none, none, none)
    \cup MeantWith({"payment_link"}, [1..1 -> [to : none, amount : Numeral]], memos, none, none, none)
    \cup MeantWith({"batch"}, Orders(2), {<< >>}, none, none, none)
    \cup {s \in MeantWith({"subscription"}, Orders(1), {<< >>}, {"day", "week", "month"}, none \cup Day,
                          none \cup Numeral) :
             s.startAt # "" => s.period = "week"}

\* run: the button is off while a command runs, the examples are not.
Say(s) ==
  \E money \in BOOLEAN : \E t \in Written(s, money) :
    /\ Len(commands) < MaxCommands
    /\ commands' = Append(commands, [said |-> s, parsed |-> Parse(t), legs |-> << >>, stage |-> "resolve",
                                     owners |-> [n \in Nick |-> {ownerOf[n]}]])
    /\ result' = 0
    /\ UNCHANGED <<ownerOf, form, nameChanges>>

\* Mutant: one recipient is looked at, as for a single payment.
InputsFirst(c) ==
  IF commands[c].parsed.kind = "payment_link" THEN {} ELSE {commands[c].parsed.orders[1].to}

\* recipientInputs of the intent, each once
Inputs(c) ==
  IF commands[c].parsed.kind = "payment_link" THEN {}
  ELSE {commands[c].parsed.orders[k].to : k \in DOMAIN commands[c].parsed.orders}

\* resolveDetailed for one of them; words that are no name have no address.
ResolveLeg(c, n) ==
  /\ commands[c].stage = "resolve"
  /\ n \in Inputs(c) \ DOMAIN commands[c].legs
  /\ commands' = [commands EXCEPT ![c].legs =
       [x \in DOMAIN @ \cup {n} |-> IF x # n THEN @[x] ELSE IF n \in Nick THEN ownerOf[n] ELSE Unowned]]
  /\ UNCHANGED <<ownerOf, result, form, nameChanges>>

\* The result of the run takes the place of what is shown.
ShowResult(c) ==
  /\ commands[c].stage = "resolve"
  /\ DOMAIN commands[c].legs = Inputs(c)
  /\ commands' = [commands EXCEPT ![c].stage = "over"]
  /\ result' = c
  /\ UNCHANGED <<ownerOf, form, nameChanges>>

Blocked(c) == \E n \in DOMAIN commands[c].legs : commands[c].legs[n] = Unowned

\* legTarget
LegTarget(c, n) == IF n \in DOMAIN commands[c].legs THEN commands[c].legs[n] ELSE n

\* The rows a page is opened with: a recipient with its amount.
FormRows(c) ==
  LET orders == commands[c].parsed.orders IN
  [k \in DOMAIN orders |-> Order(LegTarget(c, orders[k].to), orders[k].amount)]

\* The number of payments of a subscription is 12 by default.
PaymentsShown(p) == IF p.kind = "subscription" /\ p.runs = "" THEN "12" ELSE p.runs

\* The link of the plan and the form of the page it opens: Send, BatchPay,
\* Request or Subscriptions.  A payment link is shown as it is and the page it
\* leads to is empty.
FormOf(c) ==
  LET p == commands[c].parsed IN
  [rail |-> p.kind, command |-> c, memo |-> p.memo, period |-> p.period, startAt |-> p.startAt,
   runs |-> PaymentsShown(p), rows |-> FormRows(c)]

OpenRail ==
  /\ result # 0
  /\ commands[result].parsed.kind \notin {"clarification", "payment_link"}
  /\ ~Blocked(result)
  /\ form' = <<FormOf(result)>>
  /\ UNCHANGED <<ownerOf, commands, result, nameChanges>>

ChangeOwner(n, a) ==
  /\ nameChanges < MaxNameChanges
  /\ ownerOf[n] # a
  /\ nameChanges' = nameChanges + 1
  /\ ownerOf' = [ownerOf EXCEPT ![n] = a]
  /\ commands' = [c \in DOMAIN commands |-> [commands[c] EXCEPT !.owners[n] = @ \cup {a}]]
  /\ UNCHANGED <<result, form>>

PlanNext ==
  \/ \E c \in DOMAIN commands : ShowResult(c) \/ \E n \in Inputs(c) : ResolveLeg(c, n)
  \/ OpenRail
  \/ \E n \in Nick, a \in Owner \cup {Unowned} : ChangeOwner(n, a)

CommandNext == (\E s \in Sayable : Say(s)) \/ PlanNext

CommandSpec == CommandInit /\ [][CommandNext]_commandVars
-----------------------------------------------------------------------------
(***************************************************************************)
(* Each form the parser names is read as what was meant, with or without   *)
(* the currency, for every recipient, amount, memo, period and number, and *)
(* whether a recipient could be taken for an amount or not                 *)
(* (parser.ts:70-86).                                                      *)
(***************************************************************************)
EachFormIsRead ==
  \A s \in Sayable, money \in BOOLEAN : \A t \in Written(s, money) : Parse(t) = s

(***************************************************************************)
(* The form a command opens is what the user said, whichever of the        *)
(* parser's forms it was said in and whichever of several commands is      *)
(* shown: the rail, every amount at its recipient, in order, the memo,     *)
(* period and number; each recipient is an address its name has had since  *)
(* the command.  "It NEVER ... executes": an unresolved name opens no form *)
(* (parser.ts:1-9, agentCommands.ts:5-9).  A subscription without a number *)
(* is open-ended to types.ts:53 and opens with 12 payments, the page's     *)
(* default (Subscriptions.tsx:52), never with the number of another one.   *)
(***************************************************************************)
FormIsWhatWasSaid ==
  form # << >> =>
    LET f == form[1]
        s == commands[f.command].said IN
    /\ f.rail = s.kind /\ f.memo = s.memo /\ f.period = s.period /\ f.startAt = s.startAt
    /\ f.runs = IF s.kind = "subscription" /\ s.runs = "" THEN "12" ELSE s.runs
    /\ Len(f.rows) = Len(s.orders)
    /\ \A k \in DOMAIN f.rows :
         /\ f.rows[k].amount = s.orders[k].amount
         /\ f.rows[k].to \in commands[f.command].owners[s.orders[k].to] \ {Unowned}
=============================================================================
