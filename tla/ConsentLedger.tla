----------------------------- MODULE ConsentLedger -----------------------------
(***************************************************************************)
(* What the pull rails promise, without how: a contract moves a party's    *)
(* money only by settling a consent, on the terms it was given with, as    *)
(* many times as it was given for, and never after it was withdrawn.       *)
(* PaymentRails implements this.                                           *)
(***************************************************************************)
EXTENDS Integers

CONSTANTS Consent, Party, Anyone

VARIABLES
  terms,  \* consent -> its terms, for the consents given so far
  quota,  \* consent -> settlements still allowed
  moved   \* <<payer, payee>> -> what contracts moved between them

ledgerVars == <<terms, quota, moved>>

TermsType == [payer : Party \cup {Anyone}, payee : Party, amount : Nat \ {0}]

LedgerInit ==
  /\ terms = << >>
  /\ quota = [c \in Consent |-> 0]
  /\ moved = [x \in Party \X Party |-> 0]

\* A consent is given once, on some terms and for some number of settlements.
Give(c) ==
  /\ c \notin DOMAIN terms
  /\ DOMAIN terms' = DOMAIN terms \cup {c}
  /\ \A d \in DOMAIN terms : terms'[d] = terms[d]
  /\ terms'[c] \in TermsType
  /\ quota'[c] \in Nat \ {0}
  /\ quota' = [quota EXCEPT ![c] = quota'[c]]
  /\ UNCHANGED moved

\* p pays what the consent says to whom it says.
Settle(c, p) ==
  /\ quota[c] > 0
  /\ terms[c].payer \in {p, Anyone}
  /\ quota' = [quota EXCEPT ![c] = @ - 1]
  /\ moved' = [moved EXCEPT ![<<p, terms[c].payee>>] = @ + terms[c].amount]
  /\ UNCHANGED terms

Withdraw(c) ==
  /\ quota[c] > 0
  /\ quota' = [quota EXCEPT ![c] = 0]
  /\ UNCHANGED <<terms, moved>>

LedgerNext ==
  \/ \E c \in Consent : Give(c)
  \/ \E c \in Consent, p \in Party : Settle(c, p)
  \/ \E c \in Consent : Withdraw(c)

LedgerSpec == LedgerInit /\ [][LedgerNext]_ledgerVars
================================================================================
