-------------------------- MODULE MCSessionExecution --------------------------
(***************************************************************************)
(* Small instances of SessionExecution for TLC.                            *)
(***************************************************************************)
EXTENDS SessionExecution, PolicyMirror, TLC

CONSTANTS a1, owner, buyer, guardian, k1, k2, r1, r2, token, batcher

mcAccount == {a1}
mcTwoAccounts == {a1, guardian}   \* the guardian acts through its own account
mcAddress == {a1, owner, buyer, guardian}
mcOwners == {owner, buyer}       \* who the account and the manager belong to in turn
mcKey == {k1, k2}
mcRecipient == {r1, r2}

\* Twice the daily and twice the weekly limit fit into the total limit.
Terms(key, until) ==
  [smartAccount |-> a1, sessionKey |-> key, guardian |-> guardian,
   token |-> token,
   maxPerTx |-> 1, dailyLimit |-> 2, weeklyLimit |-> 3, totalLimit |-> 6,
   validAfter |-> 0, validUntil |-> until, recipients |-> {r1},
   allow |-> {"single", "batch", "request", "subscription"},
   gas |-> {"sponsored"}]

mcParams == {Terms(k1, 5)}

CallOf(selector, target, pays) ==
  [selector |-> selector, target |-> target, value |-> 0,
   payer |-> a1, pays |-> pays, times |-> 1]

Single(call, key) ==
  [kind |-> "session", sender |-> a1, policy |-> <<a1, 0>>, key |-> key,
   batch |-> FALSE, calls |-> <<call>>]
OfSecond(call, key) == [Single(call, key) EXCEPT !.policy = <<a1, 1>>]
InBatch(calls, key) ==
  [kind |-> "session", sender |-> a1, policy |-> <<a1, 0>>, key |-> key,
   batch |-> TRUE, calls |-> calls]

\* Transfers, one at a time and two in a batch.  Calls that are recorded and
\* move nothing come from the account itself, which may call the manager.
Transfer(r) == CallOf("transfer", token, r :> 1)
mcTarget == {token}
mcCall == {Transfer(r1), Transfer(r2)}
mcBatch == {<<Transfer(r1), Transfer(r1)>>, <<Transfer(r1), Transfer(r2)>>}
mcSessionOp ==
  {Single(Transfer(r1), k1), Single(Transfer(r1), k2), OfSecond(Transfer(r1), k1)}
    \cup {InBatch(b, k1) : b \in mcBatch}

\* The first policy is explored in full while its creator owns the account and
\* until the bundle in which it is revoked is over.  After that, after a sale of
\* the account and with a second policy: a payment of each and a day at most.
\* The manager itself is not handed on.
OneFullHistory ==
  /\ contractOwner = owner
  /\ \A id \in DOMAIN policies : allowedRecipients[id] # {}
  /\ (\/ accountOwner[a1] = buyer
      \/ \E id \in DOMAIN policies : phase = "idle" /\ Revoked(id)
      \/ <<a1, 1>> \in DOMAIN policies) =>
       /\ now <= 1
       /\ \A id \in DOMAIN policies : policies[id].spentTotal <= 1
  /\ <<a1, 1>> \in DOMAIN policies =>
       /\ Revoked(<<a1, 0>>)
       /\ allowedRecipients[<<a1, 0>>] = {r1}

\* Files of one row, of as many as a day, a week and the policy take, and with
\* a row that does not run between two that do.
Row(type, r, amount) == [type |-> type, recipient |-> r, amount |-> amount]
Pay(r) == Row("pay", r, 1)
mcRowLists ==
  {<<Pay(r1), Pay(r1), Pay(r1), Pay(r1)>>, <<Row("request", r1, 1), Pay(r1), Pay(r1)>>,
   <<Pay(r2), Pay(r1)>>, <<Row("pay", r1, 2), Pay(r1)>>}
=============================================================================
