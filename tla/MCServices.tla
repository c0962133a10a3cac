------------------------------- MODULE MCServices -------------------------------
(***************************************************************************)
(* The services that run beside the executor, for TLC: the subscription    *)
(* keeper with the payment rails it charges, the protocol indexer and the  *)
(* treasury loop.  They share no state, so a behaviour has one of them     *)
(* work and the others rest where they start.                              *)
(***************************************************************************)
EXTENDS SubscriptionKeeper, ProtocolIndexer, Treasury

CONSTANTS alice, bob, p1

VARIABLE service

servicesVars == <<allKeeperVars, indexerVars, treasuryVars, service>>

\* Bounds of the keeper: alice (bob's account is the keeper's) subscribes, one
\* allowance is open at a time, and while the keeper works there is one
\* subscription, no request and nothing else paid.
OneOfEach ==
  /\ bal[alice] + bal[bob] = 2
  /\ Cardinality({x \in Party \X RailContract : allowance[x[1]][x[2]] > 0}) <= 1
  /\ \A id \in DOMAIN subs : subs[id].payer = alice
  /\ \A id \in DOMAIN requests : requests[id].requestor = bob
  /\ Cardinality(DOMAIN subs) + Cardinality(DOMAIN requests) <= IF activeSubs = {} THEN 2 ELSE 1
  /\ activeSubs # {} =>
       \A x \in Party \X RailContract : allowance[x[1]][x[2]] > 0 => x = <<alice, "subscriptions">>

Live == [owner |-> TRUE, live |-> TRUE]

Works(s, step) ==
  /\ service = s
  /\ step
  /\ s # "keeper" => UNCHANGED allKeeperVars
  /\ s # "indexer" => UNCHANGED indexerVars
  /\ s # "treasury" => UNCHANGED treasuryVars
  /\ UNCHANGED service

ServicesInit ==
  /\ KeeperInit
  /\ IndexerInit
  /\ TreasuryInit
  /\ service \in {"keeper", "indexer", "treasury"}
  /\ IF service = "keeper" THEN OneOfEach ELSE bal[alice] = 0 /\ bal[bob] = 0
  /\ service # "treasury" => collected = 0 /\ reserve.wqie = 2

ServicesNext ==
  \/ Works("keeper", KeeperNext) /\ OneOfEach'
  \/ Works("indexer", IndexerNext)
  \/ Works("treasury", TreasuryNext)

ServicesSpec ==
  /\ ServicesInit /\ [][ServicesNext]_servicesVars
  /\ \A t \in TickName : WF_servicesVars(Works("keeper", KeeperStep(t)))
  /\ WF_servicesVars(Works("keeper", Mine))
  /\ WF_servicesVars(Works("indexer", PassStep))
  /\ \A t \in Runner : WF_servicesVars(Works("treasury", RunStep(t)))
-----------------------------------------------------------------------------
\* Two charges a period apart, one later charge, and a plan that is refused.
mcPlan == {[amount |-> 1, period |-> 1, maxPayments |-> 2, startAt |-> 0],
           [amount |-> 1, period |-> 2, maxPayments |-> 1, startAt |-> 2],
           [amount |-> 1, period |-> 0, maxPayments |-> 1, startAt |-> 0]}
mcInvoice == {[amount |-> 1, expiryDelta |-> 0], [amount |-> 1, expiryDelta |-> 2]}

OnChain(what, amount, until) ==
  [what |-> what, account |-> alice, policy |-> p1, amount |-> amount, until |-> until]
mcChainCall == {OnChain("createPolicy", 0, 9), OnChain("revokePolicy", 0, 0), OnChain("sessionSend", 1, 0)}

mcFloor == [ep |-> 1, signer |-> 1]
mcTarget == [ep |-> 3, signer |-> 2]
mcTreasuries ==
  {[collected |-> x[1], sinks |-> [ep |-> 1, signer |-> x[2]],
    reserve |-> [qusdc |-> 10, wqie |-> x[3]], settings |-> x[4]] :
     x \in {<<0, 1, 20, Live>>, <<0, 1, 2, Live>>, <<4, 0, 20, Live>>,
            <<3, 0, 20, [owner |-> FALSE, live |-> TRUE]>>,
            <<3, 0, 20, [owner |-> TRUE, live |-> FALSE]>>}}
================================================================================
