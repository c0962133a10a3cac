------------------------------ MODULE MCPaymaster ------------------------------
(***************************************************************************)
(* A small paymaster for TLC: an account that sends operations of both     *)
(* modes, bundles of two, two days, budgets that one bundle overshoots.    *)
(***************************************************************************)
EXTENDS GasRoute

CONSTANTS a1, admin, t1

mcOp(mode, sender, maxCost, spend, trades) ==
  [mode |-> mode, sender |-> sender, targets |-> {t1}, maxCost |-> maxCost,
   spend |-> spend, trades |-> trades, expiry |-> 1, signer |-> admin]

\* A sponsored operation, one that pays its gas in QUSDC and spends a QUSDC,
\* and one that pays its gas and trades on the pair.
mcOps == {mcOp("B", a1, 2, 0, FALSE),
          mcOp("A", a1, 2, 1, FALSE), mcOp("A", a1, 1, 0, TRUE)}

mcPools == {[wqie |-> 2, qusdc |-> 2], [wqie |-> 1, qusdc |-> 2]}

mcPrefs == {[sponsored |-> TRUE, qusdc |-> TRUE, native |-> TRUE],
            [sponsored |-> FALSE, qusdc |-> TRUE, native |-> FALSE]}

\* The two switches only refuse operations: what is reached while one is off is
\* reached with both on, so such states are looked at and not continued.
SwitchedOn == ~paused /\ qusdcGasEnabled
================================================================================
