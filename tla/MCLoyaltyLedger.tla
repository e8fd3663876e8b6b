-------------------------- MODULE MCLoyaltyLedger --------------------------
(* Instances of LoyaltyLedger for TLC: one order, its calls with the keys   *)
(* the backend derives from it, and coins from games to start with.         *)
EXTENDS LoyaltyLedger, TLC

CONSTANTS b1, b2, o1, o2, w1, w2, w3, ka, kr, kr2, kf, kf2

CallOf(op, o, b, amount, k) ==
  [op |-> op, order |-> o, branch |-> b, amount |-> amount, key |-> k]

\* accrue and refund at b1, redeem at the branch where the guest pays.
OrderCalls(redeemAt) ==
  {CallOf("accrue", o1, b1, 2, ka), CallOf("redeem", o1, redeemAt, 3, kr),
   CallOf("refund", o1, b1, 0, kf)}

\* The same with a second redeem and a second refund under keys of their own.
MCCalls    == OrderCalls(b1) \cup {CallOf("redeem", o1, b1, 1, kr2), CallOf("refund", o1, b1, 0, kf2)}
MCCallsTwo == OrderCalls(b2)
MCCoins    == [b \in Branches |-> 2]
MCRich     == [b \in Branches |-> 3]

WorkerSymmetry == Permutations(Workers)
=============================================================================
