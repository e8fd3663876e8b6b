----------------------------- MODULE OnceLedger -----------------------------
(***************************************************************************)
(* What the loyalty service promises its caller: a call takes effect at    *)
(* most once, in one step, and the points of a guest move only when a call *)
(* takes effect or when the guest buys something in the shop.              *)
(***************************************************************************)
EXTENDS Integers

CONSTANTS Branches, Keys, InitialCoins

VARIABLES
  done,    \* keys whose call took effect
  coins,   \* [Branches -> Int]
  bought   \* number of purchases

Init == done = {} /\ coins = InitialCoins /\ bought = 0

\* A call takes effect: it moves the points of one profile at most.
Apply(k) ==
  /\ k \notin done
  /\ done' = done \cup {k}
  /\ \E b \in Branches : \A other \in Branches \ {b} : coins'[other] = coins[other]
  /\ UNCHANGED bought

\* A purchase that costs anything costs no more than the profile holds: what
\* it takes, it takes from points that are there.  A free one is always possible.
Buy(b) ==
  /\ bought' = bought + 1
  /\ coins'[b] = coins[b] \/ coins'[b] \in 0 .. coins[b]
  /\ \A other \in Branches \ {b} : coins'[other] = coins[other]
  /\ UNCHANGED done

Next == (\E k \in Keys : Apply(k)) \/ (\E b \in Branches : Buy(b))

Spec == Init /\ [][Next]_<<done, coins, bought>>
=============================================================================
