-------------------------- MODULE MCGiftInventory --------------------------
(* Instances of GiftInventory for TLC: one guest with profiles in two       *)
(* branches and up to three gifts.                                          *)
EXTENDS GiftInventory, TLC

CONSTANTS p1, p2, v1, oa, ob, w1, w2

Row(src, at) == [src |-> src, at |-> at, year |-> 1, state |-> "pending", by |-> None]

Holding(a, b) == [i \in Gifts |-> IF i = 1 THEN a ELSE IF i = 2 THEN b ELSE NoGift]
Empty      == [i \in Gifts |-> NoGift]

\* Two gifts that share a cooldown; the cash register, staff and old forms.
Counters == [gifts |-> Holding(Row("other", p1), Row("other", p1)),
             ops   |-> {"activate", "redeem", "admin"}]

\* Gifts with a deadline, one with a cooldown and one with a code.
Deadlines == [gifts |-> Holding(Row("apology", p1), Row("catalog", p1)),
              ops   |-> {"activate", "redeem", "admin"}]

\* Gifts that are still to be claimed.
Claims  == [gifts |-> Empty, ops |-> {"birthday", "activate"}]
Causes  == [gifts |-> Empty, ops |-> {"prize", "apology", "admin"}]
Stories == [gifts |-> Empty, ops |-> {"story", "activate", "birthday"}]

MCScenarios == {Counters, Deadlines, Claims, Causes, Stories}
MCVoucherOf == [v \in Vouchers |-> p1]

\* Nothing tells the workers, or the orders, apart.
Alike == Permutations(Workers) \cup Permutations(Orders)
=============================================================================
