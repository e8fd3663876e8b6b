--------------------------- MODULE LoyaltyLedger ---------------------------
(***************************************************************************)
(* The points of one guest: the loyalty service API the ordering backend   *)
(* calls (accrue, redeem, refund of loyalty/services.py under              *)
(* _with_idempotency), next to the shop of the application (buy_product of *)
(* catalog/api/services.py), both writing the same CoinTransaction ledger. *)
(*                                                                         *)
(* Transactions are READ COMMITTED.  redeem holds FOR UPDATE locks on every*)
(* profile (ClientBranch) of the guest, a purchase on one profile and on    *)
(* the row of the guest it is joined with, refund on the LoyaltyOrder row.  *)
(* Inserting a CoinTransaction takes a KEY SHARE lock on its profile when   *)
(* the transaction commits (a deferred foreign key), inserting a            *)
(* LoyaltyOrder one on the guest, so both wait for those locks.  PostgreSQL *)
(* breaks a cycle of waiting transactions by aborting one of them.          *)
(***************************************************************************)
EXTENDS Integers, FiniteSets, Functions

CONSTANTS
  Branches,      \* branches of the network: one profile of the guest in each
  Orders,        \* external_order_id values
  Keys,          \* idempotency keys
  Calls,         \* the mutating calls the backend may send, each any number of times
  Prices,        \* prices of the products of the shop
  InitialCoins,  \* [Branches -> Nat]: what the guest earned in games
  Workers,       \* request workers
  None,          \* SQL NULL, a missing row
  MaxPurchases   \* bound: purchases in the shop

CallType == [op : {"accrue", "redeem", "refund"}, order : Orders, branch : Branches,
             amount : Nat, key : Keys]

ASSUME CallsAssumption  == Calls \subseteq CallType
ASSUME CoinsAssumption  == /\ IsFiniteSet(Branches) /\ Prices \subseteq Nat
                           /\ InitialCoins \in [Branches -> Nat]
ASSUME NoneAssumption   == None \notin Nat \cup Branches \cup [points : Nat, restored : Nat]
ASSUME BoundsAssumption == MaxPurchases \in Nat

VARIABLES
  balance,    \* [Branches -> Int]: coins_balance of each profile
  orders,     \* [Orders -> Order]: LoyaltyOrder rows
  keys,       \* LoyaltyIdempotencyKey rows: [Keys -> Response or None]
  shop,       \* [Branches -> {"free", "cooling"}]: the SHOP Cooldown row
  purchases,  \* InventoryItem rows bought: how many
  req,        \* [Workers -> Request]
  answers,    \* history: successful answers, as <<key, response>>
  applied,    \* history: times the effect of a key was committed
  net,        \* history: sum of the coin movements labelled with an order
  reversed,   \* history: earned points taken back by refunds
  orderly     \* history: has the backend sent the calls of each order one after
              \* the other so far: accrue, then redeem, then refund?

vars == <<balance, orders, keys, shop, purchases, req, answers, applied, net, reversed, orderly>>

----------------------------------------------------------------------------
NoOrder == [status |-> "none", branch |-> None, earned |-> 0, redeemed |-> 0]

Order    == [status : {"none", "active", "refunded"}, branch : Branches \cup {None},
             earned : Nat, redeemed : Nat]
Response == [points : Nat, restored : Nat]

Idle == [pc |-> "idle"]

Request == {Idle}
  \cup [pc : {"begin", "refund_commit"}, call : Calls]
  \cup [pc : {"redeem_commit"}, call : Calls, seen : Nat \cup {None}]
  \cup [pc : {"buy_commit"}, branch : Branches, price : Nat]

Plus(a, b) == a + b
NetworkBalance == FoldFunction(Plus, 0, balance)

Redeeming(w)  == req[w].pc = "redeem_commit"
Refunding(w)  == req[w].pc = "refund_commit"
Buying(w, b)  == req[w].pc = "buy_commit" /\ req[w].branch = b

\* FOR UPDATE locks on the guest, on profiles and on orders.
GuestLocked == \E w \in Workers : req[w].pc = "buy_commit"
NoLock(b) == FALSE
ProfileLocked(b) == \E w \in Workers : Redeeming(w) \/ Buying(w, b)
OrderLocked(o)   == \E w \in Workers : Refunding(w) /\ req[w].call.order = o

Exists(o) == orders[o].status # "none"

InFlight(o, op) ==
  \E w \in Workers : req[w].pc \in {"begin", "redeem_commit", "refund_commit"}
                       /\ req[w].call.order = o /\ req[w].call.op = op

\* What a backend that orders its calls waits for before it sends call c.
InOrder(c) ==
  CASE c.op = "accrue" -> TRUE
    [] c.op = "redeem" -> orders[c.order].status = "active" /\ ~InFlight(c.order, "refund")
    [] c.op = "refund" -> ~InFlight(c.order, "redeem")

Finish(w) == req' = [req EXCEPT ![w] = Idle]

\* Everything a transaction that commits nothing leaves alone.
RolledBack == UNCHANGED <<balance, orders, keys, shop, purchases, applied, net, reversed>>

----------------------------------------------------------------------------
ReplayUnchecked(w, c) ==
  /\ req[w] = Idle
  /\ answers' = answers \cup {<<c.key, keys[c.key]>>}
  /\ UNCHANGED <<req, orderly>>
  /\ RolledBack

(* _with_idempotency: a stored key answers at once ...                     *)
Replay(w, c) ==
  /\ req[w] = Idle
  /\ keys[c.key] # None
  /\ answers' = answers \cup {<<c.key, keys[c.key]>>}
  /\ UNCHANGED <<req, orderly>>
  /\ RolledBack

(* ... and an unknown one starts the transaction.                          *)
Begin(w, c) ==
  /\ req[w] = Idle
  /\ keys[c.key] = None
  /\ orderly' = (orderly /\ InOrder(c))
  /\ req' = [req EXCEPT ![w] = [pc |-> "begin", call |-> c]]
  /\ UNCHANGED answers
  /\ RolledBack

\* The unique index of LoyaltyIdempotencyKey, seen by the insert.
NotUnique(k) == FALSE
KeyTaken(k)  == keys[k] # None

\* The transaction fails: its caller gets an error.
Fail(w) == Finish(w) /\ UNCHANGED <<answers, orderly>> /\ RolledBack

\* IntegrityError: somebody else's response, or the error itself.
Conflict(w, k) ==
  /\ answers' = IF keys[k] = None THEN answers ELSE answers \cup {<<k, keys[k]>>}
  /\ Finish(w)
  /\ UNCHANGED orderly
  /\ RolledBack

\* The key is written in the transaction that moves the coins.
Record(w, k, response) ==
  /\ keys' = [keys EXCEPT ![k] = response]
  /\ applied' = [applied EXCEPT ![k] = @ + 1]
  /\ answers' = answers \cup {<<k, response>>}
  /\ Finish(w)
  /\ UNCHANGED orderly

Move(b, o, amount) ==
  /\ balance' = [balance EXCEPT ![b] = @ + amount]
  /\ net' = [net EXCEPT ![o] = @ + amount]

----------------------------------------------------------------------------
(* accrue: the order is inserted with an unique id, then the coins.        *)
Accrue(w) ==
  /\ req[w].pc = "begin" /\ req[w].call.op = "accrue"
  /\ LET c == req[w].call
     IN  IF Exists(c.order) \/ KeyTaken(c.key)
         THEN Conflict(w, c.key)
         ELSE /\ ~GuestLocked
              /\ c.amount > 0 => ~ProfileLocked(c.branch)
              /\ orders' = [orders EXCEPT ![c.order] =
                              [status |-> "active", branch |-> c.branch,
                               earned |-> c.amount, redeemed |-> 0]]
              /\ Move(c.branch, c.order, c.amount)
              /\ Record(w, c.key, [points |-> c.amount, restored |-> 0])
              /\ UNCHANGED <<shop, purchases, reversed>>

(* redeem: locks every profile, then compares with the network balance and *)
(* reads the order without a lock.                                         *)
RedeemLock(w) ==
  /\ req[w].pc = "begin" /\ req[w].call.op = "redeem"
  /\ \A b \in Branches : ~ProfileLocked(b)

RedeemCheck(w) ==
  /\ RedeemLock(w)
  /\ LET c == req[w].call
     IN  /\ NetworkBalance >= c.amount
         /\ req' = [req EXCEPT ![w] =
                      [pc |-> "redeem_commit", call |-> c,
                       seen |-> IF Exists(c.order) THEN orders[c.order].redeemed ELSE None]]
  /\ UNCHANGED <<answers, orderly>>
  /\ RolledBack

InsufficientBalance(w) ==
  /\ RedeemLock(w)
  /\ NetworkBalance < req[w].call.amount
  /\ Fail(w)

\* points_redeemed as the order was read, plus this redeem.
LastRedeem(seen, amount)  == amount
SumRedeemed(seen, amount) == seen + amount

RedeemCommit(w) ==
  /\ req[w].pc = "redeem_commit"
  /\ LET c    == req[w].call
         seen == req[w].seen
     IN  /\ seen # None => ~OrderLocked(c.order)
         /\ IF KeyTaken(c.key)
            THEN Conflict(w, c.key)
            ELSE /\ orders' = IF seen = None THEN orders
                              ELSE [orders EXCEPT ![c.order].redeemed =
                                   SumRedeemed(seen, c.amount)]
                 /\ Move(c.branch, c.order, -c.amount)
                 /\ Record(w, c.key, [points |-> c.amount, restored |-> 0])
                 /\ UNCHANGED <<shop, purchases, reversed>>

(* refund: locks the order row; an order already refunded is answered with *)
(* a snapshot, which is recorded under the key as well.                    *)
RefundLock(w) ==
  /\ req[w].pc = "begin" /\ req[w].call.op = "refund"
  /\ LET c == req[w].call
     IN  /\ ~OrderLocked(c.order)
         /\ \/ /\ orders[c.order].status = "none"
               /\ Fail(w)
            \/ /\ orders[c.order].status = "active"
               /\ req' = [req EXCEPT ![w].pc = "refund_commit"]
               /\ UNCHANGED <<answers, orderly>>
               /\ RolledBack
            \/ /\ orders[c.order].status = "refunded"
               /\ IF KeyTaken(c.key)
                  THEN Conflict(w, c.key)
                  ELSE /\ Record(w, c.key, [points |-> 0, restored |-> 0])
                       /\ UNCHANGED <<balance, orders, shop, purchases, net, reversed>>

\* What was spent comes back, what was earned is taken back.
OnlyEarned(o) == -o.earned
Reversal(o)   == o.redeemed - o.earned

RefundCommit(w) ==
  /\ req[w].pc = "refund_commit"
  /\ LET c == req[w].call
         o == orders[c.order]
     IN  /\ ~ProfileLocked(o.branch)
         /\ IF KeyTaken(c.key)
            THEN Conflict(w, c.key)
            ELSE /\ orders' = [orders EXCEPT ![c.order].status = "refunded"]
                 /\ Move(o.branch, c.order, Reversal(o))
                 /\ reversed' = reversed + o.earned
                 /\ Record(w, c.key, [points |-> o.earned, restored |-> o.redeemed])
                 /\ UNCHANGED <<shop, purchases>>

NoDeadlockCheck(w) == FALSE /\ Fail(w)

(* A redeem that waits for the order and a refund of it that waits for the *)
(* profile: the database aborts either.                                    *)
DeadlockAbort(w) ==
  /\ \E v, u \in Workers :
       /\ Redeeming(v) /\ req[v].seen # None
       /\ Refunding(u) /\ req[u].call.order = req[v].call.order
       /\ w \in {v, u}
  /\ Fail(w)

----------------------------------------------------------------------------
(* buy_product under the lock of one profile and of its guest: the cooldown *)
(* and, for a product that costs something, the balance of that profile are *)
(* checked, then coins, item and cooldown are written.                      *)
BuyCheck(w, b, price) ==
  /\ req[w] = Idle
  /\ purchases < MaxPurchases
  /\ ~GuestLocked /\ ~ProfileLocked(b)
  /\ shop[b] = "free"
  /\ price > 0 => balance[b] >= price
  /\ req' = [req EXCEPT ![w] = [pc |-> "buy_commit", branch |-> b, price |-> price]]
  /\ UNCHANGED <<answers, orderly>>
  /\ RolledBack

BuyCommit(w) ==
  /\ req[w].pc = "buy_commit"
  /\ balance' = [balance EXCEPT ![req[w].branch] = @ - req[w].price]
  /\ shop' = [shop EXCEPT ![req[w].branch] = "cooling"]
  /\ purchases' = purchases + 1
  /\ Finish(w)
  /\ UNCHANGED <<orders, keys, answers, applied, net, reversed, orderly>>

ActivateShopCooldown(b) ==
  /\ shop' = [shop EXCEPT ![b] = "cooling"]
  /\ UNCHANGED <<balance, orders, keys, purchases, req, answers, applied, net, reversed, orderly>>

ShopCooldownLapses(b) ==
  /\ shop[b] = "cooling"
  /\ shop' = [shop EXCEPT ![b] = "free"]
  /\ UNCHANGED <<balance, orders, keys, purchases, req, answers, applied, net, reversed, orderly>>

----------------------------------------------------------------------------
Init ==
  /\ balance = InitialCoins
  /\ orders = [o \in Orders |-> NoOrder]
  /\ keys = [k \in Keys |-> None]
  /\ shop = [b \in Branches |-> "free"]
  /\ purchases = 0
  /\ req = [w \in Workers |-> Idle]
  /\ answers = {}
  /\ applied = [k \in Keys |-> 0]
  /\ net = [o \in Orders |-> 0]
  /\ reversed = 0
  /\ orderly = TRUE

Call == \E w \in Workers, c \in Calls : Replay(w, c) \/ Begin(w, c)

Execute(w) ==
  \/ Accrue(w)
  \/ RedeemCheck(w) \/ InsufficientBalance(w) \/ RedeemCommit(w)
  \/ RefundLock(w) \/ RefundCommit(w)
  \/ BuyCommit(w)

Shop ==
  \/ \E w \in Workers, b \in Branches, price \in Prices : BuyCheck(w, b, price)
  \/ \E b \in Branches : ActivateShopCooldown(b) \/ ShopCooldownLapses(b)

Next ==
  \/ Call
  \/ \E w \in Workers : Execute(w) \/ DeadlockAbort(w)
  \/ Shop

Spec == Init /\ [][Next]_vars

\* A transaction that can go on goes on; a deadlock is broken.
Fairness == \A w \in Workers : SF_vars(Execute(w)) /\ WF_vars(DeadlockAbort(w))

FairSpec == Spec /\ Fairness

----------------------------------------------------------------------------
(* Types of the rows, of the requests and of the history.                  *)
TypeOK ==
  /\ balance \in [Branches -> Int]
  /\ orders \in [Orders -> Order]
  /\ keys \in [Keys -> Response \cup {None}]
  /\ shop \in [Branches -> {"free", "cooling"}]
  /\ purchases \in Nat
  /\ req \in [Workers -> Request]
  /\ answers \subseteq Keys \X Response
  /\ applied \in [Keys -> Nat]
  /\ net \in [Orders -> Int]
  /\ reversed \in Nat
  /\ orderly \in BOOLEAN

(* However often a call is repeated and however its repetitions overlap,   *)
(* its effect is committed once (LoyaltyIdempotencyKey: "not applied a     *)
(* second time").                                                          *)
KeyAppliesOnce == \A k \in Keys : applied[k] <= 1

(* Everybody who gets an answer under a key gets the same one, the first.  *)
OneAnswerPerKey ==
  \A a, b \in answers : a[1] = b[1] => a[2] = b[2]

(* A call may be repeated without harm (Idempotency-Key of the service).   *)
CallsAreIdempotent == KeyAppliesOnce /\ OneAnswerPerKey

(* Only refunds of accruals already spent overdraw the network balance     *)
(* (README of the service: "the balance may go negative for a while").     *)
OverdraftOnlyByRefund == NetworkBalance + reversed >= 0

(* While the backend sends the calls of an order one after the other, the  *)
(* movements of a refunded order cancel out: what it earned was taken back,*)
(* what was spent on it was restored.                                      *)
RefundedOrderIsNeutral ==
  orderly => \A o \in Orders : orders[o].status = "refunded" => net[o] = 0

(* Then the order carries what was earned and spent on it as well, so that a*)
(* refund can reverse both (redeem: "link to the loyalty order if accrue   *)
(* has been called already; otherwise create a record").                   *)
OrderCarriesMovements ==
  orderly => \A o \in Orders : orders[o].status = "active" =>
    net[o] = orders[o].earned - orders[o].redeemed

(* Every call and every purchase ends: transactions that wait for each     *)
(* other's locks do not wait for ever.                                     *)
CallsFinish == \A w \in Workers : (req[w] # Idle) ~> (req[w] = Idle)

\* What the backend may rely on: see OnceLedger.
Once == INSTANCE OnceLedger WITH
  done <- {k \in Keys : keys[k] # None}, coins <- balance, bought <- purchases

(* The service implements the ledger in which every key takes effect in    *)
(* one atomic step, and points move in no other way.                       *)
ImplementsOnceLedger == Once!Spec
=============================================================================
