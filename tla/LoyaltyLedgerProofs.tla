------------------------ MODULE LoyaltyLedgerProofs ------------------------
(***************************************************************************)
(* Proofs about LoyaltyLedger, for every set of branches, orders, calls,   *)
(* keys and workers.                                                       *)
(***************************************************************************)
EXTENDS LoyaltyLedger, Sums

\* What a request of each pc carries.
LEMMA RequestCases ==
  ASSUME NEW r \in Request
  PROVE  /\ r.pc \in {"idle", "begin", "redeem_commit", "refund_commit", "buy_commit"}
         /\ r.pc = "idle" => r = Idle
         /\ r.pc \in {"begin", "refund_commit"} =>
              r \in [pc : {"begin", "refund_commit"}, call : Calls]
         /\ r.pc = "redeem_commit" =>
              r \in [pc : {"redeem_commit"}, call : Calls, seen : Nat \cup {None}]
         /\ r.pc = "buy_commit" =>
              r \in [pc : {"buy_commit"}, branch : Branches, price : Nat]
  BY DEF Request, Idle

LEMMA CallCases ==
  ASSUME NEW c \in Calls
  PROVE  /\ c.op \in {"accrue", "redeem", "refund"}
         /\ c.order \in Orders /\ c.branch \in Branches
         /\ c.amount \in Nat /\ c.key \in Keys
  BY CallsAssumption DEF CallType

----------------------------------------------------------------------------
LEMMA TypePreserved ==
  ASSUME TypeOK, [Next]_vars
  PROVE  TypeOK'
<1> USE DEF TypeOK
<1>a. ASSUME NEW w \in Workers, NEW k \in Keys, NEW r \in Response, Record(w, k, r)
      PROVE  /\ keys' \in [Keys -> Response \cup {None}]
             /\ applied' \in [Keys -> Nat]
             /\ answers' \subseteq Keys \X Response
             /\ req' \in [Workers -> Request]
             /\ orderly' \in BOOLEAN
  BY <1>a DEF Record, Finish, Request
<1>b. ASSUME NEW w \in Workers, NEW k \in Keys, Conflict(w, k)
      PROVE  TypeOK'
  BY <1>b DEF Conflict, RolledBack, Finish, Request
<1>c. ASSUME NEW w \in Workers, Fail(w)
      PROVE  TypeOK'
  BY <1>c DEF Fail, RolledBack, Finish, Request
<1>d. ASSUME NEW b \in Branches, NEW o \in Orders, NEW n \in Int, Move(b, o, n)
      PROVE  balance' \in [Branches -> Int] /\ net' \in [Orders -> Int]
  BY <1>d DEF Move
<1>1. ASSUME NEW w \in Workers, NEW c \in Calls, Replay(w, c)
      PROVE  TypeOK'
  BY <1>1, CallCases DEF Replay, RolledBack
<1>2. ASSUME NEW w \in Workers, NEW c \in Calls, Begin(w, c)
      PROVE  TypeOK'
  BY <1>2 DEF Begin, RolledBack, Request
<1>3. ASSUME NEW w \in Workers, Accrue(w)
      PROVE  TypeOK'
  <2> DEFINE c == req[w].call
  <2>1. c \in Calls
    BY <1>3, RequestCases DEF Accrue
  <2>2. CASE Exists(c.order) \/ KeyTaken(c.key)
    BY <1>3, <2>1, <2>2, <1>b, CallCases DEF Accrue
  <2>3. CASE ~(Exists(c.order) \/ KeyTaken(c.key))
    <3>1. /\ orders' = [orders EXCEPT ![c.order] =
                          [status |-> "active", branch |-> c.branch,
                           earned |-> c.amount, redeemed |-> 0]]
          /\ Move(c.branch, c.order, c.amount)
          /\ Record(w, c.key, [points |-> c.amount, restored |-> 0])
          /\ UNCHANGED <<shop, purchases, reversed>>
      BY <1>3, <2>3 DEF Accrue
    <3>2. orders' \in [Orders -> Order]
      BY <3>1, <2>1, CallCases DEF Order
    <3>3. [points |-> c.amount, restored |-> 0] \in Response
      BY <2>1, CallCases DEF Response
    <3> QED
      BY <3>1, <3>2, <3>3, <2>1, <1>a, <1>d, CallCases
  <2> QED
    BY <2>2, <2>3
<1>4. ASSUME NEW w \in Workers, RedeemCheck(w)
      PROVE  TypeOK'
  <2>1. req[w].call \in Calls
    BY <1>4, RequestCases DEF RedeemCheck, RedeemLock
  <2>2. \A o \in Orders : orders[o].redeemed \in Nat
    BY DEF Order
  <2> QED
    BY <1>4, <2>1, <2>2, CallCases DEF RedeemCheck, RolledBack, Request
<1>5. ASSUME NEW w \in Workers, InsufficientBalance(w)
      PROVE  TypeOK'
  BY <1>5, <1>c DEF InsufficientBalance
<1>6. ASSUME NEW w \in Workers, RedeemCommit(w)
      PROVE  TypeOK'
  <2> DEFINE c    == req[w].call
             seen == req[w].seen
  <2>1. c \in Calls /\ seen \in Nat \cup {None}
    BY <1>6, RequestCases DEF RedeemCommit
  <2>2. CASE KeyTaken(c.key)
    BY <1>6, <2>1, <2>2, <1>b, CallCases DEF RedeemCommit
  <2>3. CASE ~KeyTaken(c.key)
    <3>1. /\ orders' = IF seen = None THEN orders
                       ELSE [orders EXCEPT ![c.order].redeemed = SumRedeemed(seen, c.amount)]
          /\ Move(c.branch, c.order, -c.amount)
          /\ Record(w, c.key, [points |-> c.amount, restored |-> 0])
          /\ UNCHANGED <<shop, purchases, reversed>>
      BY <1>6, <2>3 DEF RedeemCommit
    <3>2. seen # None => SumRedeemed(seen, c.amount) \in Nat
      BY <2>1, CallCases DEF SumRedeemed
    <3>3. orders' \in [Orders -> Order]
      BY <3>1, <3>2, <2>1, CallCases DEF Order
    <3>4. [points |-> c.amount, restored |-> 0] \in Response /\ -c.amount \in Int
      BY <2>1, CallCases DEF Response
    <3> QED
      BY <3>1, <3>3, <3>4, <2>1, <1>a, <1>d, CallCases
  <2> QED
    BY <2>2, <2>3
<1>7. ASSUME NEW w \in Workers, RefundLock(w)
      PROVE  TypeOK'
  <2> DEFINE c == req[w].call
  <2>1. c \in Calls /\ req[w] \in [pc : {"begin", "refund_commit"}, call : Calls]
    BY <1>7, RequestCases DEF RefundLock
  <2>2. CASE orders[c.order].status = "none"
    BY <1>7, <2>2, <1>c DEF RefundLock
  <2>3. CASE orders[c.order].status = "active"
    BY <1>7, <2>1, <2>3 DEF RefundLock, RolledBack, Request
  <2>4. CASE orders[c.order].status = "refunded"
    <3>1. [points |-> 0, restored |-> 0] \in Response
      BY DEF Response
    <3> QED
      BY <1>7, <2>1, <2>4, <3>1, <1>a, <1>b, CallCases DEF RefundLock
  <2> QED
    BY <1>7, <2>2, <2>3, <2>4 DEF RefundLock
<1>8. ASSUME NEW w \in Workers, RefundCommit(w)
      PROVE  TypeOK'
  <2> DEFINE c == req[w].call
             o == orders[c.order]
  <2>1. c \in Calls
    BY <1>8, RequestCases DEF RefundCommit
  <2>2. CASE KeyTaken(c.key)
    BY <1>8, <2>1, <2>2, <1>b, CallCases DEF RefundCommit
  <2>3. CASE ~KeyTaken(c.key)
    <3>1. /\ orders' = [orders EXCEPT ![c.order].status = "refunded"]
          /\ Move(o.branch, c.order, Reversal(o))
          /\ reversed' = reversed + o.earned
          /\ Record(w, c.key, [points |-> o.earned, restored |-> o.redeemed])
          /\ UNCHANGED <<shop, purchases>>
      BY <1>8, <2>3 DEF RefundCommit
    <3>2. o.earned \in Nat /\ o.redeemed \in Nat /\ Reversal(o) \in Int
      BY <2>1, CallCases DEF Order, Reversal
    <3>3. orders' \in [Orders -> Order]
      BY <3>1, <2>1, CallCases DEF Order
    <3>4. [points |-> o.earned, restored |-> o.redeemed] \in Response
      BY <3>2 DEF Response
    <3>5. balance' \in [Branches -> Int] /\ net' \in [Orders -> Int]
      <4>1. CASE o.branch \in Branches
        BY <3>1, <3>2, <4>1, <2>1, <1>d, CallCases
      <4>2. CASE o.branch \notin Branches
        <5>1. balance' = balance
          BY <3>1, <4>2 DEF Move
        <5>2. net' = [net EXCEPT ![c.order] = @ + Reversal(o)]
          BY <3>1 DEF Move
        <5> QED
          BY <5>1, <5>2, <3>2, <2>1, CallCases
      <4> QED
        BY <4>1, <4>2
    <3> QED
      BY <3>1, <3>2, <3>3, <3>4, <3>5, <2>1, <1>a, CallCases
  <2> QED
    BY <2>2, <2>3
<1>9. ASSUME NEW w \in Workers, BuyCommit(w)
      PROVE  TypeOK'
  <2>1. req[w] \in [pc : {"buy_commit"}, branch : Branches, price : Nat]
    BY <1>9, RequestCases DEF BuyCommit
  <2> QED
    BY <1>9, <2>1 DEF BuyCommit, Finish, Request
<1>10. ASSUME NEW w \in Workers, DeadlockAbort(w)
       PROVE  TypeOK'
  BY <1>10, <1>c DEF DeadlockAbort
<1>11. CASE Shop
  <2>1. ASSUME NEW w \in Workers, NEW b \in Branches, NEW price \in Prices,
               BuyCheck(w, b, price)
        PROVE  TypeOK'
    BY <2>1, CoinsAssumption DEF BuyCheck, RolledBack, Request
  <2>2. ASSUME NEW b \in Branches, ActivateShopCooldown(b) \/ ShopCooldownLapses(b)
        PROVE  TypeOK'
    BY <2>2 DEF ActivateShopCooldown, ShopCooldownLapses
  <2> QED
    BY <1>11, <2>1, <2>2 DEF Shop
<1>12. CASE UNCHANGED vars
  BY <1>12 DEF vars
<1> QED
  BY <1>1, <1>2, <1>3, <1>4, <1>5, <1>6, <1>7, <1>8, <1>9, <1>10, <1>11, <1>12
  DEF Next, Call, Execute

(* Every row, request and history variable keeps its type.                 *)
THEOREM TypeCorrect == Spec => []TypeOK
<1>1. Init => TypeOK
  BY CoinsAssumption DEF Init, TypeOK, NoOrder, Order, Request
<1> QED
  BY <1>1, TypePreserved, PTL DEF Spec

----------------------------------------------------------------------------
\* A step takes key k for response r, while nobody had it.
Takes(k, r) ==
  /\ keys[k] = None
  /\ keys' = [keys EXCEPT ![k] = r]
  /\ applied' = [applied EXCEPT ![k] = @ + 1]
  /\ answers' = answers \cup {<<k, r>>}

\* A step leaves the keys alone and answers only from them.
OnlyReads ==
  /\ UNCHANGED <<keys, applied>>
  /\ \A a \in answers' \ answers : \E k \in Keys : keys[k] # None /\ a = <<k, keys[k]>>

\* Every step does one of the two: the response is written with the effect.
LEMMA KeySteps ==
  ASSUME TypeOK, [Next]_vars
  PROVE  \/ \E k \in Keys, r \in Response : Takes(k, r)
         \/ OnlyReads
<1>a. ASSUME NEW w \in Workers, NEW k \in Keys, NEW r \in Response,
             ~KeyTaken(k), Record(w, k, r)
      PROVE  \E kk \in Keys, rr \in Response : Takes(kk, rr)
  BY <1>a DEF Record, KeyTaken, Takes
<1>b. ASSUME NEW w \in Workers, NEW k \in Keys, Conflict(w, k)
      PROVE  OnlyReads
  BY <1>b DEF Conflict, RolledBack, OnlyReads
<1>c. ASSUME NEW w \in Workers, Fail(w)
      PROVE  OnlyReads
  BY <1>c DEF Fail, RolledBack, OnlyReads
<1>d. UNCHANGED <<keys, applied, answers>> => OnlyReads
  BY DEF OnlyReads
<1>1. ASSUME NEW w \in Workers, NEW c \in Calls, Replay(w, c)
      PROVE  OnlyReads
  BY <1>1, CallCases DEF Replay, RolledBack, OnlyReads
<1>2. ASSUME NEW w \in Workers, NEW c \in Calls, Begin(w, c)
      PROVE  OnlyReads
  BY <1>2, <1>d DEF Begin, RolledBack
<1>3. ASSUME NEW w \in Workers, Accrue(w)
      PROVE  OnlyReads \/ \E k \in Keys, r \in Response : Takes(k, r)
  <2> DEFINE c == req[w].call
  <2>1. c \in Calls
    BY <1>3, RequestCases DEF Accrue, TypeOK
  <2>2. [points |-> c.amount, restored |-> 0] \in Response
    BY <2>1, CallCases DEF Response
  <2>3. CASE Exists(c.order) \/ KeyTaken(c.key)
    BY <1>3, <2>1, <2>3, <1>b, CallCases DEF Accrue
  <2>4. CASE ~(Exists(c.order) \/ KeyTaken(c.key))
    BY <1>3, <2>1, <2>2, <2>4, <1>a, CallCases DEF Accrue
  <2> QED
    BY <2>3, <2>4
<1>4. ASSUME NEW w \in Workers, RedeemCheck(w) \/ InsufficientBalance(w) \/ DeadlockAbort(w)
      PROVE  OnlyReads
  BY <1>4, <1>c, <1>d DEF RedeemCheck, InsufficientBalance, DeadlockAbort, RolledBack
<1>5. ASSUME NEW w \in Workers, RedeemCommit(w)
      PROVE  OnlyReads \/ \E k \in Keys, r \in Response : Takes(k, r)
  <2> DEFINE c == req[w].call
  <2>1. c \in Calls
    BY <1>5, RequestCases DEF RedeemCommit, TypeOK
  <2>2. [points |-> c.amount, restored |-> 0] \in Response
    BY <2>1, CallCases DEF Response
  <2>3. CASE KeyTaken(c.key)
    BY <1>5, <2>1, <2>3, <1>b, CallCases DEF RedeemCommit
  <2>4. CASE ~KeyTaken(c.key)
    BY <1>5, <2>1, <2>2, <2>4, <1>a, CallCases DEF RedeemCommit
  <2> QED
    BY <2>3, <2>4
<1>6. ASSUME NEW w \in Workers, RefundLock(w)
      PROVE  OnlyReads \/ \E k \in Keys, r \in Response : Takes(k, r)
  <2> DEFINE c == req[w].call
  <2>1. c \in Calls
    BY <1>6, RequestCases DEF RefundLock, TypeOK
  <2>2. [points |-> 0, restored |-> 0] \in Response
    BY DEF Response
  <2>3. CASE orders[c.order].status = "none"
    BY <1>6, <2>3, <1>c DEF RefundLock
  <2>4. CASE orders[c.order].status = "active"
    BY <1>6, <2>4, <1>d DEF RefundLock, RolledBack
  <2>5. CASE orders[c.order].status = "refunded"
    BY <1>6, <2>1, <2>2, <2>5, <1>a, <1>b, CallCases DEF RefundLock
  <2> QED
    BY <1>6, <2>3, <2>4, <2>5 DEF RefundLock
<1>7. ASSUME NEW w \in Workers, RefundCommit(w)
      PROVE  OnlyReads \/ \E k \in Keys, r \in Response : Takes(k, r)
  <2> DEFINE c == req[w].call
             o == orders[c.order]
  <2>1. c \in Calls
    BY <1>7, RequestCases DEF RefundCommit, TypeOK
  <2>2. [points |-> o.earned, restored |-> o.redeemed] \in Response
    BY <2>1, CallCases DEF Response, TypeOK, Order
  <2>3. CASE KeyTaken(c.key)
    BY <1>7, <2>1, <2>3, <1>b, CallCases DEF RefundCommit
  <2>4. CASE ~KeyTaken(c.key)
    BY <1>7, <2>1, <2>2, <2>4, <1>a, CallCases DEF RefundCommit
  <2> QED
    BY <2>3, <2>4
<1>8. ASSUME NEW w \in Workers, BuyCommit(w)
      PROVE  OnlyReads
  BY <1>8, <1>d DEF BuyCommit
<1>9. CASE Shop
  BY <1>9, <1>d DEF Shop, BuyCheck, RolledBack, ActivateShopCooldown, ShopCooldownLapses
<1>10. CASE UNCHANGED vars
  BY <1>10, <1>d DEF vars
<1> QED
  BY <1>1, <1>2, <1>3, <1>4, <1>5, <1>6, <1>7, <1>8, <1>9, <1>10 DEF Next, Call, Execute

\* A key is stored when its effect is, and it is the only source of answers.
KeyInv ==
  /\ \A k \in Keys : applied[k] = (IF keys[k] = None THEN 0 ELSE 1)
  /\ \A a \in answers : keys[a[1]] # None /\ a[2] = keys[a[1]]

LEMMA KeyInvariant == Spec => [](TypeOK /\ KeyInv)
<1>1. Init => KeyInv
  BY DEF Init, KeyInv
<1>2. TypeOK /\ KeyInv /\ [Next]_vars => KeyInv'
  <2> SUFFICES ASSUME TypeOK, KeyInv, [Next]_vars PROVE KeyInv'
    OBVIOUS
  <2>1. ASSUME NEW k \in Keys, NEW r \in Response, Takes(k, r)
        PROVE  KeyInv'
    <3>1. r # None
      BY NoneAssumption DEF Response
    <3>2. \A j \in Keys : applied'[j] = (IF keys'[j] = None THEN 0 ELSE 1)
      BY <2>1, <3>1 DEF Takes, KeyInv, TypeOK
    <3>3. \A a \in answers : a[1] \in Keys /\ a[1] # k
      BY <2>1 DEF Takes, KeyInv, TypeOK
    <3>4. \A a \in answers' : keys'[a[1]] # None /\ a[2] = keys'[a[1]]
      BY <2>1, <3>1, <3>3 DEF Takes, KeyInv, TypeOK
    <3> QED
      BY <3>2, <3>4 DEF KeyInv
  <2>2. CASE OnlyReads
    BY <2>2 DEF OnlyReads, KeyInv
  <2> QED
    BY <2>1, <2>2, KeySteps
<1> QED
  BY <1>1, <1>2, TypeCorrect, PTL DEF Spec

(* However often a call is repeated and raced, its effect is committed     *)
(* once: the key is inserted in the transaction that moves the points.     *)
THEOREM IdempotentCalls == Spec => []KeyAppliesOnce
<1>1. TypeOK /\ KeyInv => KeyAppliesOnce
  BY DEF KeyInv, KeyAppliesOnce
<1> QED
  BY <1>1, KeyInvariant, PTL

(* Every answer under a key is the stored one.                             *)
THEOREM SameAnswer == Spec => []OneAnswerPerKey
<1>1. TypeOK /\ KeyInv => OneAnswerPerKey
  BY DEF KeyInv, OneAnswerPerKey
<1> QED
  BY <1>1, KeyInvariant, PTL

(* A call may be repeated without harm: both of the above.                 *)
THEOREM RepeatsAreHarmless == Spec => []CallsAreIdempotent
<1>1. KeyAppliesOnce /\ OneAnswerPerKey => CallsAreIdempotent
  BY DEF CallsAreIdempotent
<1> QED
  BY <1>1, IdempotentCalls, SameAnswer, PTL

----------------------------------------------------------------------------
\* Locks exclude each other, and a purchase that was checked stays payable.
LockInv ==
  \A v, w \in Workers :
    /\ Redeeming(v) /\ Redeeming(w) => v = w
    /\ Redeeming(v) => req[w].pc # "buy_commit"
    /\ \A b \in Branches : Buying(v, b) /\ Buying(w, b) => v = w

PayableInv ==
  \A w \in Workers : req[w].pc = "buy_commit" =>
    /\ req[w].branch \in Branches
    /\ req[w].price \in Nat
    /\ req[w].price > 0 => balance[req[w].branch] >= req[w].price

\* The steps that take no profile lock.
NoNewLock ==
  \A w \in Workers : req'[w] = req[w] \/ req'[w].pc \in {"idle", "begin", "refund_commit"}

\* Worker w is not about to buy after the step, and nobody else changes.
NoNewBuyer(w) ==
  \A v \in Workers : IF v = w THEN req'[v].pc # "buy_commit" ELSE req'[v] = req[v]

LEMMA RecordsKeepLocks ==
  ASSUME TypeOK, NEW w \in Workers, Finish(w)
  PROVE  NoNewLock
BY DEF TypeOK, Finish, NoNewLock, Idle

LEMMA LocksExclude ==
  ASSUME TypeOK, LockInv, [Next]_vars
  PROVE  LockInv'
<1>a. NoNewLock => LockInv'
  BY DEF NoNewLock, LockInv, Redeeming, Buying
<1>1. ASSUME NEW w \in Workers, NEW c \in Calls, Replay(w, c) \/ Begin(w, c)
      PROVE  NoNewLock
  BY <1>1 DEF Replay, Begin, NoNewLock, TypeOK
<1>2. ASSUME NEW w \in Workers,
             Accrue(w) \/ InsufficientBalance(w) \/ RedeemCommit(w) \/ RefundCommit(w)
               \/ BuyCommit(w) \/ DeadlockAbort(w)
      PROVE  NoNewLock
  <2>1. Finish(w)
    BY <1>2 DEF Accrue, InsufficientBalance, RedeemCommit, RefundCommit, BuyCommit,
                DeadlockAbort, Conflict, Record, Fail
  <2> QED
    BY <2>1, RecordsKeepLocks
<1>3. ASSUME NEW w \in Workers, RefundLock(w)
      PROVE  NoNewLock
  <2>1. Finish(w) \/ req' = [req EXCEPT ![w].pc = "refund_commit"]
    BY <1>3 DEF RefundLock, Fail, Conflict, Record
  <2>2. CASE req' = [req EXCEPT ![w].pc = "refund_commit"]
    <3>1. req[w] \in [pc : {"begin", "refund_commit"}, call : Calls]
      BY <1>3, RequestCases DEF RefundLock, TypeOK
    <3> QED
      BY <2>2, <3>1 DEF NoNewLock, TypeOK
  <2> QED
    BY <2>1, <2>2, RecordsKeepLocks
<1>4. ASSUME NEW w \in Workers, RedeemCheck(w)
      PROVE  LockInv'
  <2>1. req[w].call \in Calls
    BY <1>4, RequestCases DEF RedeemCheck, RedeemLock, TypeOK
  <2>2. PICK b \in Branches : TRUE
    BY <2>1, CallCases
  <2>3. \A v \in Workers : ~Redeeming(v) /\ \A d \in Branches : ~Buying(v, d)
    BY <1>4, <2>2 DEF RedeemCheck, RedeemLock, ProfileLocked
  <2>4. \A v \in Workers : req[v].pc # "buy_commit"
    BY <2>3, RequestCases DEF Buying, TypeOK
  <2>5. \A v \in Workers : v # w => req'[v] = req[v]
    BY <1>4 DEF RedeemCheck, TypeOK
  <2>6. req'[w].pc = "redeem_commit"
    BY <1>4 DEF RedeemCheck, TypeOK
  <2> QED
    BY <2>3, <2>4, <2>5, <2>6 DEF LockInv, Redeeming, Buying
<1>5. CASE Shop
  <2>1. ASSUME NEW w \in Workers, NEW b \in Branches, NEW price \in Prices,
               BuyCheck(w, b, price)
        PROVE  LockInv'
    <3>1. \A v \in Workers : ~Redeeming(v) /\ ~Buying(v, b)
      BY <2>1 DEF BuyCheck, ProfileLocked
    <3>2. \A v \in Workers : v # w => req'[v] = req[v]
      BY <2>1 DEF BuyCheck, TypeOK
    <3>3. req'[w] = [pc |-> "buy_commit", branch |-> b, price |-> price]
      BY <2>1 DEF BuyCheck, TypeOK
    <3> QED
      BY <3>1, <3>2, <3>3 DEF LockInv, Redeeming, Buying
  <2>2. ASSUME NEW b \in Branches, ActivateShopCooldown(b) \/ ShopCooldownLapses(b)
        PROVE  LockInv'
    BY <2>2 DEF ActivateShopCooldown, ShopCooldownLapses, LockInv, Redeeming, Buying
  <2> QED
    BY <1>5, <2>1, <2>2 DEF Shop
<1>6. CASE UNCHANGED vars
  BY <1>6 DEF vars, LockInv, Redeeming, Buying
<1> QED
  BY <1>a, <1>1, <1>2, <1>3, <1>4, <1>5, <1>6 DEF Next, Call, Execute

LEMMA PurchasesStayPayable ==
  ASSUME TypeOK, LockInv, PayableInv, [Next]_vars
  PROVE  PayableInv'
<1> USE DEF TypeOK
<1>a. ASSUME NEW w \in Workers, NoNewBuyer(w), UNCHANGED balance
      PROVE  PayableInv'
  BY <1>a DEF NoNewBuyer, PayableInv
<1>b. ASSUME NEW w \in Workers, NoNewBuyer(w), NEW b \in Branches \cup {None}, NEW o \in Orders,
             NEW n \in Int, Move(b, o, n),
             n >= 0 \/ \A u \in Workers : u # w => ~Buying(u, b)
      PROVE  PayableInv'
  <2> SUFFICES ASSUME NEW u \in Workers, req'[u].pc = "buy_commit"
               PROVE  /\ req'[u].branch \in Branches
                      /\ req'[u].price \in Nat
                      /\ req'[u].price > 0 => balance'[req'[u].branch] >= req'[u].price
    BY DEF PayableInv
  <2>1. u # w /\ req'[u] = req[u]
    BY <1>b DEF NoNewBuyer
  <2>2. /\ req[u].branch \in Branches /\ req[u].price \in Nat
        /\ req[u].price > 0 => balance[req[u].branch] >= req[u].price
    BY <2>1 DEF PayableInv
  <2>3. balance'[req[u].branch] >= balance[req[u].branch]
    <3>1. CASE req[u].branch = b
      BY <1>b, <2>1, <2>2, <3>1 DEF Move, Buying
    <3>2. CASE req[u].branch # b
      BY <1>b, <2>2, <3>2 DEF Move
    <3> QED
      BY <3>1, <3>2
  <2>4. balance' \in [Branches -> Int]
    BY TypePreserved
  <2> QED
    BY <2>1, <2>2, <2>3, <2>4
<1>c. ASSUME NEW w \in Workers, Finish(w)
      PROVE  NoNewBuyer(w)
  BY <1>c DEF Finish, NoNewBuyer, Idle
<1>1. ASSUME NEW w \in Workers, NEW c \in Calls, Replay(w, c)
      PROVE  PayableInv'
  BY <1>1 DEF Replay, RolledBack, PayableInv
<1>2. ASSUME NEW w \in Workers, NEW c \in Calls, Begin(w, c)
      PROVE  PayableInv'
  BY <1>2, <1>a DEF Begin, RolledBack, NoNewBuyer
<1>3. ASSUME NEW w \in Workers, Accrue(w)
      PROVE  PayableInv'
  <2> DEFINE c == req[w].call
  <2>1. c \in Calls
    BY <1>3, RequestCases DEF Accrue
  <2>2. Finish(w)
    BY <1>3 DEF Accrue, Conflict, Record
  <2>3. UNCHANGED balance \/ Move(c.branch, c.order, c.amount)
    BY <1>3 DEF Accrue, Conflict, RolledBack
  <2> QED
    BY <2>1, <2>2, <2>3, <1>a, <1>b, <1>c, CallCases
<1>4. ASSUME NEW w \in Workers, RedeemCheck(w)
      PROVE  PayableInv'
  BY <1>4, <1>a DEF RedeemCheck, RolledBack, NoNewBuyer
<1>5. ASSUME NEW w \in Workers, InsufficientBalance(w) \/ DeadlockAbort(w)
      PROVE  PayableInv'
  BY <1>5, <1>a, <1>c DEF InsufficientBalance, DeadlockAbort, Fail, RolledBack
<1>6. ASSUME NEW w \in Workers, RedeemCommit(w)
      PROVE  PayableInv'
  <2> DEFINE c == req[w].call
  <2>1. c \in Calls
    BY <1>6, RequestCases DEF RedeemCommit
  <2>2. Finish(w)
    BY <1>6 DEF RedeemCommit, Conflict, Record
  <2>3. UNCHANGED balance \/ Move(c.branch, c.order, -c.amount)
    BY <1>6 DEF RedeemCommit, Conflict, RolledBack
  <2>4. \A u \in Workers : ~Buying(u, c.branch)
    BY <1>6 DEF RedeemCommit, LockInv, Redeeming, Buying
  <2> QED
    BY <2>1, <2>2, <2>3, <2>4, <1>a, <1>b, <1>c, CallCases
<1>7. ASSUME NEW w \in Workers, RefundLock(w)
      PROVE  PayableInv'
  <2>1. UNCHANGED balance
    BY <1>7 DEF RefundLock, Fail, Conflict, RolledBack
  <2>2. Finish(w) \/ req' = [req EXCEPT ![w].pc = "refund_commit"]
    BY <1>7 DEF RefundLock, Fail, Conflict, Record
  <2>3. req[w] \in [pc : {"begin", "refund_commit"}, call : Calls]
    BY <1>7, RequestCases DEF RefundLock
  <2>4. NoNewBuyer(w)
    BY <2>2, <2>3, <1>c DEF NoNewBuyer
  <2> QED
    BY <2>1, <2>4, <1>a
<1>8. ASSUME NEW w \in Workers, RefundCommit(w)
      PROVE  PayableInv'
  <2> DEFINE c == req[w].call
             o == orders[c.order]
  <2>1. c \in Calls
    BY <1>8, RequestCases DEF RefundCommit
  <2>2. Finish(w)
    BY <1>8 DEF RefundCommit, Conflict, Record
  <2>3. UNCHANGED balance \/ Move(o.branch, c.order, Reversal(o))
    BY <1>8 DEF RefundCommit, Conflict, RolledBack
  <2>4. \A u \in Workers : ~Buying(u, o.branch)
    BY <1>8 DEF RefundCommit, ProfileLocked
  <2>5. o.branch \in Branches \cup {None} /\ Reversal(o) \in Int
    BY <2>1, CallCases DEF Order, Reversal
  <2>6. NoNewBuyer(w)
    BY <2>2, <1>c
  <2>7. CASE UNCHANGED balance
    BY <2>6, <2>7, <1>a
  <2>8. CASE Move(o.branch, c.order, Reversal(o))
    <3>1. c.order \in Orders
      BY <2>1, CallCases
    <3> HIDE DEF c, o
    <3> QED
      BY <3>1, <2>4, <2>5, <2>6, <2>8, <1>b
  <2> QED
    BY <2>3, <2>7, <2>8
<1>9. ASSUME NEW w \in Workers, BuyCommit(w)
      PROVE  PayableInv'
  <2> SUFFICES ASSUME NEW u \in Workers, req'[u].pc = "buy_commit"
               PROVE  /\ req'[u].branch \in Branches
                      /\ req'[u].price \in Nat
                      /\ req'[u].price > 0 => balance'[req'[u].branch] >= req'[u].price
    BY DEF PayableInv
  <2>1. u # w /\ req'[u] = req[u]
    BY <1>9, <1>c DEF BuyCommit, NoNewBuyer
  <2>2. /\ req[u].branch \in Branches /\ req[u].price \in Nat
        /\ req[u].price > 0 => balance[req[u].branch] >= req[u].price
    BY <2>1 DEF PayableInv
  <2>3. req[u].branch # req[w].branch
    BY <1>9, <2>1, <2>2 DEF BuyCommit, LockInv, Buying
  <2> QED
    BY <1>9, <2>1, <2>2, <2>3 DEF BuyCommit
<1>10. CASE Shop
  <2>1. ASSUME NEW w \in Workers, NEW b \in Branches, NEW price \in Prices,
               BuyCheck(w, b, price)
        PROVE  PayableInv'
    BY <2>1, CoinsAssumption DEF BuyCheck, RolledBack, PayableInv
  <2>2. ASSUME NEW b \in Branches, ActivateShopCooldown(b) \/ ShopCooldownLapses(b)
        PROVE  PayableInv'
    BY <2>2 DEF ActivateShopCooldown, ShopCooldownLapses, PayableInv
  <2> QED
    BY <1>10, <2>1, <2>2 DEF Shop
<1>11. CASE UNCHANGED vars
  BY <1>11 DEF vars, PayableInv
<1> QED
  BY <1>1, <1>2, <1>3, <1>4, <1>5, <1>6, <1>7, <1>8, <1>9, <1>10, <1>11
  DEF Next, Call, Execute

----------------------------------------------------------------------------
\* The points of one profile at most are moved.
MovesOne == \E b \in Branches : \A other \in Branches \ {b} : balance'[other] = balance[other]

LEMMA MoveMovesOne ==
  ASSUME TypeOK, NEW b \in Branches \cup {None}, NEW o, NEW n, Move(b, o, n), Branches # {}
  PROVE  MovesOne
<1>1. CASE b \in Branches
  BY <1>1 DEF Move, MovesOne, TypeOK
<1>2. CASE b \notin Branches
  BY <1>2 DEF Move, MovesOne, TypeOK
<1> QED
  BY <1>1, <1>2

\* Whoever takes a key is executing a call, which names a branch.
LEMMA SomeBranch ==
  ASSUME TypeOK, [Next]_vars, NEW k \in Keys, NEW r \in Response, Takes(k, r)
  PROVE  Branches # {}
<1>1. keys' # keys
  BY NoneAssumption DEF Takes, TypeOK, Response
<1>2. PICK w \in Workers : Accrue(w) \/ RedeemCommit(w) \/ RefundLock(w) \/ RefundCommit(w)
  BY <1>1 DEF Next, vars, Call, Execute, Shop, Replay, Begin, RedeemCheck, InsufficientBalance,
     BuyCheck, BuyCommit, ActivateShopCooldown, ShopCooldownLapses, DeadlockAbort, Fail, RolledBack
<1>3. req[w].call \in Calls
  BY <1>2, RequestCases DEF Accrue, RedeemCommit, RefundLock, RefundCommit, TypeOK
<1> QED
  BY <1>3, CallCases

\* Points move with a key, in a purchase, or not at all.
LEMMA BalanceSteps ==
  ASSUME TypeOK, [Next]_vars
  PROVE  \/ UNCHANGED balance
         \/ (~OnlyReads /\ MovesOne)
         \/ \E w \in Workers : BuyCommit(w)
<1> USE DEF TypeOK
<1>a. ASSUME NEW w \in Workers, NEW k \in Keys, NEW r, Record(w, k, r)
      PROVE  ~OnlyReads
  <2>1. applied'[k] = applied[k] + 1 /\ applied[k] \in Nat
    BY <1>a DEF Record
  <2> QED
    BY <2>1 DEF OnlyReads
<1>1. ASSUME NEW w \in Workers, NEW c \in Calls, Replay(w, c) \/ Begin(w, c)
      PROVE  UNCHANGED balance
  BY <1>1 DEF Replay, Begin, RolledBack
<1>2. ASSUME NEW w \in Workers, Accrue(w)
      PROVE  UNCHANGED balance \/ (~OnlyReads /\ MovesOne)
  <2> DEFINE c == req[w].call
  <2>1. c \in Calls
    BY <1>2, RequestCases DEF Accrue
  <2>2. \/ UNCHANGED balance
        \/ /\ Move(c.branch, c.order, c.amount)
           /\ Record(w, c.key, [points |-> c.amount, restored |-> 0])
    BY <1>2 DEF Accrue, Conflict, RolledBack
  <2> QED
    BY <2>1, <2>2, <1>a, MoveMovesOne, CallCases
<1>3. ASSUME NEW w \in Workers, RedeemCheck(w) \/ InsufficientBalance(w) \/ DeadlockAbort(w)
      PROVE  UNCHANGED balance
  BY <1>3 DEF RedeemCheck, InsufficientBalance, DeadlockAbort, Fail, RolledBack
<1>4. ASSUME NEW w \in Workers, RedeemCommit(w)
      PROVE  UNCHANGED balance \/ (~OnlyReads /\ MovesOne)
  <2> DEFINE c == req[w].call
  <2>1. c \in Calls
    BY <1>4, RequestCases DEF RedeemCommit
  <2>2. \/ UNCHANGED balance
        \/ /\ Move(c.branch, c.order, -c.amount)
           /\ Record(w, c.key, [points |-> c.amount, restored |-> 0])
    BY <1>4 DEF RedeemCommit, Conflict, RolledBack
  <2> QED
    BY <2>1, <2>2, <1>a, MoveMovesOne, CallCases
<1>5. ASSUME NEW w \in Workers, RefundLock(w)
      PROVE  UNCHANGED balance
  BY <1>5 DEF RefundLock, Fail, Conflict, RolledBack
<1>6. ASSUME NEW w \in Workers, RefundCommit(w)
      PROVE  UNCHANGED balance \/ (~OnlyReads /\ MovesOne)
  <2> DEFINE c == req[w].call
             o == orders[c.order]
  <2>1. c \in Calls
    BY <1>6, RequestCases DEF RefundCommit
  <2>2. \/ UNCHANGED balance
        \/ /\ Move(o.branch, c.order, Reversal(o))
           /\ Record(w, c.key, [points |-> o.earned, restored |-> o.redeemed])
    BY <1>6 DEF RefundCommit, Conflict, RolledBack
  <2>3. o.branch \in Branches \cup {None} /\ Branches # {}
    BY <2>1, CallCases DEF Order
  <2> QED
    BY <2>1, <2>2, <2>3, <1>a, MoveMovesOne, CallCases
<1>7. CASE Shop
  BY <1>7 DEF Shop, BuyCheck, RolledBack, ActivateShopCooldown, ShopCooldownLapses
<1>8. CASE UNCHANGED vars
  BY <1>8 DEF vars
<1> QED
  BY <1>1, <1>2, <1>3, <1>4, <1>5, <1>6, <1>7, <1>8 DEF Next, Call, Execute

\* Purchases are counted when they are committed, and nowhere else.
LEMMA PurchaseSteps ==
  ASSUME [Next]_vars, ~\E w \in Workers : BuyCommit(w)
  PROVE  UNCHANGED purchases
<1>1. ASSUME NEW w \in Workers,
             Accrue(w) \/ RedeemCommit(w) \/ RefundLock(w) \/ RefundCommit(w)
      PROVE  UNCHANGED purchases
  BY <1>1 DEF Accrue, RedeemCommit, RefundLock, RefundCommit, Conflict, Fail, RolledBack
<1>2. ASSUME NEW w \in Workers, RedeemCheck(w) \/ InsufficientBalance(w) \/ DeadlockAbort(w)
      PROVE  UNCHANGED purchases
  BY <1>2 DEF RedeemCheck, InsufficientBalance, DeadlockAbort, Fail, RolledBack
<1>3. ASSUME Call
      PROVE  UNCHANGED purchases
  BY <1>3 DEF Call, Replay, Begin, RolledBack
<1>4. ASSUME Shop
      PROVE  UNCHANGED purchases
  BY <1>4 DEF Shop, BuyCheck, RolledBack, ActivateShopCooldown, ShopCooldownLapses
<1>5. CASE UNCHANGED vars
  BY <1>5 DEF vars
<1> QED
  BY <1>1, <1>2, <1>3, <1>4, <1>5 DEF Next, Execute

(* The service implements the ledger in which every key takes effect in    *)
(* one step: locks, checks, conflicts and roll-backs are stutters, the     *)
(* insert of the key is the effect, and a purchase that costs anything      *)
(* takes points that are there.                                            *)
THEOREM Refinement == Spec => ImplementsOnceLedger
<1> DEFINE Done == {k \in Keys : keys[k] # None}
           Inv  == TypeOK /\ LockInv /\ PayableInv
<1>1. Init => Inv
  BY CoinsAssumption DEF Init, TypeOK, NoOrder, Order, Request, LockInv, PayableInv, Idle,
     Redeeming, Buying
<1>2. Inv /\ [Next]_vars => Inv'
  BY TypePreserved, LocksExclude, PurchasesStayPayable
<1>3. Init => Once!Init
  BY DEF Init, Once!Init
<1>4. Inv /\ [Next]_vars => [Once!Next]_<<Done, balance, purchases>>
  <2> SUFFICES ASSUME Inv, [Next]_vars
               PROVE  Once!Next \/ UNCHANGED <<Done, balance, purchases>>
    OBVIOUS
  <2>1. OnlyReads => UNCHANGED Done
    BY DEF OnlyReads
  <2>2. ASSUME NEW k \in Keys, NEW r \in Response, Takes(k, r)
        PROVE  k \notin Done /\ Done' = Done \cup {k}
    <3>1. r # None
      BY NoneAssumption DEF Response
    <3> QED
      BY <2>2, <3>1 DEF Takes, TypeOK
  <2>3. ASSUME NEW w \in Workers, BuyCommit(w)
        PROVE  Once!Next
    <3> DEFINE b == req[w].branch
    <3>1. /\ b \in Branches /\ req[w].price \in Nat
          /\ req[w].price > 0 => balance[b] >= req[w].price
      BY <2>3 DEF BuyCommit, PayableInv
    <3>2. balance' = [balance EXCEPT ![b] = @ - req[w].price]
          /\ UNCHANGED Done /\ purchases' = purchases + 1
      BY <2>3 DEF BuyCommit
    <3>3. balance'[b] = balance[b] \/ balance'[b] \in 0 .. balance[b]
      BY <3>1, <3>2 DEF TypeOK
    <3>4. \A other \in Branches \ {b} : balance'[other] = balance[other]
      BY <3>1, <3>2 DEF TypeOK
    <3> QED
      BY <3>1, <3>2, <3>3, <3>4 DEF Once!Next, Once!Buy
  <2>4. ASSUME NEW k \in Keys, NEW r \in Response, Takes(k, r), ~\E w \in Workers : BuyCommit(w)
        PROVE  Once!Next
    <3>1. MovesOne
      <4>1. Branches # {}
        BY <2>4, SomeBranch
      <4> QED
        BY <2>4, <4>1, BalanceSteps DEF MovesOne
    <3> QED
      BY <2>2, <2>4, <3>1, PurchaseSteps DEF Once!Next, Once!Apply, MovesOne
  <2>5. CASE OnlyReads /\ ~\E w \in Workers : BuyCommit(w)
    BY <2>1, <2>5, BalanceSteps, PurchaseSteps
  <2> QED
    BY <2>3, <2>4, <2>5, KeySteps
<1> QED
  BY <1>1, <1>2, <1>3, <1>4, PTL DEF Spec, ImplementsOnceLedger, Once!Spec

----------------------------------------------------------------------------
\* Request r executes operation op on order o.
On(r, op, o) == r.pc \in {"begin", "redeem_commit", "refund_commit"}
                  /\ r.call.op = op /\ r.call.order = o

\* What the calls in flight know about their orders, when the backend sends
\* the calls of an order one after the other.
FlightInv ==
  \A w \in Workers :
    /\ req[w].pc = "redeem_commit" =>
         /\ req[w].call.op = "redeem"
         /\ req[w].seen = orders[req[w].call.order].redeemed
    /\ req[w].pc = "refund_commit" =>
         /\ req[w].call.op = "refund"
         /\ orders[req[w].call.order].status = "active"
         /\ \A v \in Workers :
              req[v].pc = "refund_commit" /\ req[v].call.order = req[w].call.order => v = w
    /\ \A o \in Orders : On(req[w], "redeem", o) =>
         /\ orders[o].status = "active"
         /\ \A v \in Workers : ~On(req[v], "refund", o)

BooksInv ==
  \A o \in Orders :
    net[o] = IF orders[o].status = "active" THEN orders[o].earned - orders[o].redeemed ELSE 0

LEMMA EndsKeepFlights ==
  ASSUME TypeOK, FlightInv, NEW w \in Workers, Finish(w), UNCHANGED orders
  PROVE  FlightInv'
BY DEF TypeOK, Finish, Idle, FlightInv, On

LEMMA OrdersAreBalanced ==
  ASSUME TypeOK, LockInv, FlightInv, BooksInv, [Next]_vars, orderly'
  PROVE  FlightInv' /\ BooksInv'
<1> USE DEF TypeOK
<1>a. ASSUME NEW w \in Workers, Finish(w), UNCHANGED <<orders, net>>
      PROVE  FlightInv' /\ BooksInv'
  BY <1>a, EndsKeepFlights DEF BooksInv
<1>b. ASSUME UNCHANGED <<orders, net, req>>
      PROVE  FlightInv' /\ BooksInv'
  BY <1>b DEF FlightInv, BooksInv, On
<1>1. ASSUME NEW w \in Workers, NEW c \in Calls, Replay(w, c)
      PROVE  FlightInv' /\ BooksInv'
  BY <1>1, <1>b DEF Replay, RolledBack
<1>2. ASSUME NEW w \in Workers, NEW c \in Calls, Begin(w, c)
      PROVE  FlightInv' /\ BooksInv'
  <2>1. /\ req' = [req EXCEPT ![w] = [pc |-> "begin", call |-> c]]
        /\ UNCHANGED <<orders, net>>
        /\ InOrder(c)
    BY <1>2 DEF Begin, RolledBack
  <2>2. c.op = "redeem" => /\ orders[c.order].status = "active"
                          /\ \A v \in Workers : ~On(req[v], "refund", c.order)
    BY <2>1 DEF InOrder, InFlight, On
  <2>3. c.op = "refund" => \A v \in Workers : ~On(req[v], "redeem", c.order)
    BY <2>1 DEF InOrder, InFlight, On
  <2>4. FlightInv'
    BY <2>1, <2>2, <2>3 DEF FlightInv, On
  <2> QED
    BY <2>1, <2>4 DEF BooksInv
<1>3. ASSUME NEW w \in Workers, Accrue(w)
      PROVE  FlightInv' /\ BooksInv'
  <2> DEFINE c == req[w].call
  <2>1. c \in Calls /\ Finish(w)
    BY <1>3, RequestCases DEF Accrue, Conflict, Record
  <2>2. CASE Exists(c.order) \/ KeyTaken(c.key)
    BY <1>3, <2>1, <2>2, <1>a DEF Accrue, Conflict, RolledBack
  <2>3. CASE ~(Exists(c.order) \/ KeyTaken(c.key))
    <3>1. /\ orders' = [orders EXCEPT ![c.order] =
                          [status |-> "active", branch |-> c.branch,
                           earned |-> c.amount, redeemed |-> 0]]
          /\ net' = [net EXCEPT ![c.order] = @ + c.amount]
          /\ orders[c.order].status = "none"
      BY <1>3, <2>3 DEF Accrue, Move, Exists
    <3>2. BooksInv'
      BY <2>1, <3>1, CallCases DEF BooksInv
    <3>3. \A v \in Workers : /\ ~On(req[v], "redeem", c.order)
                             /\ req[v].pc \in {"redeem_commit", "refund_commit"} =>
                                  req[v].call.order # c.order
      BY <2>1, <3>1, CallCases, RequestCases DEF FlightInv, On
    <3>4. FlightInv'
      BY <2>1, <3>1, <3>3, CallCases DEF FlightInv, Finish, Idle, On
    <3> QED
      BY <3>2, <3>4
  <2> QED
    BY <2>2, <2>3
<1>4. ASSUME NEW w \in Workers, RedeemCheck(w)
      PROVE  FlightInv' /\ BooksInv'
  <2> DEFINE c == req[w].call
  <2>1. c \in Calls /\ req[w].pc = "begin" /\ c.op = "redeem"
    BY <1>4, RequestCases DEF RedeemCheck, RedeemLock
  <2>2. orders[c.order].status = "active"
    BY <2>1, CallCases DEF FlightInv, On
  <2>3. /\ req' = [req EXCEPT ![w] = [pc |-> "redeem_commit", call |-> c,
                                     seen |-> orders[c.order].redeemed]]
        /\ UNCHANGED <<orders, net>>
    BY <1>4, <2>2 DEF RedeemCheck, RolledBack, Exists
  <2>4. FlightInv'
    BY <2>1, <2>3 DEF FlightInv, On
  <2> QED
    BY <2>3, <2>4 DEF BooksInv
<1>5. ASSUME NEW w \in Workers, InsufficientBalance(w) \/ DeadlockAbort(w)
      PROVE  FlightInv' /\ BooksInv'
  BY <1>5, <1>a DEF InsufficientBalance, DeadlockAbort, Fail, RolledBack
<1>6. ASSUME NEW w \in Workers, RedeemCommit(w)
      PROVE  FlightInv' /\ BooksInv'
  <2> DEFINE c    == req[w].call
             seen == req[w].seen
  <2>1. c \in Calls /\ Finish(w)
    BY <1>6, RequestCases DEF RedeemCommit, Conflict, Record
  <2>2. CASE KeyTaken(c.key)
    BY <1>6, <2>1, <2>2, <1>a DEF RedeemCommit, Conflict, RolledBack
  <2>3. CASE ~KeyTaken(c.key)
    <3>1. /\ seen = orders[c.order].redeemed /\ seen \in Nat
          /\ orders[c.order].status = "active"
      BY <1>6, <2>1, CallCases DEF RedeemCommit, FlightInv, On, Order
    <3>2. seen # None
      BY <3>1, NoneAssumption
    <3>3. /\ orders' = [orders EXCEPT ![c.order].redeemed = seen + c.amount]
          /\ net' = [net EXCEPT ![c.order] = @ - c.amount]
      <4>1. net' = [net EXCEPT ![c.order] = @ + -c.amount]
        BY <1>6, <2>3 DEF RedeemCommit, Move
      <4>2. net[c.order] \in Int /\ c.amount \in Nat
        BY <2>1, CallCases
      <4> QED
        BY <1>6, <2>3, <3>2, <4>1, <4>2 DEF RedeemCommit, SumRedeemed
    <3>4. BooksInv'
      <4>1. net[c.order] = orders[c.order].earned - orders[c.order].redeemed
        BY <2>1, <3>1, CallCases DEF BooksInv
      <4>2. /\ orders[c.order].earned \in Nat /\ c.amount \in Nat
            /\ c.order \in Orders /\ orders[c.order] \in Order
        BY <2>1, CallCases DEF Order
      <4>3. /\ orders'[c.order].redeemed = seen + c.amount
            /\ orders'[c.order].earned = orders[c.order].earned
            /\ orders'[c.order].status = "active"
        BY <3>1, <3>3, <4>2 DEF Order
      <4>4. net'[c.order] = orders'[c.order].earned - orders'[c.order].redeemed
        BY <3>1, <3>3, <4>1, <4>2, <4>3
      <4>5. \A o \in Orders \ {c.order} : orders'[o] = orders[o] /\ net'[o] = net[o]
        BY <3>3
      <4> QED
        BY <4>3, <4>4, <4>5 DEF BooksInv
    <3>5. \A v \in Workers : v # w => req[v].pc # "redeem_commit"
      BY <1>6 DEF RedeemCommit, LockInv, Redeeming
    <3>6. \A o \in Orders : orders'[o].status = orders[o].status
      BY <3>3 DEF Order
    <3>7. FlightInv'
      <4>1. /\ \A v \in Workers : v # w => req'[v] = req[v]
            /\ req'[w] = Idle
        BY <2>1 DEF Finish
      <4>2. \A v \in Workers : req[v].pc = "refund_commit" => req[v].call.order \in Orders
        BY CallCases, RequestCases
      <4> QED
        BY <3>5, <3>6, <4>1, <4>2 DEF FlightInv, On, Idle
    <3> QED
      BY <3>4, <3>7
  <2> QED
    BY <2>2, <2>3
<1>7. ASSUME NEW w \in Workers, RefundLock(w)
      PROVE  FlightInv' /\ BooksInv'
  <2> DEFINE c == req[w].call
  <2>1. /\ c \in Calls /\ req[w].pc = "begin" /\ c.op = "refund"
        /\ req[w] \in [pc : {"begin", "refund_commit"}, call : Calls]
    BY <1>7, RequestCases DEF RefundLock
  <2>2. CASE orders[c.order].status # "active"
    BY <1>7, <2>2, <1>a DEF RefundLock, Fail, Conflict, Record, RolledBack
  <2>3. CASE orders[c.order].status = "active"
    <3>1. /\ req' = [req EXCEPT ![w].pc = "refund_commit"]
          /\ UNCHANGED <<orders, net>>
          /\ ~OrderLocked(c.order)
      BY <1>7, <2>3 DEF RefundLock, RolledBack
    <3>2. /\ req'[w].pc = "refund_commit" /\ req'[w].call = c
          /\ \A v \in Workers : v # w => req'[v] = req[v]
      BY <2>1, <3>1
    <3>3. \A v \in Workers : req[v].pc = "refund_commit" => req[v].call.order # c.order
      BY <3>1 DEF OrderLocked, Refunding
    <3>4. FlightInv'
      BY <2>1, <2>3, <3>1, <3>2, <3>3 DEF FlightInv, On
    <3> QED
      BY <3>1, <3>4 DEF BooksInv
  <2> QED
    BY <2>2, <2>3
<1>8. ASSUME NEW w \in Workers, RefundCommit(w)
      PROVE  FlightInv' /\ BooksInv'
  <2> DEFINE c == req[w].call
             o == orders[c.order]
  <2>1. c \in Calls /\ Finish(w) /\ c.order \in Orders
    BY <1>8, RequestCases, CallCases DEF RefundCommit, Conflict, Record
  <2>2. CASE KeyTaken(c.key)
    BY <1>8, <2>1, <2>2, <1>a DEF RefundCommit, Conflict, RolledBack
  <2>3. CASE ~KeyTaken(c.key)
    <3>1. /\ orders' = [orders EXCEPT ![c.order].status = "refunded"]
          /\ net' = [net EXCEPT ![c.order] = @ + (o.redeemed - o.earned)]
          /\ o.status = "active" /\ c.op = "refund" /\ req[w].pc = "refund_commit"
      BY <1>8, <2>3 DEF RefundCommit, Move, Reversal, FlightInv
    <3>2. BooksInv'
      BY <2>1, <3>1 DEF BooksInv, Order
    <3>3. \A v \in Workers : /\ ~On(req[v], "redeem", c.order)
                             /\ req[v].pc = "refund_commit" /\ v # w =>
                                  req[v].call.order # c.order
      BY <2>1, <3>1 DEF FlightInv, On
    <3>4. \A p \in Orders : /\ orders'[p].redeemed = orders[p].redeemed
                            /\ p # c.order => orders'[p] = orders[p]
      BY <2>1, <3>1 DEF Order
    <3>5. /\ \A v \in Workers : v # w => req'[v] = req[v]
          /\ req'[w] = Idle
      BY <2>1 DEF Finish
    <3>6. \A v \in Workers : req[v].pc \in {"redeem_commit", "refund_commit"} =>
            req[v].call.order \in Orders
      BY CallCases, RequestCases
    <3>7. FlightInv'
      BY <3>3, <3>4, <3>5, <3>6 DEF FlightInv, On, Idle
    <3> QED
      BY <3>2, <3>7
  <2> QED
    BY <2>2, <2>3
<1>9. ASSUME NEW w \in Workers, BuyCommit(w)
      PROVE  FlightInv' /\ BooksInv'
  BY <1>9, <1>a DEF BuyCommit
<1>10. CASE Shop
  <2>1. ASSUME NEW w \in Workers, NEW b \in Branches, NEW price \in Prices,
               BuyCheck(w, b, price)
        PROVE  FlightInv' /\ BooksInv'
    BY <2>1 DEF BuyCheck, RolledBack, FlightInv, BooksInv, On
  <2>2. ASSUME NEW b \in Branches, ActivateShopCooldown(b) \/ ShopCooldownLapses(b)
        PROVE  FlightInv' /\ BooksInv'
    BY <2>2, <1>b DEF ActivateShopCooldown, ShopCooldownLapses
  <2> QED
    BY <1>10, <2>1, <2>2 DEF Shop
<1>11. CASE UNCHANGED vars
  BY <1>11, <1>b DEF vars
<1> QED
  BY <1>1, <1>2, <1>3, <1>4, <1>5, <1>6, <1>7, <1>8, <1>9, <1>10, <1>11
  DEF Next, Call, Execute

\* An order of calls once broken stays broken.
LEMMA OrderIsLostForEver ==
  ASSUME [Next]_vars, orderly'
  PROVE  orderly
<1>1. ASSUME NEW w \in Workers, NEW c \in Calls, Replay(w, c) \/ Begin(w, c)
      PROVE  orderly
  BY <1>1 DEF Replay, Begin
<1>2. ASSUME NEW w \in Workers, Execute(w) \/ DeadlockAbort(w)
      PROVE  orderly
  <2>1. ASSUME NEW k, Conflict(w, k)
        PROVE  orderly
    BY <2>1 DEF Conflict
  <2>2. ASSUME NEW k, NEW r, Record(w, k, r)
        PROVE  orderly
    BY <2>2 DEF Record
  <2>3. ASSUME Fail(w) \/ RedeemCheck(w) \/ BuyCommit(w)
        PROVE  orderly
    BY <2>3 DEF Fail, RedeemCheck, BuyCommit
  <2>4. ASSUME Accrue(w) \/ RedeemCommit(w) \/ RefundCommit(w)
        PROVE  orderly
    BY <2>1, <2>2, <2>4 DEF Accrue, RedeemCommit, RefundCommit
  <2>5. ASSUME RefundLock(w)
        PROVE  orderly
    BY <2>1, <2>2, <2>3, <2>5 DEF RefundLock
  <2> QED
    BY <1>2, <2>3, <2>4, <2>5 DEF Execute, InsufficientBalance, DeadlockAbort
<1>3. CASE Shop
  BY <1>3 DEF Shop, BuyCheck, ActivateShopCooldown, ShopCooldownLapses
<1>4. CASE UNCHANGED vars
  BY <1>4 DEF vars
<1> QED
  BY <1>1, <1>2, <1>3, <1>4 DEF Next, Call

LEMMA OrdersKeepBooks == Spec => [](RefundedOrderIsNeutral /\ OrderCarriesMovements)
<1> DEFINE Inv == TypeOK /\ LockInv /\ (orderly => FlightInv /\ BooksInv)
<1>1. Init => Inv
  BY CoinsAssumption DEF Init, TypeOK, NoOrder, Order, Request, LockInv, Idle, Redeeming,
     Buying, FlightInv, BooksInv, On
<1>2. Inv /\ [Next]_vars => Inv'
  <2> SUFFICES ASSUME Inv, [Next]_vars PROVE Inv'
    OBVIOUS
  <2>1. TypeOK' /\ LockInv'
    BY TypePreserved, LocksExclude
  <2>2. ASSUME orderly'
        PROVE  FlightInv' /\ BooksInv'
    BY <2>2, OrderIsLostForEver, OrdersAreBalanced
  <2> QED
    BY <2>1, <2>2
<1>3. Inv => RefundedOrderIsNeutral /\ OrderCarriesMovements
  BY DEF TypeOK, Order, BooksInv, RefundedOrderIsNeutral, OrderCarriesMovements
<1> QED
  BY <1>1, <1>2, <1>3, PTL DEF Spec

(* As long as the backend sends the calls of an order one after the other, *)
(* a refunded order has moved nothing in total.                            *)
THEOREM RefundsAreNeutral == Spec => []RefundedOrderIsNeutral
  BY OrdersKeepBooks, PTL

(* As long as it does, an active order carries exactly its movements, so   *)
(* that a refund reverses all of them.                                     *)
THEOREM OrdersCarryMovements == Spec => []OrderCarriesMovements
  BY OrdersKeepBooks, PTL

----------------------------------------------------------------------------
\* The network balance is the sum over the profiles.
LEMMA NetworkIsTotal ==
  ASSUME NEW f \in [Branches -> Int]
  PROVE  FoldFunction(Plus, 0, f) = Total(f, Branches)
<1> DEFINE Body(h) == [s \in SUBSET DOMAIN f |->
                         IF s = {} THEN 0 ELSE f[First(s)] + h[s \ {First(s)}]]
<1>1. FoldFunction(Plus, 0, f) = (CHOOSE h : h = Body(h))[DOMAIN f]
  BY DEF FoldFunction, FoldFunctionOnSet, MapThenFoldSet, First, Plus
<1> QED
  BY <1>1 DEF Total, Adds

LEMMA NetworkChange ==
  ASSUME TypeOK, TypeOK', NEW b, NEW n \in Int,
         balance' = [balance EXCEPT ![b] = @ + n]
  PROVE  /\ NetworkBalance \in Int /\ NetworkBalance' \in Int
         /\ NetworkBalance' = NetworkBalance + (IF b \in Branches THEN n ELSE 0)
<1>1. balance \in [Branches -> Int] /\ balance' \in [Branches -> Int] /\ IsFiniteSet(Branches)
  BY CoinsAssumption DEF TypeOK
<1>2. NetworkBalance = Total(balance, Branches) /\ NetworkBalance' = Total(balance', Branches)
  BY <1>1, NetworkIsTotal DEF NetworkBalance
<1>3. \A c \in Branches : balance'[c] = IF c = b THEN balance[c] + n ELSE balance[c]
  BY <1>1
<1>4. Total(balance', Branches) = Total(balance, Branches) + (IF b \in Branches THEN n ELSE 0)
  <2> DEFINE f == balance
             g == balance'
  <2>1. IsFiniteSet(Branches) /\ \A c \in Branches : f[c] \in Int
    BY <1>1
  <2>2. \A c \in Branches : g[c] = IF c = b THEN f[c] + n ELSE f[c]
    BY <1>3
  <2> HIDE DEF f, g
  <2>3. Total(g, Branches) = Total(f, Branches) + (IF b \in Branches THEN n ELSE 0)
    BY <2>1, <2>2, TotalChange
  <2> QED
    BY <2>3 DEF f, g
<1>5. Total(balance, Branches) \in Int /\ Total(balance', Branches) \in Int
  BY <1>1, TotalType
<1> QED
  BY <1>2, <1>4, <1>5

\* Nothing but refunds has taken the network below zero, and what a redeem has
\* checked is still there.
OverdraftInv ==
  /\ NetworkBalance + reversed >= 0
  /\ \A w \in Workers : Redeeming(w) => NetworkBalance + reversed >= req[w].call.amount

\* Who buys pays a price of the shop.
PriceInv == \A w \in Workers : req[w].pc = "buy_commit" => req[w].price \in Prices

OneProfileOrFreeShop == Prices \subseteq {0} \/ \E b : Branches = {b}

LEMMA PricesKept ==
  ASSUME TypeOK, PriceInv, [Next]_vars
  PROVE  PriceInv'
<1> USE DEF TypeOK
<1>a. ASSUME NEW w \in Workers, NoNewBuyer(w)
      PROVE  PriceInv'
  BY <1>a DEF NoNewBuyer, PriceInv
<1>b. ASSUME NEW w \in Workers, Finish(w)
      PROVE  NoNewBuyer(w)
  BY <1>b DEF Finish, NoNewBuyer, Idle
<1>1. CASE Call
  BY <1>1, <1>a DEF Call, Replay, Begin, NoNewBuyer, PriceInv
<1>2. ASSUME NEW w \in Workers, Accrue(w) \/ InsufficientBalance(w) \/ RedeemCommit(w)
               \/ RefundCommit(w) \/ BuyCommit(w) \/ DeadlockAbort(w)
      PROVE  PriceInv'
  <2>1. Finish(w)
    BY <1>2 DEF Accrue, InsufficientBalance, RedeemCommit, RefundCommit, BuyCommit, DeadlockAbort,
                Conflict, Record, Fail
  <2> QED
    BY <2>1, <1>a, <1>b
<1>3. ASSUME NEW w \in Workers, RedeemCheck(w)
      PROVE  PriceInv'
  BY <1>3, <1>a DEF RedeemCheck, NoNewBuyer
<1>4. ASSUME NEW w \in Workers, RefundLock(w)
      PROVE  PriceInv'
  <2>1. Finish(w) \/ req' = [req EXCEPT ![w].pc = "refund_commit"]
    BY <1>4 DEF RefundLock, Fail, Conflict, Record
  <2>2. req[w] \in [pc : {"begin", "refund_commit"}, call : Calls]
    BY <1>4, RequestCases DEF RefundLock
  <2> QED
    BY <2>1, <2>2, <1>a, <1>b DEF NoNewBuyer
<1>5. CASE Shop
  BY <1>5 DEF Shop, BuyCheck, ActivateShopCooldown, ShopCooldownLapses, PriceInv
<1>6. CASE UNCHANGED vars
  BY <1>6 DEF vars, PriceInv
<1> QED
  BY <1>1, <1>2, <1>3, <1>4, <1>5, <1>6 DEF Next, Execute

LEMMA OverdraftPreserved ==
  ASSUME OneProfileOrFreeShop, TypeOK, TypeOK', LockInv, PayableInv, PriceInv, OverdraftInv, [Next]_vars
  PROVE  OverdraftInv'
<1> DEFINE x == NetworkBalance
           y == NetworkBalance'
<1>t. x \in Int /\ reversed \in Nat /\ reversed' \in Nat /\ balance \in [Branches -> Int]
  <2>1. balance \in [Branches -> Int] /\ IsFiniteSet(Branches)
    BY CoinsAssumption DEF TypeOK
  <2>2. NetworkBalance = Total(balance, Branches)
    BY <2>1, NetworkIsTotal DEF NetworkBalance
  <2>3. Total(balance, Branches) \in Int
    BY <2>1, TotalType
  <2> QED
    BY <2>1, <2>2, <2>3 DEF TypeOK
<1>i. x + reversed >= 0 /\ \A v \in Workers : Redeeming(v) => x + reversed >= req[v].call.amount
  BY DEF OverdraftInv
<1>o. ASSUME y + reversed' >= 0, \A v \in Workers : Redeeming(v)' => y + reversed' >= req'[v].call.amount
      PROVE  OverdraftInv'
  BY <1>o DEF OverdraftInv
<1>u. UNCHANGED balance => y = x
  BY DEF NetworkBalance
<1>m. ASSUME NEW b \in Branches \cup {None}, NEW n \in Int, balance' = [balance EXCEPT ![b] = @ + n]
      PROVE  y \in Int /\ y = x + (IF b \in Branches THEN n ELSE 0)
  BY <1>m, NetworkChange
<1>r. \A v \in Workers : Redeeming(v) => req[v].call.amount \in Nat
  BY RequestCases, CallCases DEF Redeeming, TypeOK
<1> HIDE DEF x, y
\* No new redeem, and no less in the network.
<1>a. ASSUME \A v \in Workers : Redeeming(v)' => Redeeming(v) /\ req'[v] = req[v],
             y \in Int, y + reversed' >= x + reversed
      PROVE  OverdraftInv'
  <2> DEFINE m == x + reversed
             n == y + reversed'
  <2>1. m \in Int /\ n \in Int
    BY <1>a, <1>t
  <2>2. n >= m
    BY <1>a
  <2>3. m >= 0 /\ \A v \in Workers : Redeeming(v) => m >= req[v].call.amount
    BY <1>i
  <2> HIDE DEF m, n
  <2>4. n >= 0
    BY <2>1, <2>2, <2>3
  <2>5. ASSUME NEW v \in Workers, Redeeming(v)'
        PROVE  n >= req'[v].call.amount
    <3>1. Redeeming(v) /\ req'[v] = req[v]
      BY <1>a, <2>5
    <3> DEFINE k == req[v].call.amount
    <3>2. k \in Nat /\ m >= k
      BY <1>r, <2>3, <3>1
    <3> HIDE DEF k
    <3>3. n >= k
      BY <2>1, <2>2, <3>2
    <3> QED
      BY <3>1, <3>3 DEF k
  <2> QED
    BY <1>o, <2>4, <2>5 DEF n
<1>s. ASSUME \A v \in Workers : Redeeming(v)' => Redeeming(v) /\ req'[v] = req[v],
             UNCHANGED <<balance, reversed>>
      PROVE  OverdraftInv'
  <2>1. y \in Int /\ y + reversed' >= x + reversed
    BY <1>s, <1>t, <1>u
  <2> QED
    BY <1>a, <1>s, <2>1
<1>f. ASSUME NEW w \in Workers, Finish(w)
      PROVE  \A v \in Workers : Redeeming(v)' => v # w /\ Redeeming(v) /\ req'[v] = req[v]
  BY <1>f DEF Finish, Redeeming, Idle, TypeOK
<1>1. CASE Call
  <2>1. UNCHANGED <<balance, reversed>>
    BY <1>1 DEF Call, Replay, Begin, RolledBack
  <2>2. \A v \in Workers : Redeeming(v)' => Redeeming(v) /\ req'[v] = req[v]
    BY <1>1 DEF Call, Replay, Begin, Redeeming, TypeOK
  <2> QED
    BY <1>s, <2>1, <2>2
<1>2. ASSUME NEW w \in Workers, Accrue(w)
      PROVE  OverdraftInv'
  <2> DEFINE c == req[w].call
  <2>1. c \in Calls /\ c.amount \in Nat /\ c.branch \in Branches
    BY <1>2, RequestCases, CallCases DEF Accrue, TypeOK
  <2>2. Finish(w) /\ UNCHANGED reversed
    BY <1>2 DEF Accrue, Conflict, Record, RolledBack
  <2>3. UNCHANGED balance \/ balance' = [balance EXCEPT ![c.branch] = @ + c.amount]
    BY <1>2 DEF Accrue, Conflict, RolledBack, Move
  <2>4. y \in Int /\ y >= x
    BY <1>t, <1>u, <1>m, <2>1, <2>3
  <2>5. y + reversed' >= x + reversed
    BY <1>t, <2>2, <2>4
  <2>6. \A v \in Workers : Redeeming(v)' => Redeeming(v) /\ req'[v] = req[v]
    BY <1>f, <2>2
  <2> QED
    BY <1>a, <2>4, <2>5, <2>6
<1>3. ASSUME NEW w \in Workers, RedeemCheck(w)
      PROVE  OverdraftInv'
  <2>1. x >= req[w].call.amount
    BY <1>3 DEF RedeemCheck, x
  <2>2. /\ UNCHANGED <<balance, reversed>> /\ req'[w].call = req[w].call
        /\ \A v \in Workers : v # w => req'[v] = req[v]
    BY <1>3 DEF RedeemCheck, RolledBack, TypeOK
  <2>3. req[w].call.amount \in Nat
    BY <1>3, RequestCases, CallCases DEF RedeemCheck, RedeemLock, TypeOK
  <2>4. y + reversed' = x + reversed
    BY <1>u, <2>2
  <2>5. ASSUME NEW v \in Workers, Redeeming(v)'
        PROVE  x + reversed >= req'[v].call.amount
    <3>1. CASE v = w
      BY <1>t, <2>1, <2>2, <2>3, <3>1
    <3>2. CASE v # w
      BY <1>i, <2>2, <2>5, <3>2 DEF Redeeming
    <3> QED
      BY <3>1, <3>2
  <2> QED
    BY <1>i, <1>o, <2>4, <2>5
<1>4. ASSUME NEW w \in Workers, InsufficientBalance(w) \/ DeadlockAbort(w)
      PROVE  OverdraftInv'
  <2>1. Finish(w) /\ UNCHANGED <<balance, reversed>>
    BY <1>4 DEF InsufficientBalance, DeadlockAbort, Fail, RolledBack
  <2>2. \A v \in Workers : Redeeming(v)' => Redeeming(v) /\ req'[v] = req[v]
    BY <1>f, <2>1
  <2> QED
    BY <1>s, <2>1, <2>2
<1>5. ASSUME NEW w \in Workers, RedeemCommit(w)
      PROVE  OverdraftInv'
  <2> DEFINE c == req[w].call
  <2>1. c \in Calls /\ c.amount \in Nat /\ c.branch \in Branches /\ Redeeming(w)
    BY <1>5, RequestCases, CallCases DEF RedeemCommit, Redeeming, TypeOK
  <2>2. Finish(w) /\ UNCHANGED reversed
    BY <1>5 DEF RedeemCommit, Conflict, Record, RolledBack
  <2>3. UNCHANGED balance \/ balance' = [balance EXCEPT ![c.branch] = @ + (-c.amount)]
    BY <1>5 DEF RedeemCommit, Conflict, RolledBack, Move
  <2>4. y \in Int /\ y >= x - c.amount
    BY <1>t, <1>u, <1>m, <2>1, <2>3
  <2>5. x + reversed >= c.amount
    BY <1>i, <2>1
  <2>6. \A v \in Workers : ~Redeeming(v)'
    BY <1>f, <2>1, <2>2 DEF LockInv
  <2>7. y + reversed' >= 0
    BY <1>t, <2>1, <2>2, <2>4, <2>5
  <2> QED
    BY <1>o, <2>6, <2>7
<1>6. ASSUME NEW w \in Workers, RefundLock(w)
      PROVE  OverdraftInv'
  <2>1. UNCHANGED <<balance, reversed>>
    BY <1>6 DEF RefundLock, Fail, Conflict, Record, RolledBack
  <2>2. Finish(w) \/ req' = [req EXCEPT ![w].pc = "refund_commit"]
    BY <1>6 DEF RefundLock, Fail, Conflict, Record
  <2>3. req[w] \in [pc : {"begin", "refund_commit"}, call : Calls]
    BY <1>6, RequestCases DEF RefundLock, TypeOK
  <2>4. \A v \in Workers : Redeeming(v)' => Redeeming(v) /\ req'[v] = req[v]
    BY <2>2, <2>3, <1>f DEF Redeeming, TypeOK
  <2> QED
    BY <1>s, <2>1, <2>4
<1>7. ASSUME NEW w \in Workers, RefundCommit(w)
      PROVE  OverdraftInv'
  <2> DEFINE c == req[w].call
             o == orders[c.order]
             e == o.earned
             d == o.redeemed
  <2>1. c \in Calls /\ e \in Nat /\ d \in Nat /\ o.branch \in Branches \cup {None}
    BY <1>7, RequestCases, CallCases DEF RefundCommit, TypeOK, Order
  <2>2. Finish(w)
    BY <1>7 DEF RefundCommit, Conflict, Record
  <2>3. \/ UNCHANGED <<balance, reversed>>
        \/ /\ balance' = [balance EXCEPT ![o.branch] = @ + (d - e)]
           /\ reversed' = reversed + e
    BY <1>7 DEF RefundCommit, Conflict, RolledBack, Move, Reversal
  <2> HIDE DEF o, e, d
  <2>4. CASE UNCHANGED <<balance, reversed>>
    BY <1>f, <1>s, <2>2, <2>4
  <2>5. CASE balance' = [balance EXCEPT ![o.branch] = @ + (d - e)] /\ reversed' = reversed + e
    <3>1. d - e \in Int
      BY <2>1
    <3>2. y \in Int /\ y = x + (IF o.branch \in Branches THEN d - e ELSE 0)
      BY <1>m, <2>1, <2>5, <3>1
    <3>3. y + reversed' >= x + reversed
      BY <1>t, <2>1, <2>5, <3>2
    <3>4. \A v \in Workers : Redeeming(v)' => Redeeming(v) /\ req'[v] = req[v]
      BY <1>f, <2>2
    <3> QED
      BY <1>a, <3>2, <3>3, <3>4
  <2> QED
    BY <2>3, <2>4, <2>5
<1>8. ASSUME NEW w \in Workers, BuyCommit(w)
      PROVE  OverdraftInv'
  <2> DEFINE b == req[w].branch
             n == req[w].price
  <2>1. /\ req[w].pc = "buy_commit" /\ Finish(w) /\ UNCHANGED reversed
        /\ balance' = [balance EXCEPT ![b] = @ - n]
    BY <1>8 DEF BuyCommit
  <2>2. b \in Branches /\ n \in Nat /\ (n > 0 => balance[b] >= n) /\ n \in Prices
    BY <2>1 DEF PayableInv, PriceInv
  <2>3. n = 0 \/ Branches = {b}
    BY <2>2 DEF OneProfileOrFreeShop
  <2> HIDE DEF b, n
  <2>4. ASSUME Branches = {b}
        PROVE  x = balance[b] /\ balance[b] \in Int
    <3>1. IsFiniteSet({b}) /\ IsFiniteSet({})
      BY FS_EmptySet, FS_Singleton
    <3>2. Total(balance, {b}) = balance[First({b})] + Total(balance, {b} \ {First({b})})
      BY <3>1, TotalStep
    <3>3. First({b}) = b /\ {b} \ {b} = {}
      BY FirstIn
    <3>4. Total(balance, {}) = 0
      BY <3>1, TotalZero
    <3>5. balance[b] \in Int
      BY <1>t, <2>2
    <3>6. Total(balance, {b}) = balance[b] + Total(balance, {b} \ {b})
      BY <3>2, <3>3
    <3>7. Total(balance, {b} \ {b}) = 0
      BY <3>3, <3>4
    <3>8. Total(balance, {b}) = balance[b]
      BY <3>5, <3>6, <3>7
    <3> QED
      BY <1>t, <2>4, <3>5, <3>8, NetworkIsTotal DEF NetworkBalance, x
  <2>5. y \in Int /\ y = x - n
    <3>1. balance' = [balance EXCEPT ![b] = @ + (-n)] /\ -n \in Int
      <4>1. -n \in Int /\ balance[b] - n = balance[b] + (-n)
        BY <1>t, <2>2
      <4> QED
        BY <2>1, <4>1
    <3>2. y \in Int /\ y = x + (-n)
      BY <1>m, <2>2, <3>1
    <3> QED
      BY <1>t, <2>2, <3>2
  <2>6. \A v \in Workers : ~Redeeming(v)'
    BY <1>f, <2>1 DEF LockInv
  <2>7. y + reversed' >= 0
    <3>1. CASE n = 0
      BY <1>i, <1>t, <2>1, <2>5, <3>1
    <3>2. CASE n # 0
      BY <1>t, <2>1, <2>2, <2>3, <2>4, <2>5, <3>2
    <3> QED
      BY <3>1, <3>2
  <2> QED
    BY <1>o, <2>6, <2>7
<1>9. CASE Shop
  <2>1. UNCHANGED <<balance, reversed>>
    BY <1>9 DEF Shop, BuyCheck, RolledBack, ActivateShopCooldown, ShopCooldownLapses
  <2>2. \A v \in Workers : Redeeming(v)' => Redeeming(v) /\ req'[v] = req[v]
    BY <1>9 DEF Shop, BuyCheck, ActivateShopCooldown, ShopCooldownLapses, Redeeming, TypeOK
  <2> QED
    BY <1>s, <2>1, <2>2
<1>10. CASE UNCHANGED vars
  BY <1>s, <1>10 DEF vars, Redeeming
<1> QED
  BY <1>1, <1>2, <1>3, <1>4, <1>5, <1>6, <1>7, <1>8, <1>9, <1>10 DEF Next, Execute

(* Where the guest has one profile, or nothing is sold for points, only     *)
(* refunds of accruals already spent overdraw the network, for any calls,   *)
(* repeated and overlapping in any way. Elsewhere buy_product, which looks  *)
(* at one profile, spends points that a redeem took from another one.       *)
THEOREM OverdraftsAreRefunds ==
  ASSUME OneProfileOrFreeShop
  PROVE  Spec => []OverdraftOnlyByRefund
<1> DEFINE Inv == TypeOK /\ LockInv /\ PayableInv /\ PriceInv /\ OverdraftInv
<1>1. Init => Inv
  <2> SUFFICES ASSUME Init
               PROVE  Inv
    OBVIOUS
  <2>1. TypeOK /\ LockInv /\ PayableInv /\ PriceInv /\ \A w \in Workers : ~Redeeming(w)
    BY CoinsAssumption DEF Init, TypeOK, NoOrder, Order, Request, LockInv, PayableInv, PriceInv,
       Idle, Redeeming, Buying
  <2>2. NetworkBalance \in Nat
    <3>1. /\ IsFiniteSet(Branches) /\ balance \in [Branches -> Nat] /\ balance \in [Branches -> Int]
      BY CoinsAssumption DEF Init
    <3>2. Total(balance, Branches) \in Nat
      BY <3>1, TotalNat
    <3> QED
      BY <3>1, <3>2, NetworkIsTotal DEF NetworkBalance
  <2>3. reversed = 0
    BY DEF Init
  <2> QED
    BY <2>1, <2>2, <2>3 DEF OverdraftInv
<1>2. Inv /\ [Next]_vars => Inv'
  <2> SUFFICES ASSUME Inv, [Next]_vars PROVE Inv'
    OBVIOUS
  <2>1. TypeOK' /\ LockInv' /\ PayableInv' /\ PriceInv'
    BY TypePreserved, LocksExclude, PurchasesStayPayable, PricesKept
  <2> QED
    BY <2>1, OverdraftPreserved
<1>3. Inv => OverdraftOnlyByRefund
  BY DEF OverdraftInv, OverdraftOnlyByRefund
<1> QED
  BY <1>1, <1>2, <1>3, PTL DEF Spec
=============================================================================
