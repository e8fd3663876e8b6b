------------------------ MODULE GiftInventoryProofs ------------------------
(***************************************************************************)
(* Proofs about GiftInventory, for every set of profiles, gifts, vouchers, *)
(* orders, workers and scenarios.                                          *)
(***************************************************************************)
EXTENDS GiftInventory, TLAPS

\* What requests know about the rows they have read: locked rows stay as they
\* were, a form knows whose row it holds.
RowsInv ==
  \A w \in Workers :
    /\ Doing(w, "activate") => State(req[w].gift, "pending")
    /\ Doing(w, "redeem")   => State(req[w].gift, "active")
    /\ Doing(w, "prize")    => voucher[req[w].voucher] = "pending"
    /\ Doing(w, "form")     =>
         /\ Inserted(req[w].gift)
         /\ gift[req[w].gift].src = req[w].seen.src
         /\ gift[req[w].gift].at = req[w].seen.at
         /\ gift[req[w].gift].year = req[w].seen.year
         /\ req[w].seen.by = None <=> req[w].seen.state # "used"

\* Two requests never hold the same lock.
LockInv ==
  \A v, w \in Workers : v # w =>
    /\ Doing(v, "activate") => ~Doing(w, "activate") /\ ~Doing(w, "birthday")
    /\ Doing(v, "birthday") => ~Doing(w, "birthday")
    /\ Doing(v, "redeem") /\ req[w].pc \in {"activate", "redeem"} => req[v].gift # req[w].gift
    /\ Doing(v, "prize") /\ Doing(w, "prize") => req[v].voucher # req[w].voucher

\* A gift that may have been charged: activated, or too late to be.
Spent(i) == i \in late \/ (Inserted(i) /\ Activated(gift[i]))

\* ChargedOnce: what the activation in flight is about to record is not there yet.
CostInv ==
  /\ \A i \in Gifts : costs[i] <= (IF Spent(i) THEN 1 ELSE 0) + reopened[i]
  /\ \A w \in Workers : Doing(w, "activate") => costs[req[w].gift] <= reopened[req[w].gift]

\* HandedOutOnce: a hand-out that was not erased shows in the row.
HandInv == \A i \in Gifts : handed[i] <= (IF State(i, "used") THEN 1 ELSE 0) + erased[i]

\* OncePerCooldown: what started is cooling; an activation in flight found it free.
CooldownInv ==
  /\ \A p \in Profiles : started[p] = 0 \/ (started[p] = 1 /\ p \in cooling)
  /\ \A w \in Workers : Doing(w, "activate") /\ ~NeedsCode(gift[req[w].gift].src) =>
       started[gift[req[w].gift].at] = 0

\* One birthday gift per year; the check of a claim in flight still holds.
BirthdayInv ==
  /\ \A i \in Gifts : From(i, "birthday") => gift[i].year <= year
  /\ \A w \in Workers : Doing(w, "birthday") => ThisYearsGifts = {}
  /\ \A i, j \in Gifts :
       From(i, "birthday") /\ From(j, "birthday") /\ gift[i].year = gift[j].year => i = j

\* One apology, as long as no two grants overlapped.
ApologyInv ==
  ~raced =>
    /\ \A w \in Workers : Doing(w, "apology") =>
         Apologies = {} /\ \A v \in Workers : Doing(v, "apology") => v = w
    /\ \A i, j \in Apologies : i = j

\* A voucher that paid is claimed, or expired under its claim, or was reopened.
PrizeInv ==
  /\ \A v \in Vouchers :
       paid[v] <= (IF voucher[v] # "pending" \/ v \in expired THEN 1 ELSE 0) + returned[v]
  /\ \A w \in Workers : Doing(w, "prize") => paid[req[w].voucher] <= returned[req[w].voucher]

----------------------------------------------------------------------------
\* What a request of each pc carries.
LEMMA RequestCases ==
  ASSUME NEW r \in Request
  PROVE  /\ r.pc \in {"idle", "activate", "redeem", "birthday", "apology", "prize", "form"}
         /\ r.pc = "activate" => r \in [pc : {"activate"}, gift : Gifts]
         /\ r.pc = "redeem" => r \in [pc : {"redeem"}, gift : Gifts, order : Orders]
         /\ r.pc \in {"birthday", "apology"} => r \in [pc : {"birthday", "apology"}, at : Profiles]
         /\ r.pc = "prize" => r \in [pc : {"prize"}, voucher : Vouchers]
         /\ r.pc = "form" => r \in [pc : {"form"}, gift : Gifts, seen : Gift]
  BY DEF Request, Idle

\* Inserting a row adds it and leaves the others as they are.
LEMMA Inserts ==
  ASSUME TypeOK, NEW src \in Sources, NEW at \in Profiles, NEW state \in {"played", "pending"},
         Insert(src, at, state)
  PROVE  \E i \in Gifts :
           /\ gift[i] = NoGift
           /\ gift' = [gift EXCEPT ![i] = [src |-> src, at |-> at, year |-> year,
                                          state |-> state, by |-> None]]
           /\ gift'[i] \in Gift /\ gift'[i] # NoGift
           /\ gift' \in [Gifts -> Gift \cup {NoGift}]
<1>1. PICK i \in Gifts :
        /\ gift[i] = NoGift
        /\ gift' = [gift EXCEPT ![i] = [src |-> src, at |-> at, year |-> year,
                                       state |-> state, by |-> None]]
  BY DEF Insert, Inserted
<1>2. [src |-> src, at |-> at, year |-> year, state |-> state, by |-> None] \in Gift
  BY DEF Gift, TypeOK
<1> QED
  BY <1>1, <1>2, RowsAssumption DEF TypeOK

\* TypeOK is preserved, given what requests know about rows.
LEMMA TypePreserved ==
  ASSUME TypeOK, RowsInv, [Next]_vars
  PROVE  TypeOK'
<1> USE DEF TypeOK, rows, history
<1>a. ASSUME NEW w \in Workers, NEW r \in Request, Start(w, r) \/ Finish(w)
      PROVE  req' \in [Workers -> Request]
  BY <1>a DEF Start, Finish, Request
<1>b. ASSUME NEW w \in Workers, NEW r \in Request, Start(w, r) \/ Finish(w), Nothing
      PROVE  TypeOK'
  BY <1>a, <1>b DEF Nothing, Inserted
<1>1. ASSUME NEW w \in Workers, NEW i \in Gifts, ActivateCheck(w, i)
      PROVE  TypeOK'
  <2>1. [pc |-> "activate", gift |-> i] \in Request
    BY DEF Request
  <2> QED
    BY <1>1, <2>1, <1>b DEF ActivateCheck
<1>2. ASSUME NEW w \in Workers, ActivateCommit(w)
      PROVE  TypeOK'
  <2> DEFINE i == req[w].gift
  <2>1. i \in Gifts /\ State(i, "pending") /\ gift[i] \in Gift /\ gift[i].at \in Profiles
    BY <1>2, RequestCases DEF ActivateCommit, RowsInv, Doing, State, Inserted, Gift
  <2>2. gift' = gift \/ gift' = [gift EXCEPT ![i].state = "active"]
    BY <1>2 DEF ActivateCommit
  <2>3. gift' \in [Gifts -> Gift \cup {NoGift}]
    BY <2>1, <2>2 DEF Gift
  <2>4. \A j \in Gifts : gift'[j] # NoGift => (gift'[j].by = None <=> gift'[j].state # "used")
    <3>1. CASE gift' = gift
      BY <3>1 DEF Inserted
    <3>2. CASE gift' = [gift EXCEPT ![i].state = "active"]
      BY <3>2, <2>1 DEF Inserted, State, Gift
    <3> QED
      BY <2>2, <3>1, <3>2
  <2>5. costs' \in [Gifts -> Nat] /\ started' \in [Profiles -> Nat]
        /\ cooling' \subseteq Profiles /\ over' \subseteq Gifts
    BY <1>2, <2>1 DEF ActivateCommit
  <2>6. req' \in [Workers -> Request]
    BY <1>2, <1>a DEF ActivateCommit, Finish, Request
  <2> QED
    BY <1>2, <2>3, <2>4, <2>5, <2>6 DEF ActivateCommit, Inserted
<1>3. ASSUME NEW w \in Workers, Fail(w)
      PROVE  TypeOK'
  BY <1>3, <1>b DEF Fail, Finish, Request
<1>4. ASSUME NEW w \in Workers, NEW i \in Gifts, NEW o \in Orders, RedeemCheck(w, i, o)
      PROVE  TypeOK'
  <2>1. [pc |-> "redeem", gift |-> i, order |-> o] \in Request
    BY DEF Request
  <2> QED
    BY <1>4, <2>1, <1>b DEF RedeemCheck
<1>c. ASSUME NEW i \in Gifts, NEW who \in Takers, HandOut(i, who), State(i, "active"),
             req' \in [Workers -> Request]
      PROVE  TypeOK'
  <2>1. gift[i] \in Gift /\ Inserted(i)
    BY <1>c DEF State, Inserted
  <2>2. gift' \in [Gifts -> Gift \cup {NoGift}]
    BY <1>c, <2>1 DEF HandOut, Gift
  <2>3. \A j \in Gifts : gift'[j] # NoGift => (gift'[j].by = None <=> gift'[j].state # "used")
    BY <1>c, <2>1, RowsAssumption DEF HandOut, Gift, Inserted
  <2> QED
    BY <1>c, <2>2, <2>3 DEF HandOut, Inserted
<1>5. ASSUME NEW w \in Workers, RedeemCommit(w)
      PROVE  TypeOK'
  <2>1. req[w].gift \in Gifts /\ req[w].order \in Takers
    BY <1>5, RequestCases DEF RedeemCommit, Doing, Takers
  <2>2. State(req[w].gift, "active")
    BY <1>5 DEF RedeemCommit, RowsInv
  <2>3. req' \in [Workers -> Request]
    BY <1>5 DEF RedeemCommit, Finish, Request
  <2> QED
    BY <1>5, <2>1, <2>2, <2>3, <1>c DEF RedeemCommit
<1>6. ASSUME NEW i \in Gifts, MarkUsed(i)
      PROVE  TypeOK'
  BY <1>6, <1>c DEF MarkUsed, Issuable, Takers
<1>7. ASSUME NEW i \in Gifts, ResetActivation(i)
      PROVE  TypeOK'
  <2>1. gift[i] \in Gift /\ Inserted(i) /\ gift[i].by = None
    BY <1>7 DEF ResetActivation, NotUsed, Inserted
  <2>2. gift' \in [Gifts -> Gift \cup {NoGift}]
    BY <1>7, <2>1 DEF ResetActivation, Gift
  <2>3. \A j \in Gifts : gift'[j] # NoGift => (gift'[j].by = None <=> gift'[j].state # "used")
    BY <1>7, <2>1 DEF ResetActivation, Gift, Inserted
  <2> QED
    BY <1>7, <2>2, <2>3 DEF ResetActivation, Inserted
<1>8. ASSUME NEW w \in Workers, NEW i \in Gifts, OpenForm(w, i)
      PROVE  TypeOK'
  <2>1. [pc |-> "form", gift |-> i, seen |-> gift[i]] \in Request
    BY <1>8 DEF OpenForm, Inserted, Request
  <2> QED
    BY <1>8, <2>1, <1>a DEF OpenForm, Inserted
<1>9. ASSUME NEW w \in Workers, SaveForm(w)
      PROVE  TypeOK'
  <2> DEFINE i    == req[w].gift
             seen == req[w].seen
  <2>1. i \in Gifts /\ seen \in Gift
    BY <1>9, RequestCases DEF SaveForm, Doing
  <2>2. gift' = [gift EXCEPT ![i] = seen] /\ (seen.by = None <=> seen.state # "used")
    BY <1>9 DEF SaveForm, RowsInv
  <2>3. \A n \in Nat : \A b \in BOOLEAN : Count(n, b) \in Nat
    BY DEF Count
  <2>4. reopened' \in [Gifts -> Nat] /\ erased' \in [Gifts -> Nat]
    BY <1>9, <2>1, <2>3 DEF SaveForm, Activated, State
  <2>5. req' \in [Workers -> Request] /\ over' \subseteq Gifts
    BY <1>9, <2>1 DEF SaveForm, Finish, Request
  <2>6. \A j \in Gifts : gift'[j] # NoGift => (gift'[j].by = None <=> gift'[j].state # "used")
    BY <2>1, <2>2 DEF Inserted
  <2> QED
    BY <1>9, <2>1, <2>2, <2>4, <2>5, <2>6 DEF SaveForm, Inserted
<1>d. ASSUME NEW w \in Workers, NEW p \in Profiles, NEW pc \in {"birthday", "apology"},
             Start(w, [pc |-> pc, at |-> p]), raced' \in BOOLEAN,
             UNCHANGED <<scenario, rows, year, costs, reopened, handed, erased, started,
                         paid, returned, admin>>
      PROVE  TypeOK'
  <2>1. [pc |-> pc, at |-> p] \in Request
    BY DEF Request
  <2> QED
    BY <1>d, <2>1, <1>a DEF Inserted
<1>10. ASSUME NEW w \in Workers, NEW p \in Profiles, ClaimCheck(w, p) \/ GrantCheck(w, p)
       PROVE  TypeOK'
  BY <1>10, <1>d DEF ClaimCheck, GrantCheck, Nothing
<1>e. ASSUME NEW src \in Sources, NEW p \in Profiles, NEW s \in {"played", "pending"},
             Insert(src, p, s)
      PROVE  /\ gift' \in [Gifts -> Gift \cup {NoGift}]
             /\ \A j \in Gifts : gift'[j] # NoGift => (gift'[j].by = None <=> gift'[j].state # "used")
  <2>1. PICK i \in Gifts :
          /\ gift' = [gift EXCEPT ![i] = [src |-> src, at |-> p, year |-> year,
                                         state |-> s, by |-> None]]
          /\ gift' \in [Gifts -> Gift \cup {NoGift}]
    BY <1>e, Inserts
  <2> QED
    BY <2>1 DEF Inserted
<1>11. ASSUME NEW w \in Workers, ClaimCommit(w)
       PROVE  TypeOK'
  <2>1. req[w].at \in Profiles /\ req[w].pc \in Sources
    BY <1>11, RequestCases DEF ClaimCommit, Doing, Sources
  <2>2. req' \in [Workers -> Request]
    BY <1>11 DEF ClaimCommit, Finish, Request
  <2> QED
    BY <1>11, <2>1, <2>2, <1>e DEF ClaimCommit, Inserted
<1>12. ASSUME NEW w \in Workers, NEW v \in Vouchers, PrizeCheck(w, v)
       PROVE  TypeOK'
  <2>1. [pc |-> "prize", voucher |-> v] \in Request
    BY DEF Request
  <2> QED
    BY <1>12, <2>1, <1>b DEF PrizeCheck
<1>13. ASSUME NEW w \in Workers, PrizeCommit(w)
       PROVE  TypeOK'
  <2>1. req[w].voucher \in Vouchers
    BY <1>13, RequestCases DEF PrizeCommit, Doing
  <2>2. VoucherOf[req[w].voucher] \in Profiles /\ "other" \in Sources
    BY <2>1, RowsAssumption DEF Sources
  <2>3. req' \in [Workers -> Request]
    BY <1>13 DEF PrizeCommit, Finish, Request
  <2>4. voucher' \in [Vouchers -> {"pending", "claimed", "issued"}] /\ paid' \in [Vouchers -> Nat]
    BY <1>13, <2>1 DEF PrizeCommit
  <2> QED
    BY <1>13, <2>2, <2>3, <2>4, <1>e DEF PrizeCommit, Inserted
<1>14. ASSUME NEW v \in Vouchers, MarkIssued(v) \/ ResetClaim(v)
       PROVE  TypeOK'
  <2>1. voucher' \in [Vouchers -> {"pending", "claimed", "issued"}]
    BY <1>14 DEF MarkIssued, ResetClaim
  <2>2. returned' \in [Vouchers -> Nat] /\ admin' \in Nat
    BY <1>14 DEF MarkIssued, ResetClaim
  <2>3. UNCHANGED <<scenario, gift, late, over, cooling, expired, year, req,
                    costs, reopened, handed, erased, started, paid, raced>>
    BY <1>14 DEF MarkIssued, ResetClaim
  <2> QED
    BY <2>1, <2>2, <2>3 DEF Inserted
<1>15. ASSUME NEW p \in Profiles, PlayStory(p)
       PROVE  TypeOK'
  BY <1>15, <1>e DEF PlayStory, Inserted, Sources
<1>16. ASSUME NEW i \in Gifts, SelectStory(i)
       PROVE  TypeOK'
  <2>1. gift[i] \in Gift /\ Inserted(i) /\ gift[i].by = None
    BY <1>16 DEF SelectStory, State, Inserted
  <2>2. gift' \in [Gifts -> Gift \cup {NoGift}]
    BY <1>16, <2>1 DEF SelectStory, Gift
  <2>3. \A j \in Gifts : gift'[j] # NoGift => (gift'[j].by = None <=> gift'[j].state # "used")
    BY <1>16, <2>1 DEF SelectStory, Gift, Inserted
  <2> QED
    BY <1>16, <2>2, <2>3 DEF SelectStory, Inserted
<1>17. ASSUME NEW p \in Profiles, RestartCooldown(p) \/ CooldownLapses(p)
       PROVE  TypeOK'
  <2>1. cooling' \subseteq Profiles /\ started' \in [Profiles -> Nat]
    BY <1>17 DEF RestartCooldown, CooldownLapses
  <2>2. UNCHANGED <<scenario, gift, late, over, voucher, expired, year, req,
                    costs, reopened, handed, erased, paid, returned, raced, admin>>
    BY <1>17 DEF RestartCooldown, CooldownLapses
  <2> QED
    BY <2>1, <2>2 DEF Inserted
<1>18. ASSUME NEW i \in Gifts, ClaimExpires(i) \/ ActiveExpires(i)
       PROVE  TypeOK'
  BY <1>18 DEF ClaimExpires, ActiveExpires, Inserted
<1>19. ASSUME NEW v \in Vouchers, VoucherExpires(v)
       PROVE  TypeOK'
  BY <1>19 DEF VoucherExpires, Inserted
<1>20. CASE YearEnds
  BY <1>20 DEF YearEnds, Inserted
<1>21. CASE UNCHANGED vars
  BY <1>21 DEF vars, Inserted
<1> QED
  BY <1>1, <1>2, <1>3, <1>4, <1>5, <1>6, <1>7, <1>8, <1>9, <1>10, <1>11, <1>12, <1>13, <1>14,
     <1>15, <1>16, <1>17, <1>18, <1>19, <1>20, <1>21
  DEF Next, Guest, Counter, Story, Admin, Clock

----------------------------------------------------------------------------
\* Rows are never removed, and keep their source, their profile and their year.
SameRows ==
  \A i \in Gifts : Inserted(i) =>
    /\ gift'[i] # NoGift /\ gift'[i].src = gift[i].src
    /\ gift'[i].at = gift[i].at /\ gift'[i].year = gift[i].year

\* No request begins.
Ends == \A w \in Workers : req'[w] = req[w] \/ req'[w] = Idle

\* Inserted rows keep their source, profile and year.
LEMMA RowsStay ==
  ASSUME TypeOK, RowsInv, [Next]_vars
  PROVE  SameRows
<1> USE DEF SameRows, TypeOK, rows, history, Inserted
<1>a. ASSUME NEW i \in Gifts, NEW s \in {"pending", "active", "used"}, NEW who \in Takers \cup {None},
             Inserted(i), gift' = [gift EXCEPT ![i].state = s, ![i].by = who]
      PROVE  SameRows
  <2>1. gift[i] \in Gift
    BY <1>a
  <2>2. gift'[i] = [gift[i] EXCEPT !.state = s, !.by = who]
    BY <1>a
  <2>3. gift'[i] \in Gift /\ gift'[i].src = gift[i].src /\ gift'[i].at = gift[i].at
        /\ gift'[i].year = gift[i].year
    BY <2>1, <2>2, <1>a DEF Gift
  <2> QED
    BY <1>a, <2>3, RowsAssumption
<1>b. ASSUME NEW i \in Gifts, NEW s \in {"pending", "active", "used"},
             Inserted(i), gift' = [gift EXCEPT ![i].state = s]
      PROVE  SameRows
  <2>1. gift[i] \in Gift
    BY <1>b
  <2>2. gift'[i] = [gift[i] EXCEPT !.state = s]
    BY <1>b
  <2>3. gift'[i] \in Gift /\ gift'[i].src = gift[i].src /\ gift'[i].at = gift[i].at
        /\ gift'[i].year = gift[i].year
    BY <2>1, <2>2, <1>b DEF Gift
  <2> QED
    BY <1>b, <2>3, RowsAssumption
<1>c. ASSUME NEW src \in Sources, NEW p \in Profiles, NEW s \in {"played", "pending"},
             Insert(src, p, s)
      PROVE  SameRows
  BY <1>c, Inserts
<1>1. ASSUME NEW w \in Workers, ActivateCommit(w)
      PROVE  SameRows
  <2>1. req[w].gift \in Gifts /\ Inserted(req[w].gift)
    BY <1>1, RequestCases DEF ActivateCommit, RowsInv, Doing, State
  <2> QED
    BY <1>1, <2>1, <1>b DEF ActivateCommit
<1>2. ASSUME NEW w \in Workers, RedeemCommit(w)
      PROVE  SameRows
  <2>1. req[w].gift \in Gifts /\ Inserted(req[w].gift) /\ req[w].order \in Takers
    BY <1>2, RequestCases DEF RedeemCommit, RowsInv, Doing, State, Takers
  <2> QED
    BY <1>2, <2>1, <1>a DEF RedeemCommit, HandOut
<1>3. ASSUME NEW i \in Gifts, MarkUsed(i)
      PROVE  SameRows
  BY <1>3, <1>a DEF MarkUsed, HandOut, Issuable, State, Takers
<1>4. ASSUME NEW i \in Gifts, ResetActivation(i) \/ SelectStory(i)
      PROVE  SameRows
  BY <1>4, <1>b DEF ResetActivation, SelectStory, State, NotUsed
<1>5. ASSUME NEW w \in Workers, SaveForm(w)
      PROVE  SameRows
  <2>1. req[w].gift \in Gifts /\ req[w].seen \in Gift
    BY <1>5, RequestCases DEF SaveForm, Doing
  <2>2. gift' = [gift EXCEPT ![req[w].gift] = req[w].seen]
    BY <1>5 DEF SaveForm
  <2> QED
    BY <1>5, <2>1, <2>2, RowsAssumption DEF SaveForm, RowsInv
<1>6. ASSUME NEW w \in Workers, ClaimCommit(w)
      PROVE  SameRows
  <2>1. req[w].at \in Profiles /\ req[w].pc \in Sources
    BY <1>6, RequestCases DEF ClaimCommit, Doing, Sources
  <2> QED
    BY <1>6, <2>1, <1>c DEF ClaimCommit
<1>7. ASSUME NEW w \in Workers, PrizeCommit(w)
      PROVE  SameRows
  <2>1. VoucherOf[req[w].voucher] \in Profiles /\ "other" \in Sources
    BY <1>7, RequestCases, RowsAssumption DEF PrizeCommit, Doing, Sources
  <2> QED
    BY <1>7, <2>1, <1>c DEF PrizeCommit
<1>8. ASSUME NEW p \in Profiles, PlayStory(p)
      PROVE  SameRows
  BY <1>8, <1>c DEF PlayStory, Sources
<1>9. ASSUME UNCHANGED gift
      PROVE  SameRows
  BY <1>9
<1>10. ASSUME NEW w \in Workers, NEW i \in Gifts,
              \/ ActivateCheck(w, i) \/ OpenForm(w, i)
              \/ \E o \in Orders : RedeemCheck(w, i, o)
       PROVE  UNCHANGED gift
  BY <1>10 DEF ActivateCheck, RedeemCheck, OpenForm, Nothing
<1>11. ASSUME NEW w \in Workers,
              \/ Fail(w)
              \/ \E p \in Profiles : ClaimCheck(w, p) \/ GrantCheck(w, p)
              \/ \E v \in Vouchers : PrizeCheck(w, v)
       PROVE  UNCHANGED gift
  BY <1>11 DEF Fail, ClaimCheck, GrantCheck, PrizeCheck, Nothing
<1>12. ASSUME \/ Clock
              \/ \E p \in Profiles : RestartCooldown(p)
              \/ \E v \in Vouchers : MarkIssued(v) \/ ResetClaim(v)
       PROVE  UNCHANGED gift
  BY <1>12 DEF Clock, ClaimExpires, ActiveExpires, CooldownLapses, VoucherExpires, YearEnds,
     RestartCooldown, MarkIssued, ResetClaim
<1>13. CASE UNCHANGED vars
  BY <1>13, <1>9 DEF vars
<1> QED
  BY <1>1, <1>2, <1>3, <1>4, <1>5, <1>6, <1>7, <1>8, <1>9, <1>10, <1>11, <1>12, <1>13
  DEF Next, Guest, Counter, Story, Admin

\* Every step either begins no request or is one of the checks.
LEMMA EndsOrBegins ==
  ASSUME TypeOK, [Next]_vars
  PROVE  \/ Ends
         \/ \E w \in Workers :
              \/ \E i \in Gifts : ActivateCheck(w, i) \/ OpenForm(w, i)
              \/ \E i \in Gifts, o \in Orders : RedeemCheck(w, i, o)
              \/ \E p \in Profiles : ClaimCheck(w, p) \/ GrantCheck(w, p)
              \/ \E v \in Vouchers : PrizeCheck(w, v)
<1> USE DEF Ends, TypeOK, history
<1>1. ASSUME NEW w \in Workers, Finish(w)
      PROVE  Ends
  BY <1>1 DEF Finish
<1>2. ASSUME NEW w \in Workers,
             \/ ActivateCommit(w) \/ Fail(w) \/ RedeemCommit(w)
             \/ SaveForm(w) \/ ClaimCommit(w) \/ PrizeCommit(w)
      PROVE  Ends
  BY <1>1, <1>2 DEF ActivateCommit, Fail, RedeemCommit, SaveForm, ClaimCommit, PrizeCommit
<1>3. ASSUME NEW i \in Gifts, MarkUsed(i) \/ ResetActivation(i)
      PROVE  Ends
  BY <1>3 DEF MarkUsed, ResetActivation
<1>4. ASSUME \/ Story \/ Clock
             \/ \E p \in Profiles : RestartCooldown(p)
             \/ \E v \in Vouchers : MarkIssued(v) \/ ResetClaim(v)
      PROVE  Ends
  BY <1>4 DEF Story, PlayStory, SelectStory, RestartCooldown, MarkIssued, ResetClaim,
     Clock, ClaimExpires, ActiveExpires, CooldownLapses, VoucherExpires, YearEnds
<1>5. CASE UNCHANGED vars
  BY <1>5 DEF vars
<1> QED
  BY <1>2, <1>3, <1>4, <1>5 DEF Next, Guest, Counter, Admin

\* A request takes no lock that another one holds.
LEMMA LocksExclude ==
  ASSUME TypeOK, RowsInv, LockInv, [Next]_vars
  PROVE  LockInv'
<1> USE DEF TypeOK
<1>0. SameRows
  BY RowsStay
<1>1. \A w \in Workers : Doing(w, "activate") \/ Doing(w, "redeem") =>
        /\ req[w].gift \in Gifts /\ Inserted(req[w].gift)
        /\ gift'[req[w].gift].at = gift[req[w].gift].at
  BY <1>0, RequestCases DEF SameRows, RowsInv, Doing, State
<1>2. CASE Ends
  <2>1. \A w \in Workers : req'[w].pc # "idle" => req'[w] = req[w]
    BY <1>2 DEF Ends, Idle
  <2> QED
    BY <1>1, <2>1 DEF LockInv, Doing
<1>3. ASSUME NEW w \in Workers, NEW i \in Gifts, ActivateCheck(w, i)
      PROVE  LockInv'
  <2>1. /\ req' = [req EXCEPT ![w] = [pc |-> "activate", gift |-> i]]
        /\ UNCHANGED gift /\ ~GuestLocked /\ ~GiftLocked(i)
    BY <1>3 DEF ActivateCheck, Start, Nothing, rows, ActivationLocks
  <2> QED
    BY <2>1 DEF LockInv, Doing, GuestLocked, GiftLocked
<1>4. ASSUME NEW w \in Workers, NEW i \in Gifts, NEW o \in Orders, RedeemCheck(w, i, o)
      PROVE  LockInv'
  <2>1. /\ req' = [req EXCEPT ![w] = [pc |-> "redeem", gift |-> i, order |-> o]]
        /\ UNCHANGED gift /\ ~GiftLocked(i)
    BY <1>4 DEF RedeemCheck, Start, Nothing, rows
  <2> QED
    BY <2>1 DEF LockInv, Doing, GiftLocked
<1>5. ASSUME NEW w \in Workers, NEW p \in Profiles, ClaimCheck(w, p)
      PROVE  LockInv'
  <2>1. /\ req' = [req EXCEPT ![w] = [pc |-> "birthday", at |-> p]]
        /\ UNCHANGED gift /\ ~GuestLocked
    BY <1>5 DEF ClaimCheck, Start, Nothing, rows
  <2> QED
    BY <2>1 DEF LockInv, Doing, GuestLocked
<1>6. ASSUME NEW w \in Workers, NEW v \in Vouchers, PrizeCheck(w, v)
      PROVE  LockInv'
  <2>1. /\ req' = [req EXCEPT ![w] = [pc |-> "prize", voucher |-> v]]
        /\ UNCHANGED gift /\ ~VoucherLocked(v)
    BY <1>6 DEF PrizeCheck, Start, Nothing, rows
  <2> QED
    BY <2>1 DEF LockInv, Doing, VoucherLocked
<1>7. ASSUME NEW w \in Workers, NEW i \in Gifts, OpenForm(w, i)
      PROVE  LockInv'
  BY <1>7 DEF OpenForm, Start, rows, LockInv, Doing
<1>8. ASSUME NEW w \in Workers, NEW p \in Profiles, GrantCheck(w, p)
      PROVE  LockInv'
  BY <1>8 DEF GrantCheck, Start, rows, LockInv, Doing
<1> QED
  BY <1>2, <1>3, <1>4, <1>5, <1>6, <1>7, <1>8, EndsOrBegins

\* A locked gift is only changed by the request that holds the lock.
LEMMA LockedRowsStay ==
  ASSUME TypeOK, RowsInv, LockInv, [Next]_vars,
         NEW w \in Workers, Doing(w, "activate") \/ Doing(w, "redeem"), req'[w] = req[w]
  PROVE  gift'[req[w].gift] = gift[req[w].gift]
<1> DEFINE g == req[w].gift
<1> USE DEF TypeOK, rows, history
<1>0. /\ g \in Gifts /\ Inserted(g) /\ GiftLocked(g)
      /\ gift[g].state \in {"pending", "active"} /\ req[w] # Idle
  BY RequestCases DEF RowsInv, Doing, State, GiftLocked, Idle
<1>a. ASSUME NEW src, NEW at, NEW s, Insert(src, at, s)
      PROVE  gift'[g] = gift[g]
  BY <1>a, <1>0 DEF Insert
<1>1. ASSUME NEW v \in Workers, ActivateCommit(v)
      PROVE  gift'[g] = gift[g]
  <2>1. req'[v] = Idle
    BY <1>1 DEF ActivateCommit, Finish
  <2>2. v # w
    BY <2>1, <1>0
  <2>3. req[v].gift # g
    <3>1. CASE Doing(w, "activate")
      BY <1>0, <1>1, <2>2, <3>1 DEF LockInv, ActivateCommit
    <3>2. CASE Doing(w, "redeem")
      BY <1>1, <2>2, <3>2 DEF LockInv, ActivateCommit, Doing
    <3> QED
      BY <3>1, <3>2
  <2> QED
    BY <1>0, <1>1, <2>3 DEF ActivateCommit
<1>2. ASSUME NEW v \in Workers, RedeemCommit(v)
      PROVE  gift'[g] = gift[g]
  <2>1. req'[v] = Idle
    BY <1>2 DEF RedeemCommit, Finish
  <2>2. v # w
    BY <2>1, <1>0
  <2>3. req[v].gift # g
    BY <1>2, <2>2 DEF LockInv, RedeemCommit, Doing
  <2> QED
    BY <1>0, <1>2, <2>3 DEF RedeemCommit, HandOut
<1>3. ASSUME NEW i \in Gifts, MarkUsed(i) \/ ResetActivation(i)
      PROVE  gift'[g] = gift[g]
  <2>1. i # g
    BY <1>0, <1>3 DEF MarkUsed, ResetActivation
  <2> QED
    BY <1>0, <1>3, <2>1 DEF MarkUsed, ResetActivation, HandOut
<1>4. ASSUME NEW v \in Workers, SaveForm(v)
      PROVE  gift'[g] = gift[g]
  BY <1>0, <1>4 DEF SaveForm
<1>5. ASSUME NEW i \in Gifts, SelectStory(i)
      PROVE  gift'[g] = gift[g]
  BY <1>0, <1>5 DEF SelectStory, State
<1>6. ASSUME NEW v \in Workers, ClaimCommit(v) \/ PrizeCommit(v)
      PROVE  gift'[g] = gift[g]
  BY <1>6, <1>a DEF ClaimCommit, PrizeCommit
<1>7. ASSUME NEW p \in Profiles, PlayStory(p)
      PROVE  gift'[g] = gift[g]
  BY <1>7, <1>a DEF PlayStory
<1>8. ASSUME NEW v \in Workers, NEW i \in Gifts,
             \/ ActivateCheck(v, i) \/ OpenForm(v, i)
             \/ \E o \in Orders : RedeemCheck(v, i, o)
      PROVE  UNCHANGED gift
  BY <1>8 DEF ActivateCheck, RedeemCheck, OpenForm, Nothing
<1>9. ASSUME NEW v \in Workers,
             \/ Fail(v)
             \/ \E p \in Profiles : ClaimCheck(v, p) \/ GrantCheck(v, p)
             \/ \E x \in Vouchers : PrizeCheck(v, x)
      PROVE  UNCHANGED gift
  BY <1>9 DEF Fail, ClaimCheck, GrantCheck, PrizeCheck, Nothing
<1>10. ASSUME \/ Clock
              \/ \E p \in Profiles : RestartCooldown(p)
              \/ \E v \in Vouchers : MarkIssued(v) \/ ResetClaim(v)
       PROVE  UNCHANGED gift
  BY <1>10 DEF Clock, ClaimExpires, ActiveExpires, CooldownLapses, VoucherExpires, YearEnds,
     RestartCooldown, MarkIssued, ResetClaim
<1>11. CASE UNCHANGED vars
  BY <1>11 DEF vars
<1> QED
  BY <1>1, <1>2, <1>3, <1>4, <1>5, <1>6, <1>7, <1>8, <1>9, <1>10, <1>11
  DEF Next, Guest, Counter, Story, Admin

\* Vouchers are changed by the request that locks them, or when nobody does.
LEMMA VoucherSteps ==
  ASSUME TypeOK, [Next]_vars
  PROVE  \/ UNCHANGED <<voucher, paid, returned>>
         \/ \E w \in Workers : PrizeCommit(w)
         \/ \E v \in Vouchers : MarkIssued(v) \/ ResetClaim(v)
<1> USE DEF rows, history
<1>1. ASSUME NEW w \in Workers,
             \/ ActivateCommit(w) \/ Fail(w) \/ RedeemCommit(w)
             \/ SaveForm(w) \/ ClaimCommit(w)
      PROVE  UNCHANGED <<voucher, paid, returned>>
  BY <1>1 DEF ActivateCommit, Fail, RedeemCommit, HandOut, SaveForm, ClaimCommit, Nothing
<1>2. ASSUME NEW w \in Workers, NEW i \in Gifts,
             \/ ActivateCheck(w, i) \/ OpenForm(w, i)
             \/ \E o \in Orders : RedeemCheck(w, i, o)
      PROVE  UNCHANGED <<voucher, paid, returned>>
  BY <1>2 DEF ActivateCheck, RedeemCheck, OpenForm, Nothing
<1>3. ASSUME NEW w \in Workers,
             \/ \E p \in Profiles : ClaimCheck(w, p) \/ GrantCheck(w, p)
             \/ \E v \in Vouchers : PrizeCheck(w, v)
      PROVE  UNCHANGED <<voucher, paid, returned>>
  BY <1>3 DEF ClaimCheck, GrantCheck, PrizeCheck, Nothing
<1>4. ASSUME NEW i \in Gifts, MarkUsed(i) \/ ResetActivation(i)
      PROVE  UNCHANGED <<voucher, paid, returned>>
  BY <1>4 DEF MarkUsed, HandOut, ResetActivation
<1>5. ASSUME Story \/ Clock \/ \E p \in Profiles : RestartCooldown(p)
      PROVE  UNCHANGED <<voucher, paid, returned>>
  BY <1>5 DEF Story, PlayStory, SelectStory, RestartCooldown, Clock, ClaimExpires, ActiveExpires,
     CooldownLapses, VoucherExpires, YearEnds
<1>6. CASE UNCHANGED vars
  BY <1>6 DEF vars
<1> QED
  BY <1>1, <1>2, <1>3, <1>4, <1>5, <1>6 DEF Next, Guest, Counter, Admin

\* Rows under a lock are changed by the holder of the lock only.
LEMMA RowsPreserved ==
  ASSUME TypeOK, RowsInv, LockInv, [Next]_vars
  PROVE  RowsInv'
<1> USE DEF TypeOK, rows, history
<1>0. SameRows
  BY RowsStay
<1>1. ASSUME NEW w \in Workers, req'[w] = req[w], req[w].pc # "idle"
      PROVE  /\ Doing(w, "activate") => State(req[w].gift, "pending")'
             /\ Doing(w, "redeem")   => State(req[w].gift, "active")'
             /\ Doing(w, "prize")    => voucher'[req[w].voucher] = "pending"
             /\ Doing(w, "form")     =>
                  /\ gift'[req[w].gift] # NoGift
                  /\ gift'[req[w].gift].src = req[w].seen.src
                  /\ gift'[req[w].gift].at = req[w].seen.at
                  /\ gift'[req[w].gift].year = req[w].seen.year
                  /\ req[w].seen.by = None <=> req[w].seen.state # "used"
  <2>1. Doing(w, "activate") => State(req[w].gift, "pending")'
    BY <1>1, LockedRowsStay DEF RowsInv, State, Inserted
  <2>2. Doing(w, "redeem") => State(req[w].gift, "active")'
    BY <1>1, LockedRowsStay DEF RowsInv, State, Inserted
  <2>3. ASSUME Doing(w, "prize")
        PROVE  voucher'[req[w].voucher] = "pending"
    <3> DEFINE x == req[w].voucher
    <3>1. x \in Vouchers /\ voucher[x] = "pending" /\ VoucherLocked(x) /\ req[w] # Idle
      BY <2>3, RequestCases DEF RowsInv, Doing, VoucherLocked, Idle
    <3>2. ASSUME NEW v \in Workers, PrizeCommit(v)
          PROVE  voucher'[x] = "pending"
      <4>1. req'[v] = Idle
        BY <3>2 DEF PrizeCommit, Finish
      <4>2. v # w
        BY <4>1, <3>1, <1>1
      <4>3. req[v].voucher # x
        BY <2>3, <3>2, <4>2 DEF LockInv, PrizeCommit
      <4> QED
        BY <3>1, <3>2, <4>3 DEF PrizeCommit
    <3>3. ASSUME NEW v \in Vouchers, MarkIssued(v) \/ ResetClaim(v)
          PROVE  voucher'[x] = "pending"
      BY <3>1, <3>3 DEF MarkIssued, ResetClaim
    <3> QED
      BY <3>1, <3>2, <3>3, VoucherSteps
  <2>4. ASSUME Doing(w, "form")
        PROVE  /\ gift'[req[w].gift] # NoGift
               /\ gift'[req[w].gift].src = req[w].seen.src
               /\ gift'[req[w].gift].at = req[w].seen.at
               /\ gift'[req[w].gift].year = req[w].seen.year
               /\ req[w].seen.by = None <=> req[w].seen.state # "used"
    <3>1. req[w].gift \in Gifts
      BY <2>4, RequestCases DEF Doing
    <3> QED
      BY <2>4, <3>1, <1>0 DEF SameRows, RowsInv
  <2> QED
    BY <2>1, <2>2, <2>3, <2>4
<1>2. CASE Ends
  <2>1. \A w \in Workers : req'[w].pc # "idle" => req'[w] = req[w] /\ req[w].pc # "idle"
    BY <1>2 DEF Ends, Idle
  <2> QED
    BY <1>1, <2>1 DEF RowsInv, Doing, Inserted, State
<1>a. ASSUME NEW w \in Workers, NEW r,
             req' = [req EXCEPT ![w] = r], UNCHANGED <<gift, voucher>>,
             r.pc = "activate" => State(r.gift, "pending"),
             r.pc = "redeem" => State(r.gift, "active"),
             r.pc = "prize" => voucher[r.voucher] = "pending",
             r.pc = "form" => /\ Inserted(r.gift) /\ r.seen = gift[r.gift] /\ r.gift \in Gifts
      PROVE  RowsInv'
  <2>1. r.pc = "form" => (r.seen.by = None <=> r.seen.state # "used")
    BY <1>a
  <2> QED
    BY <1>a, <2>1 DEF RowsInv, Doing, Inserted, State
<1>3. ASSUME NEW w \in Workers, NEW i \in Gifts, ActivateCheck(w, i)
      PROVE  RowsInv'
  BY <1>3, <1>a DEF ActivateCheck, Start, Nothing
<1>4. ASSUME NEW w \in Workers, NEW i \in Gifts, OpenForm(w, i)
      PROVE  RowsInv'
  BY <1>4, <1>a DEF OpenForm, Start
<1>5. ASSUME NEW w \in Workers, NEW i \in Gifts, NEW o \in Orders, RedeemCheck(w, i, o)
      PROVE  RowsInv'
  BY <1>5, <1>a DEF RedeemCheck, Start, Nothing, Issuable
<1>6. ASSUME NEW w \in Workers, NEW p \in Profiles, ClaimCheck(w, p) \/ GrantCheck(w, p)
      PROVE  RowsInv'
  BY <1>6, <1>a DEF ClaimCheck, GrantCheck, Start, Nothing
<1>7. ASSUME NEW w \in Workers, NEW v \in Vouchers, PrizeCheck(w, v)
      PROVE  RowsInv'
  BY <1>7, <1>a DEF PrizeCheck, Start, Nothing
<1> QED
  BY <1>2, <1>3, <1>4, <1>5, <1>6, <1>7, EndsOrBegins

Base == TypeOK /\ RowsInv /\ LockInv

\* Types, rows and locks hold in every reachable state.
LEMMA BaseHolds == Spec => []Base
<1>1. Init => Base
  <2> SUFFICES ASSUME Init PROVE Base
    OBVIOUS
  <2>1. scenario \in Scenario /\ gift \in [Gifts -> Gift \cup {NoGift}]
        /\ \A i \in Gifts : Inserted(i) => gift[i].state = "pending" /\ gift[i].by = None
    BY ScenariosAssumption DEF Init, Scenario, Inserted
  <2>2. \A w \in Workers : req[w] = Idle
    BY DEF Init
  <2>3. TypeOK
    BY <2>1 DEF Init, TypeOK, Request
  <2> QED
    BY <2>2, <2>3 DEF Base, RowsInv, LockInv, Doing, Idle
<1>2. Base /\ [Next]_vars => Base'
  BY TypePreserved, RowsPreserved, LocksExclude DEF Base
<1> QED
  BY <1>1, <1>2, PTL DEF Spec

(* Every row, request and history variable keeps its type, and a gift is   *)
(* marked with a taker exactly when it is used.                            *)
THEOREM GiftTypes == Spec => []TypeOK
<1>1. Base => TypeOK
  BY DEF Base
<1> QED
  BY <1>1, BaseHolds, PTL

----------------------------------------------------------------------------
\* A row begins: it waits to be activated or to be selected.
Adds == /\ \E src \in Sources, at \in Profiles, s \in {"played", "pending"} : Insert(src, at, s)
        /\ UNCHANGED <<late, costs, reopened, handed, erased>>

AddingStep == \/ \E w \in Workers : ClaimCommit(w) \/ PrizeCommit(w)
              \/ \E p \in Profiles : PlayStory(p)

\* What a step does to the rows of gifts and to the history of each.
LEMMA GiftSteps ==
  ASSUME TypeOK, [Next]_vars
  PROVE  \/ UNCHANGED <<gift, late, costs, reopened, handed, erased>>
         \/ Adds /\ AddingStep
         \/ \E w \in Workers : ActivateCommit(w) \/ RedeemCommit(w) \/ SaveForm(w)
         \/ \E i \in Gifts : MarkUsed(i) \/ ResetActivation(i) \/ SelectStory(i) \/ ClaimExpires(i)
<1> USE DEF rows, history
<1>1. ASSUME NEW w \in Workers, ClaimCommit(w)
      PROVE  Adds /\ AddingStep
  <2>1. req[w] \in Request /\ req[w].pc \in {"birthday", "apology"}
    BY <1>1 DEF ClaimCommit, Doing, TypeOK
  <2>2. req[w].at \in Profiles /\ req[w].pc \in Sources
    BY <2>1, RequestCases DEF Sources
  <2> QED
    BY <1>1, <2>2 DEF ClaimCommit, Adds, AddingStep
<1>2. ASSUME NEW w \in Workers, PrizeCommit(w)
      PROVE  Adds /\ AddingStep
  <2>1. req[w] \in Request /\ req[w].pc = "prize"
    BY <1>2 DEF PrizeCommit, Doing, TypeOK
  <2>2. VoucherOf[req[w].voucher] \in Profiles /\ "other" \in Sources
    BY <2>1, RequestCases, RowsAssumption DEF Sources
  <2> QED
    BY <1>2, <2>2 DEF PrizeCommit, Adds, AddingStep
<1>3. ASSUME NEW p \in Profiles, PlayStory(p)
      PROVE  Adds /\ AddingStep
  BY <1>3 DEF PlayStory, Adds, AddingStep, Sources
<1>4. ASSUME NEW w \in Workers, NEW i \in Gifts,
             \/ ActivateCheck(w, i) \/ OpenForm(w, i)
             \/ \E o \in Orders : RedeemCheck(w, i, o)
      PROVE  UNCHANGED <<gift, late, costs, reopened, handed, erased>>
  BY <1>4 DEF ActivateCheck, RedeemCheck, OpenForm, Nothing
<1>5. ASSUME NEW w \in Workers,
             \/ Fail(w)
             \/ \E p \in Profiles : ClaimCheck(w, p) \/ GrantCheck(w, p)
             \/ \E v \in Vouchers : PrizeCheck(w, v)
      PROVE  UNCHANGED <<gift, late, costs, reopened, handed, erased>>
  BY <1>5 DEF Fail, ClaimCheck, GrantCheck, PrizeCheck, Nothing
<1>6. ASSUME \/ \E p \in Profiles : RestartCooldown(p) \/ CooldownLapses(p)
             \/ \E v \in Vouchers : MarkIssued(v) \/ ResetClaim(v) \/ VoucherExpires(v)
             \/ \E i \in Gifts : ActiveExpires(i)
             \/ YearEnds
      PROVE  UNCHANGED <<gift, late, costs, reopened, handed, erased>>
  BY <1>6 DEF ActiveExpires, CooldownLapses, VoucherExpires, YearEnds, RestartCooldown,
     MarkIssued, ResetClaim
<1>7. CASE UNCHANGED vars
  BY <1>7 DEF vars
<1> QED
  BY <1>1, <1>2, <1>3, <1>4, <1>5, <1>6, <1>7 DEF Next, Guest, Counter, Story, Admin, Clock

\* The requests that go on through a step.
LEMMA GoesOn ==
  ASSUME TypeOK, [Next]_vars, NEW w \in Workers, Doing(w, "activate")'
  PROVE  \/ req'[w] = req[w] /\ Doing(w, "activate")
         \/ \E i \in Gifts : ActivateCheck(w, i)
<1> USE DEF TypeOK, Doing
<1>1. CASE Ends
  BY <1>1 DEF Ends, Idle
<1>2. ASSUME NEW v \in Workers, NEW i \in Gifts, ActivateCheck(v, i)
      PROVE  req'[w] = req[w] \/ v = w
  BY <1>2 DEF ActivateCheck, Start
<1>3. ASSUME NEW v \in Workers, NEW i \in Gifts,
             OpenForm(v, i) \/ \E o \in Orders : RedeemCheck(v, i, o)
      PROVE  req'[w] = req[w]
  BY <1>3 DEF OpenForm, RedeemCheck, Start
<1>4. ASSUME NEW v \in Workers,
             \/ \E p \in Profiles : ClaimCheck(v, p) \/ GrantCheck(v, p)
             \/ \E x \in Vouchers : PrizeCheck(v, x)
      PROVE  req'[w] = req[w]
  BY <1>4 DEF ClaimCheck, GrantCheck, PrizeCheck, Start
<1> QED
  BY <1>1, <1>2, <1>3, <1>4, EndsOrBegins

----------------------------------------------------------------------------
\* A step that hands a gift out marks it used, one that unmarks it counts as erased.
LEMMA HandPreserved ==
  ASSUME TypeOK, RowsInv, HandInv, [Next]_vars
  PROVE  HandInv'
<1> USE DEF TypeOK, HandInv
<1>1. CASE UNCHANGED <<gift, late, costs, reopened, handed, erased>>
  BY <1>1 DEF State, Inserted
<1>2. CASE Adds
  <2>1. PICK src \in Sources, at \in Profiles, s \in {"played", "pending"} : Insert(src, at, s)
    BY <1>2 DEF Adds
  <2>2. \A j \in Gifts : State(j, "used") => State(j, "used")'
    BY <2>1 DEF Insert, State, Inserted
  <2> QED
    BY <1>2, <2>2 DEF Adds
<1>a. ASSUME NEW i \in Gifts, NEW who \in Takers, State(i, "active"), HandOut(i, who)
      PROVE  HandInv'
  <2>1. /\ State(i, "used")' /\ ~State(i, "used")
        /\ \A j \in Gifts : j # i => (State(j, "used")' <=> State(j, "used"))
    BY <1>a, RowsAssumption DEF HandOut, State, Inserted, Gift
  <2> QED
    BY <1>a, <2>1 DEF HandOut
<1>3. ASSUME NEW w \in Workers, RedeemCommit(w)
      PROVE  HandInv'
  <2>1. req[w].gift \in Gifts /\ req[w].order \in Takers
    BY <1>3, RequestCases DEF RedeemCommit, Doing, Takers
  <2>2. State(req[w].gift, "active")
    BY <1>3 DEF RedeemCommit, RowsInv
  <2> QED
    BY <1>3, <1>a, <2>1, <2>2 DEF RedeemCommit
<1>4. ASSUME NEW i \in Gifts, MarkUsed(i)
      PROVE  HandInv'
  BY <1>4, <1>a DEF MarkUsed, Issuable, Takers
<1>5. ASSUME NEW w \in Workers, ActivateCommit(w)
      PROVE  HandInv'
  <2> DEFINE i == req[w].gift
  <2>1. i \in Gifts /\ State(i, "pending")
    BY <1>5, RequestCases DEF ActivateCommit, Doing, RowsInv
  <2>2. gift' = gift \/ gift' = [gift EXCEPT ![i].state = "active"]
    BY <1>5 DEF ActivateCommit
  <2>3. \A j \in Gifts : State(j, "used") => State(j, "used")'
    BY <2>1, <2>2 DEF State, Inserted
  <2>4. UNCHANGED <<handed, erased>>
    BY <1>5 DEF ActivateCommit
  <2> QED
    BY <2>3, <2>4
<1>6. ASSUME NEW w \in Workers, SaveForm(w)
      PROVE  HandInv'
  <2>1. PICK i \in Gifts : i = req[w].gift
    BY <1>6, RequestCases DEF SaveForm, Doing
  <2>2. /\ \A j \in Gifts : j # i => gift'[j] = gift[j] /\ erased'[j] = erased[j]
        /\ erased'[i] = Count(erased[i], State(i, "used") /\ req[w].seen.state # "used")
        /\ gift'[i] = req[w].seen
        /\ UNCHANGED handed
    BY <1>6, <2>1 DEF SaveForm
  <2>3. req[w].seen \in Gift
    BY <1>6, RequestCases DEF SaveForm, Doing
  <2>4. handed[i] <= (IF State(i, "used")' THEN 1 ELSE 0) + erased'[i]
    <3>1. CASE State(i, "used") /\ req[w].seen.state # "used"
      BY <3>1, <2>1, <2>2 DEF Count
    <3>2. CASE ~State(i, "used")
      BY <3>2, <2>1, <2>2 DEF Count
    <3>3. CASE State(i, "used") /\ req[w].seen.state = "used"
      BY <3>3, <2>1, <2>2, <2>3, RowsAssumption DEF Count, State, Inserted
    <3> QED
      BY <3>1, <3>2, <3>3
  <2> QED
    BY <2>2, <2>4 DEF State, Inserted
<1>7. ASSUME NEW i \in Gifts, ResetActivation(i) \/ SelectStory(i)
      PROVE  HandInv'
  <2>1. gift' = [gift EXCEPT ![i].state = "pending"] /\ UNCHANGED <<handed, erased>>
        /\ ~State(i, "used")
    BY <1>7 DEF ResetActivation, SelectStory, NotUsed, State, history
  <2> QED
    BY <2>1 DEF State, Inserted
<1>8. ASSUME NEW i \in Gifts, ClaimExpires(i)
      PROVE  HandInv'
  BY <1>8 DEF ClaimExpires, State, Inserted, history
<1> QED
  BY <1>1, <1>2, <1>3, <1>4, <1>5, <1>6, <1>7, <1>8, GiftSteps

(* HandedOutOnce: between two hand-outs of one gift lies a form that was   *)
(* saved with the row as it was before the first.                          *)
THEOREM GiftsAreHandedOutOnce == Spec => []HandedOutOnce
<1>1. Init => HandInv
  BY DEF Init, HandInv, State, Inserted
<1>2. Base /\ HandInv /\ [Next]_vars => HandInv'
  BY HandPreserved DEF Base
<1>3. Base /\ HandInv => HandedOutOnce
  BY DEF Base, HandInv, HandedOutOnce, TypeOK
<1> QED
  BY <1>1, <1>2, <1>3, BaseHolds, PTL DEF Spec

----------------------------------------------------------------------------
\* A cost is recorded by the commit of an activation only.
LEMMA CostPreserved ==
  ASSUME TypeOK, RowsInv, LockInv, CostInv, [Next]_vars
  PROVE  CostInv'
<1> USE DEF TypeOK
<1>a. ASSUME \A i \in Gifts : costs'[i] <= (IF Spent(i)' THEN 1 ELSE 0) + reopened'[i],
             \A i \in Gifts : reopened[i] <= reopened'[i],
             \A w \in Workers : Doing(w, "activate") /\ req'[w] = req[w] =>
               costs'[req[w].gift] = costs[req[w].gift]
      PROVE  CostInv'
  <2>1. ASSUME NEW w \in Workers, Doing(w, "activate")'
        PROVE  costs'[req'[w].gift] <= reopened'[req'[w].gift]
    <3>1. CASE req'[w] = req[w] /\ Doing(w, "activate")
      <4>1. req[w].gift \in Gifts /\ costs[req[w].gift] <= reopened[req[w].gift]
        BY <3>1, RequestCases DEF CostInv, Doing
      <4>2. /\ costs'[req[w].gift] = costs[req[w].gift]
            /\ reopened[req[w].gift] <= reopened'[req[w].gift]
            /\ costs[req[w].gift] \in Nat
            /\ reopened[req[w].gift] \in Nat /\ reopened'[req[w].gift] \in Nat
        BY <3>1, <4>1, <1>a, TypePreserved
      <4> QED
        BY <3>1, <4>1, <4>2
    <3>2. ASSUME NEW i \in Gifts, ActivateCheck(w, i)
          PROVE  costs'[req'[w].gift] <= reopened'[req'[w].gift]
      <4>1. /\ req'[w].gift = i /\ UNCHANGED <<costs, reopened>>
            /\ State(i, "pending") /\ i \notin late
        BY <3>2 DEF ActivateCheck, Start, Nothing, history
      <4>2. costs[i] <= reopened[i]
        BY <4>1 DEF CostInv, Spent, State, Activated
      <4> QED
        BY <4>1, <4>2
    <3> QED
      BY <2>1, <3>1, <3>2, GoesOn
  <2> QED
    BY <1>a, <2>1 DEF CostInv
<1>1. CASE UNCHANGED <<gift, late, costs, reopened, handed, erased>>
  BY <1>1, <1>a DEF CostInv, Spent, Inserted
<1>2. CASE Adds
  <2>1. PICK src \in Sources, at \in Profiles, s \in {"played", "pending"} : Insert(src, at, s)
    BY <1>2 DEF Adds
  <2>2. \A j \in Gifts : Spent(j) => Spent(j)'
    BY <1>2, <2>1 DEF Adds, Insert, Spent, Inserted, Activated
  <2> QED
    BY <1>2, <2>2, <1>a DEF Adds, CostInv
<1>3. ASSUME NEW w \in Workers, ActivateCommit(w)
      PROVE  CostInv'
  <2>1. PICK i \in Gifts : i = req[w].gift /\ State(i, "pending") /\ costs[i] <= reopened[i]
    BY <1>3, RequestCases DEF ActivateCommit, Doing, RowsInv, CostInv
  <2>2. UNCHANGED <<late, reopened>> /\ req'[w] = Idle
    BY <1>3 DEF ActivateCommit, Finish
  <2>3. i \in late \/ gift' = [gift EXCEPT ![i].state = "active"]
    BY <1>3, <2>1 DEF ActivateCommit
  <2>4. gift' = gift \/ gift' = [gift EXCEPT ![i].state = "active"]
    BY <1>3, <2>1 DEF ActivateCommit
  <2>5. gift[i] \in Gift
    BY <2>1 DEF State, Inserted
  <2>6. Spent(i)'
    BY <2>1, <2>2, <2>3, <2>5, RowsAssumption DEF Spent, Inserted, Activated, Gift, State
  <2>7. \A j \in Gifts : j # i => gift'[j] = gift[j]
    BY <2>4
  <2>8. PICK n \in {0, 1} : costs' = [costs EXCEPT ![i] = @ + n]
    BY <1>3, <2>1 DEF ActivateCommit
  <2>9. \A j \in Gifts : costs'[j] <= (IF Spent(j)' THEN 1 ELSE 0) + reopened'[j]
    BY <2>1, <2>2, <2>6, <2>7, <2>8 DEF CostInv, Spent, Inserted
  <2>10. ASSUME NEW v \in Workers, Doing(v, "activate"), req'[v] = req[v]
         PROVE  costs'[req[v].gift] = costs[req[v].gift]
    <3>1. v # w
      BY <2>2, <2>10 DEF Doing, Idle
    <3>2. req[v].gift # i
      BY <1>3, <2>1, <2>10, <3>1 DEF LockInv, ActivateCommit
    <3>3. req[v].gift \in Gifts
      BY <2>10, RequestCases DEF Doing
    <3> QED
      BY <2>8, <3>2, <3>3
  <2> QED
    BY <2>2, <2>9, <2>10, <1>a
<1>4. ASSUME NEW w \in Workers, RedeemCommit(w)
      PROVE  CostInv'
  <2> DEFINE i == req[w].gift
  <2>1. i \in Gifts /\ State(i, "active") /\ HandOut(i, req[w].order)
    BY <1>4, RequestCases DEF RedeemCommit, Doing, RowsInv
  <2>2. \A j \in Gifts : Spent(j) => Spent(j)'
    BY <2>1, RowsAssumption DEF HandOut, Spent, Inserted, Activated, State, Gift
  <2> QED
    BY <2>1, <2>2, <1>a DEF HandOut, CostInv
<1>5. ASSUME NEW i \in Gifts, MarkUsed(i)
      PROVE  CostInv'
  <2>1. State(i, "active") /\ HandOut(i, Staff)
    BY <1>5 DEF MarkUsed, Issuable
  <2>2. \A j \in Gifts : Spent(j) => Spent(j)'
    BY <2>1, RowsAssumption DEF HandOut, Spent, Inserted, Activated, State, Gift
  <2> QED
    BY <2>1, <2>2, <1>a DEF HandOut, CostInv
<1>6. ASSUME NEW i \in Gifts, ResetActivation(i)
      PROVE  CostInv'
  <2>1. /\ gift' = [gift EXCEPT ![i].state = "pending"]
        /\ reopened' = [reopened EXCEPT ![i] = @ + 1] /\ UNCHANGED <<late, costs>>
    BY <1>6 DEF ResetActivation
  <2>2. \A j \in Gifts : j # i => (Spent(j)' <=> Spent(j))
    BY <2>1 DEF Spent, Inserted
  <2>3. \A j \in Gifts : costs'[j] <= (IF Spent(j)' THEN 1 ELSE 0) + reopened'[j]
    BY <2>1, <2>2 DEF CostInv
  <2>4. \A j \in Gifts : reopened[j] <= reopened'[j]
    BY <2>1
  <2> QED
    BY <2>1, <2>3, <2>4, <1>a
<1>7. ASSUME NEW i \in Gifts, SelectStory(i) \/ ClaimExpires(i)
      PROVE  CostInv'
  <2>1. /\ gift' = gift \/ (State(i, "played") /\ gift' = [gift EXCEPT ![i].state = "pending"])
        /\ late \subseteq late' /\ UNCHANGED <<costs, reopened>>
    BY <1>7 DEF SelectStory, ClaimExpires, history
  <2>2. \A j \in Gifts : Spent(j) => Spent(j)'
    BY <2>1 DEF Spent, Inserted, Activated, State
  <2> QED
    BY <2>1, <2>2, <1>a DEF CostInv
<1>8. ASSUME NEW w \in Workers, SaveForm(w)
      PROVE  CostInv'
  <2>1. PICK i \in Gifts : i = req[w].gift /\ req[w].seen \in Gift
    BY <1>8, RequestCases DEF SaveForm, Doing
  <2>2. /\ \A j \in Gifts : j # i => gift'[j] = gift[j] /\ reopened'[j] = reopened[j]
        /\ reopened'[i] = Count(reopened[i], Activated(gift[i]) /\ ~Activated(req[w].seen))
        /\ gift'[i] = req[w].seen
        /\ UNCHANGED <<late, costs>>
    BY <1>8, <2>1 DEF SaveForm
  <2>3. costs[i] <= (IF Spent(i)' THEN 1 ELSE 0) + reopened'[i]
    <3>1. CASE Activated(gift[i]) /\ ~Activated(req[w].seen)
      BY <3>1, <2>1, <2>2 DEF Count, CostInv
    <3>2. CASE Activated(req[w].seen)
      <4>1. Spent(i)'
        BY <3>2, <2>1, <2>2, RowsAssumption DEF Spent, Inserted, Activated
      <4>2. reopened'[i] = reopened[i]
        BY <3>2, <2>2 DEF Count
      <4> QED
        BY <4>1, <4>2, <2>1 DEF CostInv
    <3>3. CASE ~Activated(gift[i]) /\ ~Activated(req[w].seen)
      <4>1. Spent(i) => Spent(i)'
        BY <3>3, <2>2 DEF Spent
      <4>2. reopened'[i] = reopened[i]
        BY <3>3, <2>2 DEF Count
      <4> QED
        BY <4>1, <4>2, <2>1 DEF CostInv
    <3> QED
      BY <3>1, <3>2, <3>3
  <2>4. \A j \in Gifts : j # i => (Spent(j)' <=> Spent(j))
    BY <2>2 DEF Spent, Inserted
  <2>5. \A j \in Gifts : costs'[j] <= (IF Spent(j)' THEN 1 ELSE 0) + reopened'[j]
    BY <2>2, <2>3, <2>4 DEF CostInv
  <2>6. \A j \in Gifts : reopened[j] <= reopened'[j]
    BY <2>1, <2>2 DEF Count
  <2> QED
    BY <2>2, <2>5, <2>6, <1>a
<1> QED
  BY <1>1, <1>2, <1>3, <1>4, <1>5, <1>6, <1>7, <1>8, GiftSteps

(* ChargedOnce: a gift costs a second time only after the admin took its   *)
(* activation back; a gift that burnt while it was activated is not        *)
(* activated again.                                                        *)
THEOREM GiftsAreChargedOnce == Spec => []ChargedOnce
<1>1. Init => CostInv
  BY DEF Init, CostInv, Doing, Idle
<1>2. Base /\ CostInv /\ [Next]_vars => CostInv'
  BY CostPreserved DEF Base
<1>3. Base /\ CostInv => ChargedOnce
  BY DEF Base, CostInv, ChargedOnce, TypeOK
<1> QED
  BY <1>1, <1>2, <1>3, BaseHolds, PTL DEF Spec

----------------------------------------------------------------------------
\* What a step does to the cooldowns.
LEMMA CooldownSteps ==
  ASSUME TypeOK, [Next]_vars
  PROVE  \/ UNCHANGED started /\ cooling \subseteq cooling'
         \/ \E w \in Workers : ActivateCommit(w)
         \/ \E p \in Profiles : CooldownLapses(p)
<1> USE DEF rows, history
<1>1. ASSUME NEW w \in Workers,
             \/ Fail(w) \/ RedeemCommit(w) \/ SaveForm(w) \/ ClaimCommit(w) \/ PrizeCommit(w)
      PROVE  UNCHANGED <<started, cooling>>
  BY <1>1 DEF Fail, RedeemCommit, HandOut, SaveForm, ClaimCommit, PrizeCommit, Nothing
<1>2. ASSUME NEW w \in Workers, NEW i \in Gifts,
             \/ ActivateCheck(w, i) \/ OpenForm(w, i)
             \/ \E o \in Orders : RedeemCheck(w, i, o)
      PROVE  UNCHANGED <<started, cooling>>
  BY <1>2 DEF ActivateCheck, RedeemCheck, OpenForm, Nothing
<1>3. ASSUME NEW w \in Workers,
             \/ \E p \in Profiles : ClaimCheck(w, p) \/ GrantCheck(w, p)
             \/ \E v \in Vouchers : PrizeCheck(w, v)
      PROVE  UNCHANGED <<started, cooling>>
  BY <1>3 DEF ClaimCheck, GrantCheck, PrizeCheck, Nothing
<1>4. ASSUME NEW i \in Gifts,
             \/ MarkUsed(i) \/ ResetActivation(i) \/ SelectStory(i)
             \/ ClaimExpires(i) \/ ActiveExpires(i)
      PROVE  UNCHANGED <<started, cooling>>
  BY <1>4 DEF MarkUsed, HandOut, ResetActivation, SelectStory, ClaimExpires, ActiveExpires
<1>5. ASSUME \/ \E p \in Profiles : PlayStory(p)
             \/ \E v \in Vouchers : MarkIssued(v) \/ ResetClaim(v) \/ VoucherExpires(v)
             \/ YearEnds
      PROVE  UNCHANGED <<started, cooling>>
  BY <1>5 DEF PlayStory, MarkIssued, ResetClaim, VoucherExpires, YearEnds
<1>6. ASSUME NEW p \in Profiles, RestartCooldown(p)
      PROVE  UNCHANGED started /\ cooling \subseteq cooling'
  BY <1>6 DEF RestartCooldown
<1>7. CASE UNCHANGED vars
  BY <1>7 DEF vars
<1> QED
  BY <1>1, <1>2, <1>3, <1>4, <1>5, <1>6, <1>7 DEF Next, Guest, Counter, Story, Admin, Clock

\* Only the commit of an activation starts a gift, and it starts the cooldown too.
LEMMA CooldownPreserved ==
  ASSUME TypeOK, RowsInv, LockInv, CooldownInv, [Next]_vars
  PROVE  CooldownInv'
<1> USE DEF TypeOK
<1>0. SameRows
  BY RowsStay
<1>a. ASSUME \A p \in Profiles : started'[p] = 0 \/ (started'[p] = 1 /\ p \in cooling'),
             \A w \in Workers : Doing(w, "activate") /\ req'[w] = req[w] =>
               LET p == gift[req[w].gift].at
               IN  NeedsCode(gift[req[w].gift].src) \/ started'[p] = started[p] \/ started'[p] = 0,
             \A w \in Workers, i \in Gifts : ActivateCheck(w, i) => UNCHANGED started
      PROVE  CooldownInv'
  <2>1. ASSUME NEW w \in Workers, Doing(w, "activate")', NEW i \in Gifts, i = req'[w].gift,
               ~NeedsCode(gift'[i].src)
        PROVE  started'[gift'[i].at] = 0
    <3>1. CASE req'[w] = req[w] /\ Doing(w, "activate")
      <4>1. i = req[w].gift /\ Inserted(i)
        BY <2>1, <3>1 DEF RowsInv, State
      <4>2. gift'[i].src = gift[i].src /\ gift'[i].at = gift[i].at
        BY <4>1, <1>0 DEF SameRows
      <4>3. started[gift[i].at] = 0
        BY <2>1, <3>1, <4>1, <4>2 DEF CooldownInv
      <4>4. started'[gift[i].at] = started[gift[i].at] \/ started'[gift[i].at] = 0
        BY <1>a, <2>1, <3>1, <4>1, <4>2
      <4> QED
        BY <4>2, <4>3, <4>4
    <3>2. ASSUME NEW j \in Gifts, ActivateCheck(w, j)
          PROVE  started'[gift'[i].at] = 0
      <4>1. /\ j = i /\ UNCHANGED <<gift, started>> /\ State(i, "pending")
            /\ NeedsCode(gift[i].src) \/ gift[i].at \notin cooling
        BY <2>1, <3>2 DEF ActivateCheck, Start, Nothing, history, rows, CooldownAllows
      <4>2. gift[i].at \in Profiles
        BY <4>1 DEF State, Inserted, Gift
      <4> QED
        BY <2>1, <4>1, <4>2 DEF CooldownInv
    <3> QED
      BY <2>1, <3>1, <3>2, GoesOn
  <2>2. \A w \in Workers : Doing(w, "activate")' => req'[w].gift \in Gifts
    BY TypePreserved, RequestCases DEF Doing
  <2> QED
    BY <1>a, <2>1, <2>2 DEF CooldownInv
<1>b. \A w \in Workers, i \in Gifts : ActivateCheck(w, i) => UNCHANGED started
  BY DEF ActivateCheck, Nothing, history
<1>1. CASE UNCHANGED started /\ cooling \subseteq cooling'
  BY <1>1, <1>a, <1>b DEF CooldownInv
<1>2. ASSUME NEW p \in Profiles, CooldownLapses(p)
      PROVE  CooldownInv'
  <2>1. started' = [started EXCEPT ![p] = 0] /\ cooling' = cooling \ {p}
    BY <1>2 DEF CooldownLapses
  <2>2. \A q \in Profiles : started'[q] = 0 \/ (started'[q] = started[q] /\ q # p)
    BY <2>1
  <2>3. \A q \in Profiles : started'[q] = 0 \/ (started'[q] = 1 /\ q \in cooling')
    BY <2>1, <2>2 DEF CooldownInv
  <2>4. \A w \in Workers : Doing(w, "activate") => gift[req[w].gift].at \in Profiles
    BY RequestCases DEF Doing, RowsInv, State, Inserted, Gift
  <2> QED
    BY <2>2, <2>3, <2>4, <1>a, <1>b
<1>3. ASSUME NEW w \in Workers, ActivateCommit(w)
      PROVE  CooldownInv'
  <2>1. PICK i \in Gifts : i = req[w].gift /\ State(i, "pending")
    BY <1>3, RequestCases DEF ActivateCommit, Doing, RowsInv
  <2>2. PICK p \in Profiles : p = gift[i].at
    BY <2>1 DEF State, Inserted, Gift
  <2>3. NeedsCode(gift[i].src) \/ started[p] = 0
    BY <1>3, <2>1, <2>2 DEF ActivateCommit, CooldownInv
  <2>4. /\ cooling \subseteq cooling'
        /\ ~NeedsCode(gift[i].src) => p \in cooling'
        /\ started' = started \/ (~NeedsCode(gift[i].src) /\ started' = [started EXCEPT ![p] = @ + 1])
    BY <1>3, <2>1, <2>2 DEF ActivateCommit
  <2>5. \A q \in Profiles : q # p => started'[q] = started[q]
    BY <2>4
  <2>6. started'[p] = started[p] \/ (p \in cooling' /\ started'[p] = 1)
    BY <2>3, <2>4
  <2>7. \A q \in Profiles : started'[q] = 0 \/ (started'[q] = 1 /\ q \in cooling')
    BY <2>4, <2>5, <2>6 DEF CooldownInv
  <2>8. ASSUME NEW v \in Workers, Doing(v, "activate"), req'[v] = req[v]
        PROVE  started'[gift[req[v].gift].at] = started[gift[req[v].gift].at]
    <3>1. req'[w] = Idle
      BY <1>3 DEF ActivateCommit, Finish
    <3>2. v # w
      BY <2>8, <3>1 DEF Doing, Idle
    <3>3. gift[req[v].gift].at # p
      BY <1>3, <2>1, <2>2, <2>8, <3>2 DEF LockInv, ActivateCommit
    <3>4. gift[req[v].gift].at \in Profiles
      BY <2>8, RequestCases DEF Doing, RowsInv, State, Inserted, Gift
    <3> QED
      BY <2>5, <3>3, <3>4
  <2> QED
    BY <2>7, <2>8, <1>a, <1>b
<1> QED
  BY <1>1, <1>2, <1>3, CooldownSteps

(* OncePerCooldown: the profile lock keeps the second activation from      *)
(* reading the cooldown before the first one has started it.               *)
THEOREM CooldownsHold == Spec => []OncePerCooldown
<1>1. Init => CooldownInv
  BY DEF Init, CooldownInv, Doing, Idle
<1>2. Base /\ CooldownInv /\ [Next]_vars => CooldownInv'
  BY CooldownPreserved DEF Base
<1>3. CooldownInv => OncePerCooldown
  BY DEF CooldownInv, OncePerCooldown
<1> QED
  BY <1>1, <1>2, <1>3, BaseHolds, PTL DEF Spec

----------------------------------------------------------------------------
\* Only the commit of a prize pays, and it closes the voucher unless that has expired.
LEMMA PrizePreserved ==
  ASSUME TypeOK, RowsInv, LockInv, PrizeInv, [Next]_vars
  PROVE  PrizeInv'
<1> USE DEF TypeOK
<1>1. TypeOK'
  BY TypePreserved
<1>2. expired \subseteq expired'
  <2>1. ASSUME NEW w \in Workers, Guest(w) \/ Counter(w) \/ Fail(w) \/ SaveForm(w)
               \/ \E i \in Gifts : OpenForm(w, i)
        PROVE  UNCHANGED expired
    BY <2>1 DEF Guest, ActivateCheck, ActivateCommit, ClaimCheck, GrantCheck, PrizeCheck, ClaimCommit,
       PrizeCommit, Counter, RedeemCheck, RedeemCommit, HandOut, Fail, Nothing, SaveForm, OpenForm, rows
  <2>2. ASSUME Story \/ \E i \in Gifts : MarkUsed(i) \/ ResetActivation(i)
        PROVE  UNCHANGED expired
    BY <2>2 DEF Story, PlayStory, SelectStory, MarkUsed, HandOut, ResetActivation
  <2>3. ASSUME \/ \E p \in Profiles : RestartCooldown(p)
               \/ \E v \in Vouchers : MarkIssued(v) \/ ResetClaim(v)
        PROVE  UNCHANGED expired
    BY <2>3 DEF RestartCooldown, MarkIssued, ResetClaim
  <2>4. CASE Clock
    BY <2>4 DEF Clock, ClaimExpires, ActiveExpires, CooldownLapses, VoucherExpires, YearEnds, rows
  <2>5. CASE UNCHANGED vars
    BY <2>5 DEF vars, rows
  <2> QED
    BY <2>1, <2>2, <2>3, <2>4, <2>5 DEF Next, Admin
\* The requests for a prize that go on, or begin.
<1>3. ASSUME NEW w \in Workers, Doing(w, "prize")'
      PROVE  \/ req'[w] = req[w] /\ Doing(w, "prize")
             \/ \E v \in Vouchers : PrizeCheck(w, v)
  <2>1. CASE Ends
    BY <1>3, <2>1 DEF Ends, Idle, Doing
  <2>2. ASSUME NEW u \in Workers, NEW v \in Vouchers, PrizeCheck(u, v)
        PROVE  req'[w] = req[w] \/ u = w
    BY <2>2 DEF PrizeCheck, Start
  <2>3. ASSUME NEW u \in Workers, NEW i \in Gifts,
               \/ ActivateCheck(u, i) \/ OpenForm(u, i)
               \/ \E o \in Orders : RedeemCheck(u, i, o)
        PROVE  req'[w] = req[w]
    BY <1>3, <2>3 DEF ActivateCheck, OpenForm, RedeemCheck, Start, Doing
  <2>4. ASSUME NEW u \in Workers, \E p \in Profiles : ClaimCheck(u, p) \/ GrantCheck(u, p)
        PROVE  req'[w] = req[w]
    BY <1>3, <2>4 DEF ClaimCheck, GrantCheck, Start, Doing
  <2> QED
    BY <1>3, <2>1, <2>2, <2>3, <2>4, EndsOrBegins DEF Doing
<1>a. ASSUME \A v \in Vouchers :
               paid'[v] <= (IF voucher'[v] # "pending" \/ v \in expired' THEN 1 ELSE 0) + returned'[v],
             \A v \in Vouchers : returned[v] <= returned'[v],
             \A w \in Workers : Doing(w, "prize") /\ req'[w] = req[w] =>
               paid'[req[w].voucher] = paid[req[w].voucher]
      PROVE  PrizeInv'
  <2>1. ASSUME NEW w \in Workers, Doing(w, "prize")', NEW v \in Vouchers, v = req'[w].voucher
        PROVE  paid'[v] <= returned'[v]
    <3>1. CASE req'[w] = req[w] /\ Doing(w, "prize")
      <4>1. paid[v] <= returned[v] /\ paid'[v] = paid[v] /\ returned[v] <= returned'[v]
        BY <1>a, <2>1, <3>1 DEF PrizeInv
      <4>2. paid[v] \in Nat /\ returned[v] \in Nat /\ returned'[v] \in Nat
        BY <1>1
      <4> QED
        BY <4>1, <4>2
    <3>2. ASSUME NEW x \in Vouchers, PrizeCheck(w, x)
          PROVE  paid'[v] <= returned'[v]
      <4>1. x = v /\ UNCHANGED <<paid, returned>> /\ voucher[v] = "pending" /\ v \notin expired
        BY <2>1, <3>2 DEF PrizeCheck, Start, Nothing, history
      <4> QED
        BY <4>1 DEF PrizeInv
    <3> QED
      BY <2>1, <3>1, <3>2, <1>3
  <2>2. \A w \in Workers : Doing(w, "prize")' => req'[w].voucher \in Vouchers
    BY <1>1, RequestCases DEF Doing
  <2> QED
    BY <1>a, <2>1, <2>2 DEF PrizeInv
<1>4. CASE UNCHANGED <<voucher, paid, returned>>
  <2>1. ASSUME NEW v \in Vouchers
        PROVE  paid'[v] <= (IF voucher'[v] # "pending" \/ v \in expired' THEN 1 ELSE 0) + returned'[v]
    BY <1>2, <1>4 DEF PrizeInv
  <2> QED
    BY <1>4, <2>1, <1>a
<1>5. ASSUME NEW w \in Workers, PrizeCommit(w)
      PROVE  PrizeInv'
  <2>1. PICK x \in Vouchers : x = req[w].voucher /\ paid[x] <= returned[x] /\ voucher[x] = "pending"
    BY <1>5, RequestCases DEF PrizeCommit, Doing, RowsInv, PrizeInv
  <2>2. /\ paid' = [paid EXCEPT ![x] = @ + 1] /\ UNCHANGED <<returned, expired>>
        /\ voucher' = IF x \in expired THEN voucher ELSE [voucher EXCEPT ![x] = "claimed"]
    BY <1>5, <2>1 DEF PrizeCommit
  <2>3. x \in expired' \/ voucher'[x] # "pending"
    BY <2>1, <2>2
  <2>4. \A v \in Vouchers : v # x => voucher'[v] = voucher[v]
    BY <2>2
  <2>5. \A v \in Vouchers :
          paid'[v] <= (IF voucher'[v] # "pending" \/ v \in expired' THEN 1 ELSE 0) + returned'[v]
    BY <2>1, <2>2, <2>3, <2>4 DEF PrizeInv
  <2>6. ASSUME NEW u \in Workers, Doing(u, "prize"), req'[u] = req[u]
        PROVE  paid'[req[u].voucher] = paid[req[u].voucher]
    <3>1. req'[w] = Idle
      BY <1>5 DEF PrizeCommit, Finish
    <3>2. u # w
      BY <2>6, <3>1 DEF Doing, Idle
    <3>3. req[u].voucher # x
      BY <1>5, <2>1, <2>6, <3>2 DEF LockInv, PrizeCommit
    <3> QED
      BY <2>2, <2>6, <3>3, RequestCases DEF Doing
  <2> QED
    BY <2>2, <2>5, <2>6, <1>a
<1>6. ASSUME NEW x \in Vouchers, MarkIssued(x) \/ ResetClaim(x)
      PROVE  PrizeInv'
  <2>1. /\ voucher[x] = "claimed" /\ UNCHANGED <<paid, expired>>
        /\ \/ voucher' = [voucher EXCEPT ![x] = "issued"] /\ UNCHANGED returned
           \/ /\ voucher' = [voucher EXCEPT ![x] = "pending"]
              /\ returned' = [returned EXCEPT ![x] = @ + 1]
    BY <1>6 DEF MarkIssued, ResetClaim, history
  <2>2. \A v \in Vouchers : v # x => voucher'[v] = voucher[v] /\ returned'[v] = returned[v]
    BY <2>1
  <2>3. \/ voucher'[x] # "pending" /\ returned'[x] = returned[x]
        \/ returned'[x] = returned[x] + 1
    BY <2>1
  <2>4. \A v \in Vouchers :
          paid'[v] <= (IF voucher'[v] # "pending" \/ v \in expired' THEN 1 ELSE 0) + returned'[v]
    BY <2>1, <2>2, <2>3 DEF PrizeInv
  <2>5. \A v \in Vouchers : returned[v] <= returned'[v]
    BY <2>2, <2>3
  <2> QED
    BY <2>1, <2>4, <2>5, <1>a
<1> QED
  BY <1>4, <1>5, <1>6, VoucherSteps

\* The prizes of every reachable state are accounted for.
LEMMA PrizesHold == Spec => []PrizeInv
<1>1. Init => PrizeInv
  BY DEF Init, PrizeInv, Doing, Idle
<1>2. Base /\ PrizeInv /\ [Next]_vars => PrizeInv'
  BY PrizePreserved DEF Base
<1> QED
  BY <1>1, <1>2, BaseHolds, PTL DEF Spec

----------------------------------------------------------------------------
\* Claim w of a gift of source src gives row i.
Claims(w, i, src) ==
  /\ Doing(w, src) /\ ~Inserted(i)
  /\ gift' = [gift EXCEPT ![i] = [src |-> src, at |-> req[w].at, year |-> year,
                                 state |-> "pending", by |-> None]]
  /\ req' = [req EXCEPT ![w] = Idle]
  /\ UNCHANGED <<year, raced>>

\* Row i was there before the step.
Stays(i, src) == /\ From(i, src)
                 /\ gift'[i].at = gift[i].at /\ gift'[i].year = gift[i].year

\* A step leaves the gifts of a claimable source as they are, but for the one a
\* claim inserts.
LEMMA ClaimedRows ==
  ASSUME TypeOK, RowsInv, [Next]_vars, NEW src \in {"birthday", "apology"}
  PROVE  \/ \A i \in Gifts : From(i, src)' => Stays(i, src)
         \/ \E w \in Workers, i \in Gifts : Claims(w, i, src)
<1> USE DEF TypeOK
<1>0. SameRows
  BY RowsStay
<1>1. ASSUME NEW i \in Gifts, Inserted(i), From(i, src)'
      PROVE  Stays(i, src)
  BY <1>0, <1>1 DEF SameRows, From, Inserted, Stays
<1>2. ASSUME NEW other \in Sources, other # src, NEW at, NEW s, Insert(other, at, s)
      PROVE  \A i \in Gifts : From(i, src)' => Stays(i, src)
  <2>1. PICK k \in Gifts : /\ ~Inserted(k)
                           /\ gift' = [gift EXCEPT ![k] = [src |-> other, at |-> at, year |-> year,
                                                          state |-> s, by |-> None]]
    BY <1>2 DEF Insert
  <2>2. ~From(k, src)'
    BY <1>2, <2>1 DEF From
  <2>3. \A i \in Gifts : i # k => gift'[i] = gift[i]
    BY <2>1
  <2> QED
    BY <2>2, <2>3, <1>1 DEF From, Inserted
<1>3. ASSUME NEW w \in Workers, ClaimCommit(w)
      PROVE  \/ \A i \in Gifts : From(i, src)' => Stays(i, src)
             \/ \E i \in Gifts : Claims(w, i, src)
  <2>1. req[w].pc \in {"birthday", "apology"} /\ Insert(req[w].pc, req[w].at, "pending")
    BY <1>3 DEF ClaimCommit, Doing
  <2>2. CASE req[w].pc = src
    <3>1. PICK i \in Gifts : /\ ~Inserted(i)
                             /\ gift' = [gift EXCEPT ![i] = [src |-> src, at |-> req[w].at,
                                           year |-> year, state |-> "pending", by |-> None]]
      BY <2>1, <2>2 DEF Insert
    <3> QED
      BY <1>3, <2>2, <3>1 DEF Claims, ClaimCommit, Finish, history, Doing
  <2>3. CASE req[w].pc # src
    BY <1>2, <2>1, <2>3 DEF Sources
  <2> QED
    BY <2>2, <2>3
<1>4. ASSUME NEW w \in Workers, PrizeCommit(w)
      PROVE  \A i \in Gifts : From(i, src)' => Stays(i, src)
  <2>1. Insert("other", VoucherOf[req[w].voucher], "pending")
    BY <1>4 DEF PrizeCommit
  <2> QED
    BY <1>2, <2>1 DEF Sources
<1>5. ASSUME NEW p \in Profiles, PlayStory(p)
      PROVE  \A i \in Gifts : From(i, src)' => Stays(i, src)
  BY <1>2, <1>5 DEF PlayStory, Sources
<1>6. ASSUME NEW i \in Gifts, MarkUsed(i) \/ ResetActivation(i) \/ SelectStory(i)
      PROVE  \A j \in Gifts : From(j, src)' => Stays(j, src)
  <2>1. Inserted(i) /\ \A j \in Gifts : j # i => gift'[j] = gift[j]
    BY <1>6 DEF MarkUsed, HandOut, ResetActivation, SelectStory, Issuable, NotUsed, State
  <2> QED
    BY <1>1, <2>1 DEF From, Inserted
<1>7. ASSUME NEW w \in Workers, ActivateCommit(w) \/ RedeemCommit(w) \/ SaveForm(w)
      PROVE  \A j \in Gifts : From(j, src)' => Stays(j, src)
  <2>1. Inserted(req[w].gift)
    BY <1>7 DEF ActivateCommit, RedeemCommit, SaveForm, RowsInv, State
  <2>2. \A j \in Gifts : j # req[w].gift => gift'[j] = gift[j]
    BY <1>7 DEF ActivateCommit, RedeemCommit, HandOut, SaveForm
  <2> QED
    BY <1>1, <2>1, <2>2 DEF From, Inserted
<1>8. CASE UNCHANGED gift
  BY <1>1, <1>8 DEF From, Inserted
<1>9. CASE AddingStep
  BY <1>3, <1>4, <1>5, <1>9 DEF AddingStep
<1> QED
  BY <1>6, <1>7, <1>8, <1>9, GiftSteps DEF ClaimExpires

\* The claims that go on through a step, or begin with it.
LEMMA ClaimsGoOn ==
  ASSUME TypeOK, [Next]_vars, NEW w \in Workers, NEW pc \in {"birthday", "apology"}, Doing(w, pc)'
  PROVE  \/ req'[w] = req[w] /\ Doing(w, pc)
         \/ \E p \in Profiles : IF pc = "birthday" THEN ClaimCheck(w, p) ELSE GrantCheck(w, p)
<1> USE DEF TypeOK, Doing
<1>1. CASE Ends
  BY <1>1 DEF Ends, Idle
<1>2. ASSUME NEW v \in Workers, NEW p \in Profiles, ClaimCheck(v, p)
      PROVE  req'[w] = req[w] \/ (v = w /\ pc = "birthday")
  BY <1>2 DEF ClaimCheck, Start
<1>3. ASSUME NEW v \in Workers, NEW p \in Profiles, GrantCheck(v, p)
      PROVE  req'[w] = req[w] \/ (v = w /\ pc = "apology")
  BY <1>3 DEF GrantCheck, Start
<1>4. ASSUME NEW v \in Workers, NEW i \in Gifts,
             \/ ActivateCheck(v, i) \/ OpenForm(v, i)
             \/ \E o \in Orders : RedeemCheck(v, i, o)
      PROVE  req'[w] = req[w]
  BY <1>4 DEF ActivateCheck, OpenForm, RedeemCheck, Start
<1>5. ASSUME NEW v \in Workers, NEW x \in Vouchers, PrizeCheck(v, x)
      PROVE  req'[w] = req[w]
  BY <1>5 DEF PrizeCheck, Start
<1> QED
  BY <1>1, <1>2, <1>3, <1>4, <1>5, EndsOrBegins

\* The year goes on by itself; an overlap is remembered.
LEMMA YearSteps ==
  ASSUME TypeOK, [Next]_vars
  PROVE  /\ raced => raced'
         /\ year' = year \/ (year' = year + 1 /\ UNCHANGED <<gift, req>>)
<1> USE DEF rows, history
<1>1. ASSUME NEW w \in Workers,
             \/ ActivateCommit(w) \/ Fail(w) \/ RedeemCommit(w)
             \/ SaveForm(w) \/ ClaimCommit(w) \/ PrizeCommit(w)
      PROVE  UNCHANGED <<raced, year>>
  BY <1>1 DEF ActivateCommit, Fail, RedeemCommit, HandOut, SaveForm, ClaimCommit, PrizeCommit, Nothing
<1>2. ASSUME NEW w \in Workers, NEW i \in Gifts,
             \/ ActivateCheck(w, i) \/ OpenForm(w, i)
             \/ \E o \in Orders : RedeemCheck(w, i, o)
      PROVE  UNCHANGED <<raced, year>>
  BY <1>2 DEF ActivateCheck, RedeemCheck, OpenForm, Nothing
<1>3. ASSUME NEW w \in Workers,
             \/ \E p \in Profiles : ClaimCheck(w, p) \/ GrantCheck(w, p)
             \/ \E v \in Vouchers : PrizeCheck(w, v)
      PROVE  (raced => raced') /\ UNCHANGED year
  <2>1. ASSUME NEW p \in Profiles, GrantCheck(w, p)
        PROVE  (raced => raced') /\ UNCHANGED year
    <3>1. (raced => raced')
      BY <2>1, Zenon DEF GrantCheck
    <3> QED
      BY <2>1, <3>1 DEF GrantCheck
  <2>2. CASE UNCHANGED <<raced, year>>
    BY <2>2
  <2> QED
    BY <1>3, <2>1, <2>2 DEF ClaimCheck, PrizeCheck, Nothing
<1>4. ASSUME NEW i \in Gifts,
             \/ MarkUsed(i) \/ ResetActivation(i) \/ SelectStory(i)
             \/ ClaimExpires(i) \/ ActiveExpires(i)
      PROVE  UNCHANGED <<raced, year>>
  BY <1>4 DEF MarkUsed, HandOut, ResetActivation, SelectStory, ClaimExpires, ActiveExpires
<1>5. ASSUME \/ \E p \in Profiles : PlayStory(p) \/ RestartCooldown(p) \/ CooldownLapses(p)
             \/ \E v \in Vouchers : MarkIssued(v) \/ ResetClaim(v) \/ VoucherExpires(v)
      PROVE  UNCHANGED <<raced, year>>
  BY <1>5 DEF PlayStory, RestartCooldown, CooldownLapses, MarkIssued, ResetClaim, VoucherExpires
<1>6. CASE YearEnds
  BY <1>6 DEF YearEnds
<1>7. CASE UNCHANGED vars
  BY <1>7 DEF vars
<1> QED
  BY <1>1, <1>2, <1>3, <1>4, <1>5, <1>6, <1>7 DEF Next, Guest, Counter, Story, Admin, Clock

\* Only the commit of a claim inserts a birthday gift, under the lock of the guest.
LEMMA BirthdayPreserved ==
  ASSUME TypeOK, RowsInv, LockInv, BirthdayInv, [Next]_vars
  PROVE  BirthdayInv'
<1> USE DEF TypeOK
<1>0. SameRows /\ TypeOK'
  BY RowsStay, TypePreserved
<1>1. \A i \in Gifts : From(i, "birthday")' => gift'[i].year <= year'
  <2>1. ASSUME NEW i \in Gifts, Stays(i, "birthday")
        PROVE  gift'[i].year <= year'
    <3>1. gift[i].year <= year /\ gift[i].year \in Nat /\ gift'[i].year = gift[i].year
      BY <2>1 DEF Stays, From, Inserted, BirthdayInv, Gift
    <3> QED
      BY <3>1, YearSteps
  <2>2. ASSUME NEW w \in Workers, NEW i \in Gifts, Claims(w, i, "birthday"),
               NEW j \in Gifts, From(j, "birthday")'
        PROVE  gift'[j].year <= year'
    <3>1. CASE j = i
      BY <2>2, <3>1 DEF Claims
    <3>2. CASE j # i
      <4>1. gift'[j] = gift[j] /\ From(j, "birthday") /\ year' = year
        BY <2>2, <3>2 DEF Claims, From, Inserted
      <4> QED
        BY <4>1 DEF From, BirthdayInv
    <3> QED
      BY <3>1, <3>2
  <2> QED
    BY <2>1, <2>2, ClaimedRows
<1>2. ASSUME NEW w \in Workers, Doing(w, "birthday")', NEW i \in Gifts, From(i, "birthday")'
      PROVE  gift'[i].year # year'
  <2>1. ASSUME req'[w] = req[w], Doing(w, "birthday")
        PROVE  gift'[i].year # year'
    <3>1. ~\E v \in Workers, k \in Gifts : Claims(v, k, "birthday")
      <4> SUFFICES ASSUME NEW v \in Workers, NEW k \in Gifts, Claims(v, k, "birthday")
                   PROVE  FALSE
        OBVIOUS
      <4>1. v = w
        BY <2>1 DEF Claims, LockInv
      <4> QED
        BY <1>2, <2>1, <4>1 DEF Claims, Doing, Idle
    <3>2. Stays(i, "birthday")
      BY <1>2, <3>1, ClaimedRows
    <3>3. gift[i].year \in Nat /\ gift[i].year <= year /\ gift'[i].year = gift[i].year
      BY <3>2 DEF Stays, From, Inserted, BirthdayInv, Gift
    <3>4. gift[i].year # year
      BY <2>1, <3>2 DEF Stays, BirthdayInv, ThisYearsGifts
    <3> QED
      BY <3>3, <3>4, YearSteps
  <2>2. ASSUME NEW p \in Profiles, ClaimCheck(w, p)
        PROVE  gift'[i].year # year'
    BY <1>2, <2>2 DEF ClaimCheck, Nothing, rows, ThisYearsGifts, From, Inserted
  <2> QED
    BY <1>2, <2>1, <2>2, ClaimsGoOn
<1>3. ASSUME NEW i \in Gifts, NEW j \in Gifts, From(i, "birthday")', From(j, "birthday")',
             gift'[i].year = gift'[j].year
      PROVE  i = j
  <2>1. CASE Stays(i, "birthday") /\ Stays(j, "birthday")
    BY <1>3, <2>1 DEF Stays, BirthdayInv
  <2>2. ASSUME NEW w \in Workers, NEW k \in Gifts, Claims(w, k, "birthday")
        PROVE  i = j
    <3>1. \A m \in Gifts : m # k => gift'[m] = gift[m]
      BY <2>2 DEF Claims
    <3>2. gift'[k].year = year
      BY <2>2 DEF Claims
    <3>3. ThisYearsGifts = {}
      BY <2>2 DEF Claims, BirthdayInv
    <3>4. \A m \in Gifts : m # k /\ From(m, "birthday")' =>
            Stays(m, "birthday") /\ gift'[m].year # year
      BY <3>1, <3>3 DEF Stays, From, Inserted, ThisYearsGifts
    <3> QED
      BY <1>3, <2>1, <3>2, <3>4
  <2> QED
    BY <1>3, <2>1, <2>2, ClaimedRows
<1> QED
  BY <1>1, <1>2, <1>3 DEF BirthdayInv, ThisYearsGifts

(* OneBirthdayGift: the lock of the guest makes the check of the gifts of  *)
(* all profiles and the insert of a new one atomic, and the calendar too: a*)
(* claim that began in the old year may end in the new one.                *)
THEOREM BirthdayGiftsAreOnceAYear == Spec => []OneBirthdayGift
<1>1. Init => BirthdayInv
  <2> SUFFICES ASSUME Init PROVE BirthdayInv
    OBVIOUS
  <2>1. \A i, j \in Gifts : From(i, "birthday") /\ From(j, "birthday") => i = j
    BY ScenariosAssumption DEF Init, From, Inserted
  <2>2. \A i \in Gifts : From(i, "birthday") => gift[i].year <= year
    BY ScenariosAssumption DEF Init, From, Inserted
  <2>3. \A w \in Workers : ~Doing(w, "birthday")
    BY DEF Init, Doing, Idle
  <2> QED
    BY <2>1, <2>2, <2>3 DEF BirthdayInv
<1>2. Base /\ BirthdayInv /\ [Next]_vars => BirthdayInv'
  BY BirthdayPreserved DEF Base
<1>3. BirthdayInv => OneBirthdayGift
  BY DEF BirthdayInv, OneBirthdayGift, BirthdayGifts
<1> QED
  BY <1>1, <1>2, <1>3, BaseHolds, PTL DEF Spec

----------------------------------------------------------------------------
\* A grant that starts beside another one is recorded in `raced`.
LEMMA ApologyPreserved ==
  ASSUME TypeOK, RowsInv, ApologyInv, [Next]_vars, ~raced'
  PROVE  ApologyInv'
<1> USE DEF TypeOK
<1>1. /\ \A w \in Workers : Doing(w, "apology") =>
           Apologies = {} /\ \A v \in Workers : Doing(v, "apology") => v = w
      /\ \A i, j \in Apologies : i = j
  BY YearSteps DEF ApologyInv
<1>2. ASSUME NEW w \in Workers, NEW p \in Profiles, GrantCheck(w, p)
      PROVE  /\ \A v \in Workers : ~Doing(v, "apology")
             /\ \A v \in Workers : Doing(v, "apology")' => v = w
             /\ Apologies = {} /\ UNCHANGED gift
  <2>1. \A v \in Workers : ~Doing(v, "apology")
    BY <1>2 DEF GrantCheck
  <2>2. req' = [req EXCEPT ![w] = [pc |-> "apology", at |-> p]]
    BY <1>2 DEF GrantCheck, Start
  <2> QED
    BY <1>2, <2>1, <2>2 DEF GrantCheck, Doing, rows
<1>3. ASSUME NEW w \in Workers, Doing(w, "apology")', NEW i \in Gifts, From(i, "apology")'
      PROVE  FALSE
  <2>1. ASSUME req'[w] = req[w], Doing(w, "apology")
        PROVE  FALSE
    <3>1. ~\E v \in Workers, k \in Gifts : Claims(v, k, "apology")
      BY <1>1, <1>3, <2>1 DEF Claims, Doing, Idle
    <3>2. Stays(i, "apology")
      BY <1>3, <3>1, ClaimedRows
    <3> QED
      BY <1>1, <2>1, <3>2 DEF Stays, Apologies
  <2>2. ASSUME NEW p \in Profiles, GrantCheck(w, p)
        PROVE  FALSE
    BY <1>2, <1>3, <2>2 DEF Apologies, From, Inserted
  <2> QED
    BY <1>3, <2>1, <2>2, ClaimsGoOn
<1>4. ASSUME NEW w \in Workers, Doing(w, "apology")', NEW v \in Workers, Doing(v, "apology")'
      PROVE  v = w
  <2>1. ASSUME NEW p \in Profiles, GrantCheck(w, p) \/ GrantCheck(v, p)
        PROVE  v = w
    BY <1>2, <1>4, <2>1
  <2>2. CASE Doing(w, "apology") /\ Doing(v, "apology")
    BY <1>1, <2>2
  <2> QED
    BY <1>4, <2>1, <2>2, ClaimsGoOn
<1>5. ASSUME NEW i \in Gifts, NEW j \in Gifts, From(i, "apology")', From(j, "apology")'
      PROVE  i = j
  <2>1. CASE Stays(i, "apology") /\ Stays(j, "apology")
    BY <1>1, <2>1 DEF Stays, Apologies
  <2>2. ASSUME NEW w \in Workers, NEW k \in Gifts, Claims(w, k, "apology")
        PROVE  i = j
    <3>1. Apologies = {}
      BY <1>1, <2>2 DEF Claims
    <3>2. \A m \in Gifts : m # k => gift'[m] = gift[m]
      BY <2>2 DEF Claims
    <3>3. \A m \in Gifts : m # k => ~From(m, "apology")'
      BY <3>1, <3>2 DEF Apologies, From, Inserted
    <3> QED
      BY <1>5, <3>3
  <2> QED
    BY <1>5, <2>1, <2>2, ClaimedRows
<1> QED
  BY <1>3, <1>4, <1>5 DEF ApologyInv, Apologies

(* OnePrizePerVoucher: the lock of the voucher carries the first half; for *)
(* apologies nothing but their not overlapping does.                       *)
THEOREM VouchersPayOnePrize == Spec => []OnePrizePerVoucher
<1>1. Init => ApologyInv
  <2> SUFFICES ASSUME Init PROVE ApologyInv
    OBVIOUS
  <2>1. \A i, j \in Apologies : i = j
    BY ScenariosAssumption DEF Init, From, Inserted, Apologies
  <2>2. \A w \in Workers : ~Doing(w, "apology")
    BY DEF Init, Doing, Idle
  <2> QED
    BY <2>1, <2>2 DEF ApologyInv
<1>2. Base /\ ApologyInv /\ [Next]_vars => ApologyInv'
  <2>1. Base /\ ApologyInv /\ [Next]_vars /\ ~raced' => ApologyInv'
    BY ApologyPreserved DEF Base
  <2>2. raced' => ApologyInv'
    BY DEF ApologyInv
  <2> QED
    BY <2>1, <2>2
<1>3. Base /\ PrizeInv /\ ApologyInv => OnePrizePerVoucher
  BY DEF Base, PrizeInv, ApologyInv, OnePrizePerVoucher, TypeOK
<1> QED
  BY <1>1, <1>2, <1>3, BaseHolds, PrizesHold, PTL DEF Spec

(* OneGiftPerCause: the two together.                                      *)
THEOREM CausesGiveOneGift == Spec => []OneGiftPerCause
<1>1. OneBirthdayGift /\ OnePrizePerVoucher => OneGiftPerCause
  BY DEF OneGiftPerCause
<1> QED
  BY <1>1, BirthdayGiftsAreOnceAYear, VouchersPayOnePrize, PTL
=============================================================================
