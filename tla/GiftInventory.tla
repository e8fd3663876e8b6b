--------------------------- MODULE GiftInventory ---------------------------
(***************************************************************************)
(* The gifts of one guest: how they are claimed (claim_birthday_prize,     *)
(* claim_super_prize of inventory/api/services.py, play_story_game of      *)
(* story_services.py, grant of branch/apology_gift.py), activated in the   *)
(* cafe (activate_item, activate_story_gift), and handed out by the cash   *)
(* register (PluginRedeemView of pos_plugin.py) or by staff in the admin.  *)
(*                                                                         *)
(* A request is two steps, what it reads under its locks and what it       *)
(* writes when it commits; time goes on in between.  Requests of the guest *)
(* read a profile (ClientBranch) joined with the guest (Client) FOR UPDATE,*)
(* which locks both rows; activations lock the gift too, the cash register *)
(* only the gift; inserting a gift waits for the lock of its profile.  The *)
(* admin updates rows under a condition, or saves a form: all the columns  *)
(* of a row read before.                                                   *)
(***************************************************************************)
EXTENDS Integers, FiniteSets

CONSTANTS
  Profiles,   \* profiles of the guest: one in each branch
  Gifts,      \* rows of InventoryItem and StoryGiftEntry, numbered as inserted
  Vouchers,   \* SuperPrizeEntry rows
  VoucherOf,  \* [Vouchers -> Profiles]: where the guest won them
  Orders,     \* iiko orders
  Workers,    \* request workers, celery workers, sessions of the admin
  Staff,      \* the admin as a taker of gifts
  None,       \* nobody has taken the gift
  NoGift,     \* a row that was not inserted yet
  MaxYear,    \* bound: the year the calendar stops in
  MaxAdmin,   \* bound: resets and forms of the admin
  Scenarios   \* what to look at, one is chosen in Init

Takers == Orders \cup {Staff}

\* "other": bought, super prize, apology, by hand; an apology is told apart
\* because it is given once a month and, from the catalogue, with a deadline.
Sources == {"birthday", "catalog", "story", "apology", "other"}

Gift == [src : Sources, at : Profiles, year : Nat,
         state : {"played", "pending", "active", "used"},
         by : Takers \cup {None}]

Operations == {"activate", "redeem", "birthday", "prize", "apology", "story", "admin"}

Scenario == [gifts : [Gifts -> Gift \cup {NoGift}],  \* rows that are there
             ops   : SUBSET Operations]              \* operations that take place

ASSUME RowsAssumption == /\ Gifts \subseteq Nat /\ VoucherOf \in [Vouchers -> Profiles]
                         /\ NoGift \notin Gift /\ None \notin Takers
ASSUME BoundsAssumption == MaxYear \in Nat /\ MaxAdmin \in Nat

\* Gifts a guest holds to begin with wait to be activated; the once-a-year and
\* once-a-month ones are there once.
ASSUME ScenariosAssumption ==
  /\ Scenarios \subseteq Scenario
  /\ \A s \in Scenarios : \A i \in Gifts : s.gifts[i] # NoGift =>
       /\ s.gifts[i].state = "pending" /\ s.gifts[i].by = None /\ s.gifts[i].year = 1
       /\ s.gifts[i].src \in {"birthday", "apology"} =>
            \A j \in Gifts : s.gifts[j] # NoGift /\ s.gifts[j].src = s.gifts[i].src => j = i

VARIABLES
  scenario,
  gift,      \* [Gifts -> Gift or NoGift]
  late,      \* gifts whose claim_expires_at has passed
  over,      \* gifts whose expires_at has passed since they were activated
  cooling,   \* profiles whose INVENTORY cooldown is running
  voucher,   \* [Vouchers -> {"pending", "claimed", "issued"}]
  expired,   \* vouchers whose expires_at has passed
  year,      \* the calendar year
  req,       \* [Workers -> Request]
  costs,     \* history, [Gifts -> Nat]: GiftCostEvent rows of the gift
  reopened,  \* history, [Gifts -> Nat]: times the admin took an activation back
  handed,    \* history, [Gifts -> Nat]: times the gift was handed out
  erased,    \* history, [Gifts -> Nat]: times a saved form erased a hand-out
  started,   \* history, [Profiles -> Nat]: activations in the running cooldown
  paid,      \* history, [Vouchers -> Nat]: prizes given for the voucher
  returned,  \* history, [Vouchers -> Nat]: times the admin reopened the voucher
  raced,     \* history: has a grant been checked while another one went on?
  admin      \* history: resets and forms of the admin so far

rows    == <<gift, late, over, cooling, voucher, expired>>
history == <<costs, reopened, handed, erased, started, paid, returned, raced, admin>>
vars    == <<scenario, rows, year, req, history>>

----------------------------------------------------------------------------
Idle == [pc |-> "idle"]

\* seen: the row as the form was filled in with it.
Request == {Idle}
  \cup [pc : {"activate"}, gift : Gifts]
  \cup [pc : {"redeem"}, gift : Gifts, order : Orders]
  \cup [pc : {"birthday", "apology"}, at : Profiles]
  \cup [pc : {"prize"}, voucher : Vouchers]
  \cup [pc : {"form"}, gift : Gifts, seen : Gift]

Doing(w, pc)   == req[w].pc = pc
Inserted(i)    == gift[i] # NoGift
State(i, s)    == Inserted(i) /\ gift[i].state = s
From(i, src)   == Inserted(i) /\ gift[i].src = src
Has(op)        == op \in scenario.ops
Activated(row) == row.state \in {"active", "used"}

NobodyLocks == FALSE
NoLock(x)   == FALSE

\* FOR UPDATE locks, held until the request commits.
GuestLocked == \E w \in Workers : Doing(w, "activate") \/ Doing(w, "birthday")
ProfileLocked(p) ==
  \E w \in Workers : \/ Doing(w, "activate") /\ gift[req[w].gift].at = p
                     \/ Doing(w, "birthday") /\ req[w].at = p
GiftLocked(i) ==
  \E w \in Workers : (Doing(w, "activate") \/ Doing(w, "redeem")) /\ req[w].gift = i
VoucherLocked(v) == \E w \in Workers : Doing(w, "prize") /\ req[w].voucher = v

Finish(w)    == req' = [req EXCEPT ![w] = Idle]
Start(w, r)  == req[w] = Idle /\ req' = [req EXCEPT ![w] = r]
Nothing      == UNCHANGED <<scenario, rows, year, history>>

\* A row of source src for the profile at, inserted after all the others.
Insert(src, at, state) ==
  \E i \in Gifts :
    /\ ~Inserted(i) /\ \A j \in Gifts : j < i => Inserted(j)
    /\ gift' = [gift EXCEPT ![i] = [src |-> src, at |-> at, year |-> year,
                                   state |-> state, by |-> None]]

----------------------------------------------------------------------------
\* Birthday, catalogue and story gifts are activated with the code of the day
\* (a wrong one ends the request); the others when no cooldown is running.
NeedsCode(src) == src \in {"birthday", "catalog", "story"}

CooldownAllows(i) == NeedsCode(gift[i].src) \/ gift[i].at \notin cooling

OnlyReads(i)       == TRUE
ActivationLocks(i) == ~GuestLocked /\ ~GiftLocked(i)

(* activate_item, activate_story_gift: everything is checked ...           *)
ActivateCheck(w, i) ==
  /\ Has("activate")
  /\ State(i, "pending") /\ i \notin late
  /\ ActivationLocks(i)
  /\ CooldownAllows(i)
  /\ Start(w, [pc |-> "activate", gift |-> i])
  /\ Nothing

(* ... then written.  activate() looks at the clock again and may refuse a *)
(* gift that has just burnt; nobody looks at its answer.  The cost is best *)
(* effort.                                                                 *)
ActivateCommit(w) ==
  /\ Doing(w, "activate")
  /\ LET i      == req[w].gift
         p      == gift[i].at
         opens  == i \notin late
         cools  == ~NeedsCode(gift[i].src)
     IN  /\ gift' = IF opens THEN [gift EXCEPT ![i].state = "active"] ELSE gift
         /\ over' = over \ {i}
         /\ cooling' = IF cools THEN cooling \cup {p} ELSE cooling
         /\ started' = IF cools /\ opens THEN [started EXCEPT ![p] = @ + 1] ELSE started
         /\ \E n \in {0, 1} : costs' = [costs EXCEPT ![i] = @ + n]
  /\ Finish(w)
  /\ UNCHANGED <<scenario, late, voucher, expired, year,
                 reopened, handed, erased, paid, returned, raced, admin>>

\* The request fails: its transaction is rolled back.
Fail(w) == req[w] # Idle /\ Finish(w) /\ Nothing

----------------------------------------------------------------------------
\* The cash register and the admin know the gifts of InventoryItem only.
Issuable(i) == State(i, "active") /\ i \notin over /\ ~From(i, "story")

(* redeem: an order that already has the gift is answered as before.       *)
RedeemCheck(w, i, o) ==
  /\ Has("redeem")
  /\ Issuable(i)
  /\ ~GiftLocked(i)
  /\ Start(w, [pc |-> "redeem", gift |-> i, order |-> o])
  /\ Nothing

HandOut(i, who) ==
  /\ gift' = [gift EXCEPT ![i].state = "used", ![i].by = who]
  /\ handed' = [handed EXCEPT ![i] = @ + 1]
  /\ UNCHANGED <<scenario, late, over, cooling, voucher, expired, year,
                 costs, reopened, erased, started, paid, returned, raced, admin>>

RedeemCommit(w) ==
  /\ Doing(w, "redeem")
  /\ HandOut(req[w].gift, req[w].order)
  /\ Finish(w)

(* action_mark_used: the update waits for the row and checks it again.     *)
MarkUsed(i) ==
  /\ Has("admin")
  /\ Issuable(i) /\ ~GiftLocked(i)
  /\ HandOut(i, Staff)
  /\ UNCHANGED req

AnyInserted(i) == Inserted(i)
NotUsed(i)     == Inserted(i) /\ gift[i].state # "used"

(* action_reset_activation.                                                *)
ResetActivation(i) ==
  /\ Has("admin") /\ admin < MaxAdmin
  /\ NotUsed(i) /\ Activated(gift[i]) /\ ~From(i, "story")
  /\ ~GiftLocked(i)
  /\ gift' = [gift EXCEPT ![i].state = "pending"]
  /\ reopened' = [reopened EXCEPT ![i] = @ + 1]
  /\ admin' = admin + 1
  /\ UNCHANGED <<scenario, late, over, cooling, voucher, expired, year, req,
                 costs, handed, erased, started, paid, returned, raced>>

(* A change form: the row is read without a lock ...                       *)
OpenForm(w, i) ==
  /\ Has("admin") /\ admin < MaxAdmin
  /\ Inserted(i)
  /\ Start(w, [pc |-> "form", gift |-> i, seen |-> gift[i]])
  /\ admin' = admin + 1
  /\ UNCHANGED <<scenario, rows, year,
                 costs, reopened, handed, erased, started, paid, returned, raced>>

Count(n, now) == IF now THEN n + 1 ELSE n

(* ... and saved with all its columns, the read-only ones included.        *)
SaveForm(w) ==
  /\ Doing(w, "form")
  /\ LET i    == req[w].gift
         seen == req[w].seen
     IN  /\ ~GiftLocked(i)
         /\ gift' = [gift EXCEPT ![i] = seen]
         /\ \/ UNCHANGED over
            \/ ~State(i, "active") /\ over' \in {over \cup {i}, over \ {i}}
         /\ reopened' = [reopened EXCEPT ![i] =
                           Count(@, Activated(gift[i]) /\ ~Activated(seen))]
         /\ erased' = [erased EXCEPT ![i] =
                         Count(@, State(i, "used") /\ seen.state # "used")]
  /\ Finish(w)
  /\ UNCHANGED <<scenario, late, cooling, voucher, expired, year,
                 costs, handed, started, paid, returned, raced, admin>>

(* activate_inventory_cooldown, by hand.                                   *)
RestartCooldown(p) ==
  /\ Has("admin")
  /\ cooling' = cooling \cup {p}
  /\ UNCHANGED <<scenario, gift, late, over, voucher, expired, year, req, history>>

----------------------------------------------------------------------------
ThisYearsGifts == {i \in Gifts : From(i, "birthday") /\ gift[i].year = year}
Apologies      == {i \in Gifts : From(i, "apology")}

(* claim_birthday_prize, within the window of the birthday: the gifts of   *)
(* all profiles are looked at, with the guest locked.                      *)
ClaimCheck(w, p) ==
  /\ Has("birthday")
  /\ ~GuestLocked
  /\ ThisYearsGifts = {}
  /\ Start(w, [pc |-> "birthday", at |-> p])
  /\ Nothing

(* grant: no lock at all.                                                  *)
GrantCheck(w, p) ==
  /\ Has("apology")
  /\ Apologies = {}
  /\ Start(w, [pc |-> "apology", at |-> p])
  /\ raced' = (raced \/ \E v \in Workers : Doing(v, "apology"))
  /\ UNCHANGED <<scenario, rows, year,
                 costs, reopened, handed, erased, started, paid, returned, admin>>

ClaimCommit(w) ==
  /\ \/ Doing(w, "birthday")
     \/ Doing(w, "apology") /\ ~ProfileLocked(req[w].at)
  /\ Insert(req[w].pc, req[w].at, "pending")
  /\ Finish(w)
  /\ UNCHANGED <<scenario, late, over, cooling, voucher, expired, year, history>>

(* claim_super_prize: a voucher is locked (the oldest that is pending: any *)
(* of them here) ...                                                       *)
PrizeCheck(w, v) ==
  /\ Has("prize")
  /\ voucher[v] = "pending" /\ v \notin expired
  /\ ~VoucherLocked(v)
  /\ Start(w, [pc |-> "prize", voucher |-> v])
  /\ Nothing

(* ... and the prize is given even if claim() finds it has just expired.   *)
PrizeCommit(w) ==
  /\ Doing(w, "prize")
  /\ LET v == req[w].voucher
     IN  /\ ~ProfileLocked(VoucherOf[v])
         /\ voucher' = IF v \in expired THEN voucher ELSE [voucher EXCEPT ![v] = "claimed"]
         /\ paid' = [paid EXCEPT ![v] = @ + 1]
         /\ Insert("other", VoucherOf[v], "pending")
  /\ Finish(w)
  /\ UNCHANGED <<scenario, late, over, cooling, expired, year,
                 costs, reopened, handed, erased, started, returned, raced, admin>>

(* action_mark_issued and action_reset_claim.                              *)
MarkIssued(v) ==
  /\ Has("admin") /\ ~VoucherLocked(v)
  /\ voucher[v] = "claimed"
  /\ voucher' = [voucher EXCEPT ![v] = "issued"]
  /\ UNCHANGED <<scenario, gift, late, over, cooling, expired, year, req, history>>

ResetClaim(v) ==
  /\ Has("admin") /\ admin < MaxAdmin /\ ~VoucherLocked(v)
  /\ voucher[v] = "claimed"
  /\ voucher' = [voucher EXCEPT ![v] = "pending"]
  /\ returned' = [returned EXCEPT ![v] = @ + 1]
  /\ admin' = admin + 1
  /\ UNCHANGED <<scenario, gift, late, over, cooling, expired, year, req,
                 costs, reopened, handed, erased, started, paid, raced>>

(* play_story_game and select_story_gift: one game per profile; the guest  *)
(* is locked meanwhile.                                                    *)
PlayStory(p) ==
  /\ Has("story")
  /\ ~GuestLocked
  /\ ~\E i \in Gifts : From(i, "story") /\ gift[i].at = p
  /\ Insert("story", p, "played")
  /\ UNCHANGED <<scenario, late, over, cooling, voucher, expired, year, req, history>>

SelectStory(i) ==
  /\ Has("story")
  /\ State(i, "played") /\ ~GuestLocked
  /\ gift' = [gift EXCEPT ![i].state = "pending"]
  /\ UNCHANGED <<scenario, late, over, cooling, voucher, expired, year, req, history>>

----------------------------------------------------------------------------
(* The clock: deadlines, cooldowns and the year pass at any moment.        *)
HasDeadline(i) == Inserted(i) /\ gift[i].src \in {"catalog", "story", "apology"}
                              /\ gift[i].state # "played"

ClaimExpires(i) ==
  /\ HasDeadline(i) /\ late' = late \cup {i}
  /\ UNCHANGED <<scenario, gift, over, cooling, voucher, expired, year, req, history>>

ActiveExpires(i) ==
  /\ State(i, "active") /\ over' = over \cup {i}
  /\ UNCHANGED <<scenario, gift, late, cooling, voucher, expired, year, req, history>>

CooldownLapses(p) ==
  /\ p \in cooling
  /\ cooling' = cooling \ {p}
  /\ started' = [started EXCEPT ![p] = 0]
  /\ UNCHANGED <<scenario, gift, late, over, voucher, expired, year, req,
                 costs, reopened, handed, erased, paid, returned, raced, admin>>

VoucherExpires(v) ==
  /\ Has("prize")
  /\ expired' = expired \cup {v}
  /\ UNCHANGED <<scenario, gift, late, over, cooling, voucher, year, req, history>>

YearEnds ==
  /\ Has("birthday") /\ year < MaxYear
  /\ year' = year + 1
  /\ UNCHANGED <<scenario, rows, req, history>>

----------------------------------------------------------------------------
Init ==
  /\ scenario \in Scenarios
  /\ gift = scenario.gifts
  /\ late = {} /\ over = {} /\ cooling = {} /\ expired = {} /\ raced = FALSE
  /\ voucher = [v \in Vouchers |-> "pending"]
  /\ year = 1
  /\ req = [w \in Workers |-> Idle]
  /\ costs = [i \in Gifts |-> 0] /\ reopened = costs /\ handed = costs /\ erased = costs
  /\ started = [p \in Profiles |-> 0]
  /\ paid = [v \in Vouchers |-> 0] /\ returned = paid
  /\ admin = 0

Guest(w) ==
  \/ \E i \in Gifts : ActivateCheck(w, i)
  \/ \E p \in Profiles : ClaimCheck(w, p) \/ GrantCheck(w, p)
  \/ \E v \in Vouchers : PrizeCheck(w, v)
  \/ ActivateCommit(w) \/ ClaimCommit(w) \/ PrizeCommit(w)

Story == \/ \E p \in Profiles : PlayStory(p)
         \/ \E i \in Gifts : SelectStory(i)

Counter(w) ==
  \/ \E i \in Gifts, o \in Orders : RedeemCheck(w, i, o)
  \/ RedeemCommit(w)

Admin ==
  \/ \E i \in Gifts : MarkUsed(i) \/ ResetActivation(i)
  \/ \E w \in Workers : SaveForm(w) \/ \E i \in Gifts : OpenForm(w, i)
  \/ \E p \in Profiles : RestartCooldown(p)
  \/ \E v \in Vouchers : MarkIssued(v) \/ ResetClaim(v)

Clock ==
  \/ \E i \in Gifts : ClaimExpires(i) \/ ActiveExpires(i)
  \/ \E p \in Profiles : CooldownLapses(p)
  \/ \E v \in Vouchers : VoucherExpires(v)
  \/ YearEnds

Next ==
  \/ \E w \in Workers : Guest(w) \/ Counter(w) \/ Fail(w)
  \/ Story \/ Admin \/ Clock

Spec == Init /\ [][Next]_vars

----------------------------------------------------------------------------
(* Types of the rows, of the requests and of the history; who took a gift  *)
(* is known exactly when it is used.                                       *)
TypeOK ==
  /\ scenario \in Scenarios
  /\ gift \in [Gifts -> Gift \cup {NoGift}]
  /\ \A i \in Gifts : Inserted(i) => (gift[i].by = None <=> gift[i].state # "used")
  /\ late \subseteq Gifts /\ over \subseteq Gifts
  /\ cooling \subseteq Profiles /\ expired \subseteq Vouchers
  /\ voucher \in [Vouchers -> {"pending", "claimed", "issued"}]
  /\ year \in Nat
  /\ req \in [Workers -> Request]
  /\ costs \in [Gifts -> Nat] /\ reopened \in [Gifts -> Nat]
  /\ handed \in [Gifts -> Nat] /\ erased \in [Gifts -> Nat]
  /\ started \in [Profiles -> Nat]
  /\ paid \in [Vouchers -> Nat] /\ returned \in [Vouchers -> Nat]
  /\ raced \in BOOLEAN
  /\ admin \in Nat

(* The cost of a gift is recorded once (GiftCostEvent: "written once, at   *)
(* the activation"), and again only after the admin took the activation    *)
(* back, by an action or by saving an old form.                            *)
ChargedOnce == \A i \in Gifts : costs[i] <= 1 + reopened[i]

(* A gift goes into one order, or is handed out by staff, once (pos_plugin:*)
(* "issued in another order: 409 already_used"), unless a form saved late  *)
(* erased that it was.                                                     *)
HandedOutOnce == \A i \in Gifts : handed[i] <= 1 + erased[i]

(* While the cooldown of a profile runs, no second gift that waits for it  *)
(* is activated, however requests overlap.                                 *)
OncePerCooldown == \A p \in Profiles : started[p] <= 1

BirthdayGifts(y) == {i \in Gifts : From(i, "birthday") /\ gift[i].year = y}

(* One birthday gift of the guest a year, at whichever branches and however*)
(* often at once it is claimed.                                            *)
OneBirthdayGift == \A y \in 1..MaxYear : \A i, j \in BirthdayGifts(y) : i = j

(* A voucher pays one prize, and one more each time the admin reopens it;  *)
(* a month has one apology unless two were being granted at once.          *)
OnePrizePerVoucher ==
  /\ \A v \in Vouchers : paid[v] <= 1 + returned[v]
  /\ ~raced => \A i, j \in Apologies : i = j

(* A birthday, a prize and an apology each give one gift.                  *)
OneGiftPerCause == OneBirthdayGift /\ OnePrizePerVoucher
=============================================================================
