--------------------------- MODULE RewardCampaign ---------------------------
(***************************************************************************)
(* One RFM campaign: process_campaign, finalize_campaign, cancel_campaign  *)
(* and send_member_message of analytics/rfm_campaigns.py, the limit of the *)
(* catalogue position they issue from (register_issue, release_issue,      *)
(* revoke_issued_item of inventory/reward_catalog.py) and the guests who   *)
(* activate, use or spend what they got meanwhile.                         *)
(*                                                                         *)
(* A recipient is rewarded in a transaction of its own that holds the lock *)
(* of its row, so it is one step.  Cancelling works on rows and gifts read *)
(* earlier, without a lock, so reading and writing are two steps.          *)
(***************************************************************************)
EXTENDS Integers, FiniteSets

CONSTANTS
  Members,      \* recipients in the snapshot: RFMCampaignMember rows
  Control,      \* those in the control group
  Runs,         \* celery runs of run_rfm_campaign_task
  None,         \* no member in hand
  Cancels,      \* requests that cancel the campaign
  RewardTypes,  \* the types a campaign may have: "gift", "points"
  Points,       \* points_amount
  Prior,        \* [Members -> Nat]: points of the guests before the campaign
  Limit,        \* activation_limit of the catalogue position
  CheckEvery,   \* CANCEL_CHECK_EVERY
  MaxRequeues,  \* MAX_REQUEUES: continuations of a run after a time limit
  MaxOthers     \* bound: gifts issued from the position by other features

ASSUME MembersAssumption == IsFiniteSet(Members) /\ Control \subseteq Members /\ None \notin Members
ASSUME ProcsAssumption   == Runs \cap Cancels = {}
ASSUME RewardAssumption  ==
  /\ RewardTypes \subseteq {"gift", "points"}
  /\ Points \in Nat \ {0} /\ Prior \in [Members -> Nat] /\ Limit \in Nat /\ CheckEvery \in Nat \ {0}
  /\ MaxRequeues \in Nat /\ MaxOthers \in Nat

VARIABLES
  reward,     \* RFMCampaign.reward_type, chosen when the campaign is created
  status,     \* RFMCampaign.status
  member,     \* [Members -> STRING]: RFMCampaignMember.status
  item,       \* [Members -> STRING]: the gift of the member
  issued,     \* RewardCatalogItem.issued_count
  others,     \* gifts other features issued from the same position
  coins,      \* [Members -> Int]: coins_balance of the home profile
  proc,       \* [Runs \cup Cancels -> Proc]: what each run or request is doing
  failed,     \* history: members whose cancellation raised an exception
  sent,       \* [Members -> Nat]: VK messages that left
  granted,    \* history: rewards given to each member
  refunded    \* history: points taken back from each member

vars == <<reward, status, member, item, issued, others, coins, proc, failed, sent, granted, refunded>>

----------------------------------------------------------------------------
MemberStatus   == {"pending", "control", "assigned", "skipped", "failed", "cancelled"}
ItemStatus     == {"none", "pending", "active", "used", "revoked"}
CampaignStatus == {"processing", "completed", "partially_failed", "cancelled"}

\* todo: members still to visit; done: visits so far; at: member in hand;
\* seen: the status read by finalize; ends: the status it will write;
\* gifts: members whose gift was pending when the canceller read it; depth: time
\* limits so far (requeue_depth, one more when the run gave up).
Proc == [pc : {"idle", "loop", "send", "finalize", "save",
               "pending", "list", "undo", "refund", "done", "lost"},
         todo : SUBSET Members, done : Nat, at : Members \cup {None},
         seen : CampaignStatus, ends : CampaignStatus, gifts : SUBSET Members,
         refund : Nat, depth : 0 .. MaxRequeues + 1]

Resting == [pc |-> "idle", todo |-> {}, done |-> 0, at |-> None, seen |-> "processing",
            ends |-> "processing", gifts |-> {}, refund |-> 0, depth |-> 0]

InStatus(s) == {m \in Members : member[m] = s}
Gift == reward = "gift"

Goto(p, pc) == proc' = [proc EXCEPT ![p].pc = pc]

\* The list is done with.
Leave(p, pc) == proc' = [proc EXCEPT ![p] = [Resting EXCEPT !.pc = pc, !.depth = proc[p].depth]]

\* Member m was visited by run p, which goes on with the next one or with a
\* message for m.
Visited(p, m, pc) ==
  proc' = [proc EXCEPT ![p].todo = @ \ {m}, ![p].done = (@ % CheckEvery) + 1, ![p].pc = pc,
                       ![p].at = IF pc = "send" THEN m ELSE None, ![p].refund = 0]

----------------------------------------------------------------------------
(* register_issue and release_issue: one conditional UPDATE each.          *)
RegisterIssue == issued < Limit /\ issued' = issued + 1
PlaceBurns    == UNCHANGED issued
ReleaseIssue  == issued' = IF issued > 0 THEN issued - 1 ELSE issued

\* The row as it is under its lock, not as it was listed.
ListedIsEnough(m) == TRUE
StillPending(m)   == member[m] = "pending"

(* process_campaign: a cancelled campaign is left alone; otherwise the     *)
(* pending members are listed.                                             *)
StartRun(p) ==
  /\ proc[p].pc = "idle"
  /\ status # "cancelled"
  /\ proc' = [proc EXCEPT ![p].pc = "loop", ![p].todo = InStatus("pending")]
  /\ UNCHANGED <<reward, status, member, item, issued, others, coins, failed, sent, granted, refunded>>

StopsAnyway(p) == proc[p].done > 0 /\ proc[p].done % CheckEvery = 0

\* Every CheckEvery-th visit looks whether the campaign was cancelled.
StopsAt(p) == proc[p].done > 0 /\ proc[p].done % CheckEvery = 0 /\ status = "cancelled"

LoopEnds(p) ==
  /\ proc[p].pc = "loop"
  /\ proc[p].todo = {} \/ StopsAt(p)
  /\ Leave(p, "finalize")
  /\ UNCHANGED <<reward, status, member, item, issued, others, coins, failed, sent, granted, refunded>>

Visiting(p, m) == proc[p].pc = "loop" /\ m \in proc[p].todo /\ ~StopsAt(p)

\* The row, read again under its lock, is not pending any more.
PassOver(p, m) ==
  /\ Visiting(p, m)
  /\ ~StillPending(m)
  /\ Visited(p, m, "loop")
  /\ UNCHANGED <<reward, status, member, item, issued, others, coins, failed, sent, granted, refunded>>

\* no_branch, duplicate_active_gift; catalog_item_missing or any exception,
\* whose transaction is rolled back before the row is marked.
Reject(p, m) ==
  /\ Visiting(p, m)
  /\ StillPending(m)
  /\ \E s \in {"skipped", "failed"} : member' = [member EXCEPT ![m] = s]
  /\ Visited(p, m, "loop")
  /\ UNCHANGED <<reward, status, item, issued, others, coins, failed, sent, granted, refunded>>

AssignGift(p, m) ==
  /\ Visiting(p, m)
  /\ Gift /\ StillPending(m)
  /\ RegisterIssue
  /\ item' = [item EXCEPT ![m] = "pending"]
  /\ member' = [member EXCEPT ![m] = "assigned"]
  /\ granted' = [granted EXCEPT ![m] = @ + 1]
  /\ Visited(p, m, "send")
  /\ UNCHANGED <<reward, status, others, coins, failed, sent, refunded>>

LimitExhausted(p, m) ==
  /\ Visiting(p, m)
  /\ Gift /\ StillPending(m)
  /\ issued >= Limit
  /\ member' = [member EXCEPT ![m] = "failed"]
  /\ Visited(p, m, "loop")
  /\ UNCHANGED <<reward, status, item, issued, others, coins, failed, sent, granted, refunded>>

AssignPoints(p, m) ==
  /\ Visiting(p, m)
  /\ ~Gift /\ StillPending(m)
  /\ coins' = [coins EXCEPT ![m] = @ + Points]
  /\ member' = [member EXCEPT ![m] = "assigned"]
  /\ granted' = [granted EXCEPT ![m] = @ + 1]
  /\ Visited(p, m, "send")
  /\ UNCHANGED <<reward, status, item, issued, others, failed, sent, refunded>>

(* send_member_message after the commit: VK first, message_status then     *)
(* (nobody reads it again in this campaign, so it is not kept).            *)
SendMessage(p) ==
  /\ proc[p].pc = "send"
  /\ sent' = [sent EXCEPT ![proc[p].at] = @ + 1]
  /\ proc' = [proc EXCEPT ![p].pc = "loop", ![p].at = None]
  /\ UNCHANGED <<reward, status, member, item, issued, others, coins, failed, granted, refunded>>

\* SoftTimeLimitExceeded puts a continuation into the queue; after MAX_REQUEUES
\* of them the run only finalizes the campaign.
TimeLimit(p) ==
  /\ proc[p].pc \in {"loop", "send", "finalize", "save"}
  /\ proc[p].depth <= MaxRequeues
  /\ proc' = [proc EXCEPT ![p] = [Resting EXCEPT !.depth = proc[p].depth + 1,
                 !.pc = IF proc[p].depth < MaxRequeues THEN "idle" ELSE "finalize"]]
  /\ UNCHANGED <<reward, status, member, item, issued, others, coins, failed, sent, granted, refunded>>

GaveUp(p) == proc[p].depth > MaxRequeues

\* The process of a run or of a request dies; nothing starts it again.
Killed(p) ==
  /\ proc[p].pc \notin {"idle", "done", "lost"}
  /\ Leave(p, "lost")
  /\ UNCHANGED <<reward, status, member, item, issued, others, coins, failed, sent, granted, refunded>>

----------------------------------------------------------------------------
(* finalize_campaign reads the campaign, counts its members ...            *)
FinalizeRead(p) ==
  /\ proc[p].pc = "finalize"
  /\ LET closes == status = "processing" /\ InStatus("pending") = {}
         ends   == IF InStatus("failed") # {} THEN "partially_failed" ELSE "completed"
     IN  proc' = [proc EXCEPT ![p].seen = status, ![p].pc = "save",
                              ![p].ends = IF closes THEN ends ELSE status]
  /\ UNCHANGED <<reward, status, member, item, issued, others, coins, failed, sent, granted, refunded>>

(* ... and saves it; the status only if it closes the campaign.            *)
FinalizeSave(p) ==
  /\ proc[p].pc = "save"
  /\ status' = IF proc[p].ends # proc[p].seen THEN proc[p].ends ELSE status
  /\ Leave(p, "done")
  /\ UNCHANGED <<reward, member, item, issued, others, coins, failed, sent, granted, refunded>>

----------------------------------------------------------------------------
(* cancel_campaign: the campaign, then its pending members, then the list  *)
(* of the assigned ones with their gifts.                                  *)
Cancel(p) ==
  /\ proc[p].pc = "idle"
  /\ status' = "cancelled"
  /\ Goto(p, "pending")
  /\ UNCHANGED <<reward, member, item, issued, others, coins, failed, sent, granted, refunded>>

CancelPending(p) ==
  /\ proc[p].pc = "pending"
  /\ member' = [m \in Members |-> IF member[m] = "pending" THEN "cancelled" ELSE member[m]]
  /\ Goto(p, "list")
  /\ UNCHANGED <<reward, status, item, issued, others, coins, failed, sent, granted, refunded>>

CancelList(p) ==
  /\ proc[p].pc = "list"
  /\ proc' = [proc EXCEPT ![p].todo = InStatus("assigned"), ![p].pc = "undo",
                          ![p].gifts = {m \in InStatus("assigned") : item[m] = "pending"}]
  /\ UNCHANGED <<reward, status, member, item, issued, others, coins, failed, sent, granted, refunded>>

(* _cancel_member, gift: revoke_issued_item looks at the gift as it was    *)
(* listed, deletes the row (no error if it is gone) and frees the place.   *)
RevokeGift(p, m) ==
  /\ proc[p].pc = "undo" /\ m \in proc[p].todo
  /\ Gift
  /\ IF m \in proc[p].gifts
     THEN /\ item' = [item EXCEPT ![m] = "revoked"]
          /\ ReleaseIssue
          /\ member' = [member EXCEPT ![m] = "cancelled"]
     ELSE UNCHANGED <<reward, item, issued, member>>
  /\ Visited(p, m, "undo")
  /\ UNCHANGED <<reward, status, others, coins, failed, sent, granted, refunded>>

Refundable(m) == IF coins[m] < Points THEN coins[m] ELSE Points

(* _cancel_member, points: the balance is read, then the refund written by *)
(* create_transfer, which raises if the balance has dropped below it.      *)
ReadBalance(p, m) ==
  /\ proc[p].pc = "undo" /\ m \in proc[p].todo
  /\ ~Gift
  /\ proc' = [proc EXCEPT ![p].at = m, ![p].pc = "refund",
                          ![p].refund = Refundable(m)]
  /\ UNCHANGED <<reward, status, member, item, issued, others, coins, failed, sent, granted, refunded>>

\* Any exception of _cancel_member: its transaction is rolled back, the member
\* stays as it is, and the cancel goes on with the next one.
CancelFails(p, m) ==
  /\ proc[p].pc \in {"undo", "refund"} /\ m \in proc[p].todo
  /\ proc[p].pc = "refund" => m = proc[p].at
  /\ failed' = failed \cup {m}
  /\ Visited(p, m, "undo")
  /\ UNCHANGED <<reward, status, member, item, issued, others, coins, sent, granted, refunded>>

RefundUnchecked(p) ==
  /\ proc[p].pc = "refund"
  /\ LET m == proc[p].at
         r == proc[p].refund
     IN  /\ coins' = [coins EXCEPT ![m] = @ - r]
         /\ refunded' = [refunded EXCEPT ![m] = @ + r]
         /\ member' = [member EXCEPT ![m] = "cancelled"]
         /\ Visited(p, m, "undo")
  /\ UNCHANGED <<reward, status, item, issued, others, failed, sent, granted>>

RefundPoints(p) ==
  /\ proc[p].pc = "refund"
  /\ LET m == proc[p].at
         r == proc[p].refund
     IN  /\ coins[m] >= r
         /\ coins' = [coins EXCEPT ![m] = @ - r]
         /\ refunded' = [refunded EXCEPT ![m] = @ + r]
         /\ member' = [member EXCEPT ![m] = "cancelled"]
         /\ Visited(p, m, "undo")
  /\ UNCHANGED <<reward, status, item, issued, others, failed, sent, granted>>

CancelEnds(p) ==
  /\ proc[p].pc = "undo"
  /\ proc[p].todo = {}
  /\ Leave(p, "finalize")
  /\ UNCHANGED <<reward, status, member, item, issued, others, coins, failed, sent, granted, refunded>>

----------------------------------------------------------------------------
(* The guests: activate_item, the cash register, a purchase.  Other        *)
(* features issue from the same position through issue_to_guest.           *)
Activate(m) ==
  /\ item[m] = "pending"
  /\ item' = [item EXCEPT ![m] = "active"]
  /\ UNCHANGED <<reward, status, member, issued, others, coins, proc, failed, sent, granted, refunded>>

UseGift(m) ==
  /\ item[m] = "active"
  /\ item' = [item EXCEPT ![m] = "used"]
  /\ UNCHANGED <<reward, status, member, issued, others, coins, proc, failed, sent, granted, refunded>>

Spend(m) ==
  /\ coins[m] > 0
  /\ coins' = [coins EXCEPT ![m] = @ - 1]
  /\ UNCHANGED <<reward, status, member, item, issued, others, proc, failed, sent, granted, refunded>>

IssueOther ==
  /\ Gift
  /\ others < MaxOthers
  /\ RegisterIssue
  /\ others' = others + 1
  /\ UNCHANGED <<reward, status, member, item, coins, proc, failed, sent, granted, refunded>>

----------------------------------------------------------------------------
Init ==
  /\ reward \in RewardTypes
  /\ status = "processing"
  /\ member = [m \in Members |-> IF m \in Control THEN "control" ELSE "pending"]
  /\ item = [m \in Members |-> "none"]
  /\ issued = 0
  /\ others = 0
  /\ coins = [m \in Members |-> IF Gift THEN 0 ELSE Prior[m]]  \* a gift campaign moves no points
  /\ proc = [p \in Runs \cup Cancels |-> Resting]
  /\ failed = {}
  /\ sent = [m \in Members |-> 0]
  /\ granted = [m \in Members |-> 0]
  /\ refunded = [m \in Members |-> 0]

RunStep(p) ==
  \/ StartRun(p) \/ LoopEnds(p) \/ SendMessage(p)
  \/ \E m \in Members : PassOver(p, m) \/ Reject(p, m) \/ AssignGift(p, m)
                          \/ LimitExhausted(p, m) \/ AssignPoints(p, m)
  \/ FinalizeRead(p) \/ FinalizeSave(p)

CancelStep(p) ==
  \/ Cancel(p) \/ CancelPending(p) \/ CancelList(p) \/ RefundPoints(p) \/ CancelEnds(p)
  \/ \E m \in Members : RevokeGift(p, m) \/ ReadBalance(p, m) \/ CancelFails(p, m)
  \/ FinalizeRead(p) \/ FinalizeSave(p)

GuestStep(m) == Activate(m) \/ UseGift(m) \/ Spend(m)

Next ==
  \/ \E p \in Runs : RunStep(p) \/ TimeLimit(p)
  \/ \E p \in Cancels : CancelStep(p)
  \/ \E p \in Runs \cup Cancels : Killed(p)
  \/ \E m \in Members : GuestStep(m)
  \/ IssueOther

Spec == Init /\ [][Next]_vars

\* Celery starts what is queued, a run that is not killed goes on, and so does a
\* request that began to cancel.  Nothing restarts a run that was lost or gave up.
Fairness ==
  /\ \A p \in Runs : WF_vars(RunStep(p))
  /\ \A p \in Cancels : WF_vars(proc[p].pc # "idle" /\ CancelStep(p))

FairSpec == Spec /\ Fairness

----------------------------------------------------------------------------
(* Types of the campaign, its members, their rewards and the processes.    *)
TypeOK ==
  /\ reward \in RewardTypes
  /\ status \in CampaignStatus
  /\ member \in [Members -> MemberStatus]
  /\ item \in [Members -> ItemStatus]
  /\ issued \in Nat
  /\ others \in Nat
  /\ coins \in [Members -> Nat]
  /\ proc \in [Runs \cup Cancels -> Proc]
  /\ failed \subseteq Members
  /\ sent \in [Members -> Nat]
  /\ granted \in [Members -> Nat]
  /\ refunded \in [Members -> Nat]

(* A member is rewarded at most once, and a member of the control group    *)
(* never, however many runs overlap or are repeated (RFMCampaignMember: "a *)
(* retry cannot give the reward a second time").                           *)
RewardedOnce ==
  \A m \in Members : granted[m] <= (IF m \in Control THEN 0 ELSE 1)

(* Nobody is written to twice, nor without a reward.                       *)
MessagesFollowRewards == \A m \in Members : sent[m] <= granted[m]

(* Points taken back by cancelling never exceed the points given.          *)
RefundWithinReward ==
  \A m \in Members : refunded[m] <= Points * granted[m]

(* For every member the rewards, the messages and what a cancel took back  *)
(* add up, whatever overlapped.                                            *)
RewardsAddUp == RewardedOnce /\ MessagesFollowRewards /\ RefundWithinReward

Holding == {m \in Members : item[m] \in {"pending", "active", "used"}}

(* The counter of the position counts the gifts that exist, so that its    *)
(* limit bounds them: an interrupted or cancelled assignment neither burns *)
(* a place nor frees one twice.                                            *)
IssuedCountsGifts ==
  /\ issued = Cardinality(Holding) + others
  /\ issued <= Limit

Cancelled == \E p \in Cancels : proc[p].pc = "done"

(* When cancelling is over, whatever a run of the campaign was doing:      *)
(* nobody waits for a reward; a gift its guest has not activated is left   *)
(* only with a member who is still assigned, so that the next cancel finds *)
(* it; and a member is still assigned only because the guest has activated *)
(* the gift, or because cancelling this member failed.                     *)
CancelIsComplete ==
  Cancelled => \A m \in Members :
    /\ member[m] # "pending"
    /\ item[m] = "pending" => member[m] = "assigned"
    /\ member[m] = "assigned" => m \in failed \/ item[m] \in {"active", "used"}

(* A gift its guest has activated is not taken away (cancel_campaign: "the *)
(* gift has been activated: it stays with the guest").                     *)
ActivatedGiftStays ==
  [][\A m \in Members : item[m] \in {"active", "used"} => item'[m] # "revoked"]_vars

\* Nobody is left to work through the members: every run was killed or gave up
\* at the limit of its continuations, or the request that cancels was killed.
Abandoned ==
  \/ \A p \in Runs : proc[p].pc = "lost" \/ GaveUp(p)
  \/ \E p \in Cancels : proc[p].pc = "lost"

(* Every recipient is decided on, through time limits, continuations and   *)
(* overlapping runs, as long as one run is neither killed nor gives up, and*)
(* a cancel that stops the runs is not killed either.  Nobody becomes      *)
(* pending again, so it is one event for all.                              *)
EveryMemberDecided == <>(InStatus("pending") = {} \/ Abandoned)
=============================================================================
