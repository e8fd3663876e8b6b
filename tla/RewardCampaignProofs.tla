------------------------ MODULE RewardCampaignProofs ------------------------
(***************************************************************************)
(* Proofs about RewardCampaign, for every set of members, runs and cancel  *)
(* requests and every limit.                                               *)
(***************************************************************************)
EXTENDS RewardCampaign, TLAPS, FiniteSetTheorems

\* Runs never cancel and cancel requests never reward; whoever is about to
\* write to a member or to refund one has it in hand.
PcInv ==
  /\ \A p \in Runs : proc[p].pc \in {"idle", "loop", "send", "finalize", "save", "done", "lost"}
  /\ \A p \in Cancels :
       proc[p].pc \in {"idle", "pending", "list", "undo", "refund", "finalize", "save", "done", "lost"}
  /\ \A p \in Runs \cup Cancels : proc[p].pc \in {"send", "refund"} => proc[p].at \in Members

\* A member is pending until it is rewarded, and the control group never is.
RewardInv ==
  /\ RewardedOnce
  /\ \A m \in Members : member[m] = "pending" => granted[m] = 0 /\ m \notin Control
  /\ \A m \in Members : member[m] = "assigned" => granted[m] = 1

\* A run about to write holds a member whose reward is not announced, alone.
Sending(p) == p \in Runs /\ proc[p].pc = "send"

MessageInv ==
  /\ MessagesFollowRewards
  /\ \A p \in Runs : Sending(p) => sent[proc[p].at] < granted[proc[p].at]
  /\ \A p, q \in Runs : Sending(p) /\ Sending(q) /\ proc[p].at = proc[q].at => p = q

\* Member m stays assigned after a cancel, with good reason.
Kept(m) == m \in failed \/ item[m] \in {"active", "used"}

\* A gift not yet activated belongs to an assigned member, and one assigned in a
\* gift campaign has a gift; a canceller past a stage leaves nothing of it behind.
CancelInv ==
  /\ \A m \in Members :
       /\ item[m] # "none" => Gift
       /\ item[m] = "pending" => member[m] = "assigned"
       /\ Gift /\ member[m] = "assigned" => item[m] \in {"pending", "active", "used"}
  /\ \A p \in Cancels :
       /\ proc[p].pc \in {"list", "undo", "refund", "finalize", "save", "done"} => InStatus("pending") = {}
       /\ proc[p].pc = "refund" => ~Gift
       /\ proc[p].pc \in {"undo", "refund"} => \A m \in Members :
            /\ member[m] = "assigned" => m \in proc[p].todo \/ Kept(m)
            /\ m \in proc[p].todo /\ item[m] = "pending" => m \in proc[p].gifts
       /\ proc[p].pc \in {"finalize", "save", "done"} =>
            \A m \in Members : member[m] = "assigned" => Kept(m)

\* Two requests do not work through their lists of members at the same time.
Undoing(p) == p \in Cancels /\ proc[p].pc \in {"undo", "refund"}

CancelsTakeTurns == \A p, q \in Cancels : Undoing(p) /\ Undoing(q) => p = q

\* What a canceller has still to visit was given and not taken back.
RefundInv ==
  /\ RefundWithinReward
  /\ \A m \in Members : member[m] = "assigned" => refunded[m] = 0
  /\ \A p \in Cancels : Undoing(p) =>
       /\ \A m \in proc[p].todo : granted[m] = 1 /\ refunded[m] = 0
       /\ proc[p].pc = "refund" => proc[p].at \in proc[p].todo /\ proc[p].refund <= Points

\* Gifts listed as pending still exist when their turn comes.
IssueInv ==
  /\ IssuedCountsGifts
  /\ \A m \in Members : member[m] = "pending" => item[m] = "none"
  /\ \A p \in Cancels : Undoing(p) => proc[p].todo \cap proc[p].gifts \subseteq Holding

----------------------------------------------------------------------------
\* The process that moves and what it looks like afterwards.
Moves(p, pc) ==
  /\ proc' \in [Runs \cup Cancels -> Proc]
  /\ proc'[p].pc = pc
  /\ \A q \in Runs \cup Cancels : q # p => proc'[q] = proc[q]

LEMMA GotoMoves ==
  ASSUME TypeOK, NEW p \in Runs \cup Cancels, NEW pc \in {"pending", "list"}, Goto(p, pc)
  PROVE  Moves(p, pc)
  BY DEF TypeOK, Goto, Moves, Proc

LEMMA LeaveMoves ==
  ASSUME TypeOK, NEW p \in Runs \cup Cancels, NEW pc \in {"finalize", "done", "lost"}, Leave(p, pc)
  PROVE  Moves(p, pc)
<1> DEFINE s == [Resting EXCEPT !.pc = pc, !.depth = proc[p].depth]
<1>1. s \in Proc /\ s.pc = pc
  BY DEF TypeOK, Resting, Proc, CampaignStatus
<1>2. proc' = [proc EXCEPT ![p] = s]
  BY DEF Leave
<1> HIDE DEF s
<1> QED
  BY <1>1, <1>2 DEF TypeOK, Moves

LEMMA StartMoves ==
  ASSUME TypeOK, NEW p \in Runs, StartRun(p)
  PROVE  Moves(p, "loop")
<1> DEFINE todo == InStatus("pending")
           s == [proc[p] EXCEPT !.pc = "loop", !.todo = todo]
<1>1. proc[p] \in Proc /\ todo \in SUBSET Members
  BY DEF TypeOK, InStatus
<1>2. proc' = [proc EXCEPT ![p].pc = "loop", ![p].todo = todo]
  BY DEF StartRun
<1> HIDE DEF todo
<1>3. s \in Proc /\ s.pc = "loop"
  BY <1>1 DEF Proc
<1>4. proc' = [proc EXCEPT ![p] = s]
  BY <1>1, <1>2 DEF TypeOK, Proc
<1> HIDE DEF s
<1> QED
  BY <1>3, <1>4 DEF TypeOK, Moves

\* After a time limit a run waits for its continuation, or gives up.
LEMMA LimitMoves ==
  ASSUME TypeOK, NEW p \in Runs, TimeLimit(p)
  PROVE  Moves(p, "idle") \/ Moves(p, "finalize")
<1> DEFINE d == proc[p].depth + 1
           pc == IF proc[p].depth < MaxRequeues THEN "idle" ELSE "finalize"
           s == [Resting EXCEPT !.depth = d, !.pc = pc]
<1>1. d \in 0 .. MaxRequeues + 1
  BY RewardAssumption DEF TypeOK, TimeLimit, Proc
<1>2. proc' = [proc EXCEPT ![p] = s]
  BY DEF TimeLimit
<1>3. pc \in {"idle", "finalize"}
  OBVIOUS
<1> HIDE DEF d, pc
<1>4. s \in Proc /\ s.pc = pc
  BY <1>1, <1>3 DEF Resting, Proc, CampaignStatus
<1> HIDE DEF s
<1> QED
  BY <1>2, <1>3, <1>4 DEF TypeOK, Moves

LEMMA VisitedMoves ==
  ASSUME TypeOK, NEW p \in Runs \cup Cancels, NEW m \in Members,
         NEW pc \in {"loop", "send", "undo"}, Visited(p, m, pc)
  PROVE  /\ Moves(p, pc)
         /\ proc'[p].todo = proc[p].todo \ {m}
         /\ proc'[p].gifts = proc[p].gifts
         /\ proc'[p].at = IF pc = "send" THEN m ELSE None
<1> DEFINE r == proc[p]
           d == (r.done % CheckEvery) + 1
           s == [r EXCEPT !.todo = @ \ {m}, !.done = d, !.pc = pc,
                          !.at = IF pc = "send" THEN m ELSE None, !.refund = 0]
<1>1. r \in Proc
  BY DEF TypeOK
<1>2. d \in Nat
  BY <1>1, RewardAssumption DEF Proc
<1>3. s \in Proc
  <2> HIDE DEF d
  <2> QED
    BY <1>1, <1>2 DEF Proc
<1>4. proc' = [proc EXCEPT ![p] = s]
  BY <1>1 DEF Visited, TypeOK, Proc
<1>5. /\ s.pc = pc /\ s.todo = r.todo \ {m} /\ s.gifts = r.gifts
      /\ s.at = IF pc = "send" THEN m ELSE None
  BY <1>1 DEF Proc
<1> HIDE DEF s
<1> QED
  BY <1>3, <1>4, <1>5 DEF TypeOK, Moves

\* A run that wrote to its member goes on with the list.
LEMMA SendMoves ==
  ASSUME TypeOK, NEW p \in Runs, SendMessage(p)
  PROVE  Moves(p, "loop")
<1> DEFINE s == [proc[p] EXCEPT !.pc = "loop", !.at = None]
<1>1. proc[p] \in Proc
  BY DEF TypeOK
<1>2. s \in Proc /\ s.pc = "loop"
  BY <1>1 DEF Proc
<1>3. proc' = [proc EXCEPT ![p] = s]
  BY <1>1 DEF SendMessage, TypeOK, Proc
<1> HIDE DEF s
<1> QED
  BY <1>2, <1>3 DEF TypeOK, Moves

\* TypeOK and PcInv are preserved.
LEMMA TypePreserved ==
  ASSUME TypeOK, PcInv, [Next]_vars
  PROVE  TypeOK' /\ PcInv'
<1> DEFINE Goal == TypeOK' /\ PcInv'
<1> USE DEF TypeOK
\* p moves; everything else keeps its type.
<1>a. ASSUME NEW p \in Runs \cup Cancels, NEW pc, Moves(p, pc),
             p \in Runs => pc \in {"idle", "loop", "send", "finalize", "save", "done", "lost"},
             p \in Cancels => pc \in {"idle", "pending", "list", "undo", "refund",
                                      "finalize", "save", "done", "lost"},
             pc \in {"send", "refund"} => proc'[p].at \in Members
      PROVE  PcInv' /\ proc' \in [Runs \cup Cancels -> Proc]
  BY <1>a DEF Moves, PcInv
<1>b. ASSUME UNCHANGED <<reward, status, member, item, issued, others, coins, failed, sent,
                         granted, refunded>>,
             PcInv' /\ proc' \in [Runs \cup Cancels -> Proc]
      PROVE  Goal
  BY <1>b
<1>c. ASSUME UNCHANGED proc
      PROVE  PcInv'
  BY <1>c DEF PcInv
<1>p. \A p \in Runs : p \notin Cancels
  BY ProcsAssumption
<1>1. ASSUME NEW p \in Runs, StartRun(p)
      PROVE  Goal
  <2>1. Moves(p, "loop")
    BY <1>1, StartMoves
  <2> QED
    BY <1>1, <2>1, <1>a, <1>b, <1>p DEF StartRun
<1>2. ASSUME NEW p \in Runs, LoopEnds(p)
      PROVE  Goal
  BY <1>2, LeaveMoves, <1>a, <1>b, <1>p DEF LoopEnds
<1>3. ASSUME NEW p \in Runs, SendMessage(p)
      PROVE  Goal
  <2>1. Moves(p, "loop")
    BY <1>3, SendMoves
  <2>2. proc[p].at \in Members
    BY <1>3 DEF SendMessage, PcInv
  <2>3. sent' \in [Members -> Nat]
    BY <1>3, <2>2 DEF SendMessage
  <2> QED
    BY <1>3, <2>1, <2>3, <1>a, <1>p DEF SendMessage
<1>4. ASSUME NEW p \in Runs, NEW m \in Members, PassOver(p, m)
      PROVE  Goal
  BY <1>4, VisitedMoves, <1>a, <1>b, <1>p DEF PassOver
<1>5. ASSUME NEW p \in Runs, NEW m \in Members, Reject(p, m) \/ LimitExhausted(p, m)
      PROVE  Goal
  <2>1. PcInv' /\ proc' \in [Runs \cup Cancels -> Proc]
    BY <1>5, VisitedMoves, <1>a, <1>p DEF Reject, LimitExhausted
  <2>2. member' \in [Members -> MemberStatus]
    BY <1>5 DEF Reject, LimitExhausted, MemberStatus
  <2> QED
    BY <1>5, <2>1, <2>2 DEF Reject, LimitExhausted
<1>6. ASSUME NEW p \in Runs, NEW m \in Members, AssignGift(p, m) \/ AssignPoints(p, m)
      PROVE  Goal
  <2>1. PcInv' /\ proc' \in [Runs \cup Cancels -> Proc]
    BY <1>6, VisitedMoves, <1>a, <1>p DEF AssignGift, AssignPoints
  <2>2. member' \in [Members -> MemberStatus] /\ item' \in [Members -> ItemStatus]
    BY <1>6 DEF AssignGift, AssignPoints, MemberStatus, ItemStatus
  <2>3. issued' \in Nat /\ coins' \in [Members -> Nat] /\ granted' \in [Members -> Nat]
    BY <1>6, RewardAssumption DEF AssignGift, AssignPoints, RegisterIssue
  <2> QED
    BY <1>6, <2>1, <2>2, <2>3 DEF AssignGift, AssignPoints
<1>7. ASSUME NEW p \in Runs, TimeLimit(p)
      PROVE  Goal
  <2>1. Moves(p, "idle") \/ Moves(p, "finalize")
    BY <1>7, LimitMoves
  <2> QED
    BY <1>7, <2>1, <1>a, <1>b, <1>p DEF TimeLimit
<1>8. ASSUME NEW p \in Runs \cup Cancels, FinalizeRead(p)
      PROVE  Goal
  <2> DEFINE closes == status = "processing" /\ InStatus("pending") = {}
             ends == IF InStatus("failed") # {} THEN "partially_failed" ELSE "completed"
             e == IF closes THEN ends ELSE status
  <2>1. e \in CampaignStatus
    BY DEF CampaignStatus
  <2>2. proc' = [proc EXCEPT ![p].seen = status, ![p].pc = "save", ![p].ends = e]
    BY <1>8 DEF FinalizeRead
  <2> HIDE DEF e
  <2> DEFINE s == [proc[p] EXCEPT !.seen = status, !.pc = "save", !.ends = e]
  <2>4. proc[p] \in Proc /\ status \in CampaignStatus
    OBVIOUS
  <2>5. s \in Proc /\ s.pc = "save"
    BY <2>1, <2>4 DEF Proc
  <2>6. proc' = [proc EXCEPT ![p] = s]
    BY <2>2, <2>4 DEF Proc
  <2> HIDE DEF s
  <2>3. Moves(p, "save")
    BY <2>5, <2>6 DEF Moves
  <2> QED
    BY <1>8, <2>3, <1>a, <1>b DEF FinalizeRead
<1>9. ASSUME NEW p \in Runs \cup Cancels, FinalizeSave(p)
      PROVE  Goal
  <2>1. PcInv' /\ proc' \in [Runs \cup Cancels -> Proc]
    BY <1>9, LeaveMoves, <1>a DEF FinalizeSave
  <2>2. status' \in CampaignStatus
    BY <1>9 DEF FinalizeSave, Proc
  <2> QED
    BY <1>9, <2>1, <2>2 DEF FinalizeSave
<1>10. ASSUME NEW p \in Cancels, Cancel(p)
       PROVE  Goal
  <2>1. PcInv' /\ proc' \in [Runs \cup Cancels -> Proc]
    BY <1>10, GotoMoves, <1>a, <1>p DEF Cancel
  <2> QED
    BY <1>10, <2>1 DEF Cancel, CampaignStatus
<1>11. ASSUME NEW p \in Cancels, CancelPending(p)
       PROVE  Goal
  <2>1. PcInv' /\ proc' \in [Runs \cup Cancels -> Proc]
    BY <1>11, GotoMoves, <1>a, <1>p DEF CancelPending
  <2>2. member' \in [Members -> MemberStatus]
    BY <1>11 DEF CancelPending, MemberStatus
  <2> QED
    BY <1>11, <2>1, <2>2 DEF CancelPending
<1>12. ASSUME NEW p \in Cancels, CancelList(p)
       PROVE  Goal
  <2> DEFINE todo == InStatus("assigned")
             gifts == {m \in InStatus("assigned") : item[m] = "pending"}
  <2>0. todo \in SUBSET Members /\ gifts \in SUBSET Members
    BY DEF InStatus
  <2>2. proc' = [proc EXCEPT ![p].todo = todo, ![p].pc = "undo", ![p].gifts = gifts]
    BY <1>12 DEF CancelList
  <2> DEFINE s == [proc[p] EXCEPT !.todo = todo, !.pc = "undo", !.gifts = gifts]
  <2> HIDE DEF todo, gifts
  <2>3. s \in Proc /\ s.pc = "undo"
    BY <2>0 DEF Proc
  <2>4. proc' = [proc EXCEPT ![p] = s]
    BY <2>2 DEF Proc
  <2> HIDE DEF s
  <2>1. Moves(p, "undo")
    BY <2>3, <2>4 DEF Moves
  <2> QED
    BY <1>12, <2>1, <1>a, <1>b, <1>p DEF CancelList
<1>13. ASSUME NEW p \in Cancels, NEW m \in Members, RevokeGift(p, m)
       PROVE  Goal
  <2>1. PcInv' /\ proc' \in [Runs \cup Cancels -> Proc]
    BY <1>13, VisitedMoves, <1>a, <1>p DEF RevokeGift
  <2>2. member' \in [Members -> MemberStatus] /\ item' \in [Members -> ItemStatus] /\ issued' \in Nat
    BY <1>13 DEF RevokeGift, ReleaseIssue, MemberStatus, ItemStatus
  <2> QED
    BY <1>13, <2>1, <2>2 DEF RevokeGift
<1>14. ASSUME NEW p \in Cancels, NEW m \in Members, ReadBalance(p, m)
       PROVE  Goal
  <2>1. Refundable(m) \in Nat
    BY RewardAssumption DEF Refundable
  <2>2. Moves(p, "refund") /\ proc'[p].at = m
    BY <1>14, <2>1 DEF ReadBalance, Moves, Proc
  <2> QED
    BY <1>14, <2>2, <1>a, <1>b, <1>p DEF ReadBalance
<1>15. ASSUME NEW p \in Cancels, RefundPoints(p)
       PROVE  Goal
  <2> DEFINE m == proc[p].at
             r == proc[p].refund
  <2>1. m \in Members /\ r \in Nat
    BY <1>15 DEF RefundPoints, PcInv, Proc
  <2>2. PcInv' /\ proc' \in [Runs \cup Cancels -> Proc]
    BY <1>15, <2>1, VisitedMoves, <1>a, <1>p DEF RefundPoints
  <2>3. /\ member' \in [Members -> MemberStatus]
        /\ coins' \in [Members -> Nat] /\ refunded' \in [Members -> Nat]
    BY <1>15, <2>1 DEF RefundPoints, MemberStatus
  <2> QED
    BY <1>15, <2>2, <2>3 DEF RefundPoints
<1>16. ASSUME NEW p \in Cancels, CancelEnds(p)
       PROVE  Goal
  BY <1>16, LeaveMoves, <1>a, <1>b, <1>p DEF CancelEnds
<1>20. ASSUME NEW p \in Cancels, NEW m \in Members, CancelFails(p, m)
       PROVE  Goal
  <2>1. PcInv' /\ proc' \in [Runs \cup Cancels -> Proc]
    BY <1>20, VisitedMoves, <1>a, <1>p DEF CancelFails
  <2>2. failed' \subseteq Members
    BY <1>20 DEF CancelFails
  <2> QED
    BY <1>20, <2>1, <2>2 DEF CancelFails
<1>21. ASSUME NEW p \in Runs \cup Cancels, Killed(p)
       PROVE  Goal
  BY <1>21, LeaveMoves, <1>a, <1>b DEF Killed
<1>17. ASSUME NEW m \in Members, GuestStep(m)
       PROVE  Goal
  <2>1. item' \in [Members -> ItemStatus] /\ coins' \in [Members -> Nat]
    BY <1>17 DEF GuestStep, Activate, UseGift, Spend, ItemStatus
  <2> QED
    BY <1>17, <2>1, <1>c DEF GuestStep, Activate, UseGift, Spend
<1>18. ASSUME IssueOther
       PROVE  Goal
  BY <1>18, <1>c DEF IssueOther, RegisterIssue
<1>19. ASSUME UNCHANGED vars
       PROVE  Goal
  BY <1>19, <1>c DEF vars
<1> QED
  BY <1>1, <1>2, <1>3, <1>4, <1>5, <1>6, <1>7, <1>8, <1>9, <1>10, <1>11, <1>12, <1>13, <1>14,
     <1>15, <1>16, <1>17, <1>18, <1>19, <1>20, <1>21 DEF Next, RunStep, CancelStep

----------------------------------------------------------------------------
\* How a step changes the members and what they were given.
LEMMA MemberSteps ==
  ASSUME TypeOK, PcInv, [Next]_vars
  PROVE  \/ UNCHANGED <<member, granted>>
         \/ \E m \in Members, s \in {"skipped", "failed"} :
              member[m] = "pending" /\ member' = [member EXCEPT ![m] = s] /\ UNCHANGED granted
         \/ \E p \in Runs, m \in Members :
              /\ member[m] = "pending"
              /\ member' = [member EXCEPT ![m] = "assigned"]
              /\ granted' = [granted EXCEPT ![m] = @ + 1]
              /\ Moves(p, "send") /\ proc'[p].at = m
              /\ UNCHANGED <<sent, refunded>>
         \/ /\ member' = [m \in Members |-> IF member[m] = "pending" THEN "cancelled" ELSE member[m]]
            /\ UNCHANGED granted
         \/ \E m \in Members : member' = [member EXCEPT ![m] = "cancelled"] /\ UNCHANGED granted
<1>1. ASSUME NEW p \in Runs, NEW m \in Members, AssignGift(p, m) \/ AssignPoints(p, m)
      PROVE  /\ member[m] = "pending"
             /\ member' = [member EXCEPT ![m] = "assigned"]
             /\ granted' = [granted EXCEPT ![m] = @ + 1]
             /\ Moves(p, "send") /\ proc'[p].at = m
             /\ UNCHANGED <<sent, refunded>>
  BY <1>1, VisitedMoves DEF AssignGift, AssignPoints, StillPending
<1>2. ASSUME NEW p \in Runs, NEW m \in Members, Reject(p, m) \/ LimitExhausted(p, m)
      PROVE  \E s \in {"skipped", "failed"} :
               member[m] = "pending" /\ member' = [member EXCEPT ![m] = s] /\ UNCHANGED granted
  BY <1>2 DEF Reject, LimitExhausted, StillPending
<1>3. ASSUME NEW p \in Cancels, NEW m \in Members, RevokeGift(p, m)
      PROVE  \/ UNCHANGED <<member, granted>>
             \/ member' = [member EXCEPT ![m] = "cancelled"] /\ UNCHANGED granted
  BY <1>3 DEF RevokeGift
<1>4. ASSUME NEW p \in Cancels, RefundPoints(p)
      PROVE  \/ UNCHANGED <<member, granted>>
             \/ \E m \in Members : member' = [member EXCEPT ![m] = "cancelled"] /\ UNCHANGED granted
  BY <1>4 DEF RefundPoints, PcInv
<1>5. ASSUME NEW p \in Runs \cup Cancels,
             \/ StartRun(p) \/ LoopEnds(p) \/ SendMessage(p) \/ TimeLimit(p) \/ Killed(p)
             \/ FinalizeRead(p) \/ FinalizeSave(p) \/ Cancel(p) \/ CancelList(p) \/ CancelEnds(p)
             \/ \E m \in Members : PassOver(p, m) \/ ReadBalance(p, m) \/ CancelFails(p, m)
      PROVE  UNCHANGED <<member, granted>>
  BY <1>5 DEF StartRun, LoopEnds, SendMessage, TimeLimit, Killed, FinalizeRead, FinalizeSave,
              Cancel, CancelList, CancelEnds, PassOver, ReadBalance, CancelFails
<1>6. ASSUME IssueOther \/ (\E m \in Members : GuestStep(m)) \/ UNCHANGED vars
      PROVE  UNCHANGED <<member, granted>>
  BY <1>6 DEF IssueOther, GuestStep, Activate, UseGift, Spend, vars
<1>7. ASSUME NEW p \in Cancels, CancelPending(p)
      PROVE  /\ member' = [m \in Members |-> IF member[m] = "pending" THEN "cancelled" ELSE member[m]]
             /\ UNCHANGED granted
  BY <1>7 DEF CancelPending
<1>8. CASE \E p \in Runs : RunStep(p) \/ TimeLimit(p)
  BY <1>8, <1>1, <1>2, <1>5 DEF RunStep
<1>9. CASE \E p \in Cancels : CancelStep(p)
  BY <1>9, <1>3, <1>4, <1>5, <1>7 DEF CancelStep
<1> QED
  BY <1>5, <1>6, <1>8, <1>9 DEF Next

\* Rewards are given once: only to a pending member, who is not one afterwards.
LEMMA RewardPreserved ==
  ASSUME TypeOK, PcInv, RewardInv, [Next]_vars
  PROVE  RewardInv'
<1> USE DEF TypeOK, RewardInv, RewardedOnce
<1>1. CASE UNCHANGED <<member, granted>>
  BY <1>1
<1>2. ASSUME NEW m \in Members, NEW s \in {"skipped", "failed", "cancelled"},
             member' = [member EXCEPT ![m] = s], UNCHANGED granted
      PROVE  RewardInv'
  BY <1>2
<1>3. ASSUME NEW m \in Members, member[m] = "pending",
             member' = [member EXCEPT ![m] = "assigned"],
             granted' = [granted EXCEPT ![m] = @ + 1]
      PROVE  RewardInv'
  BY <1>3
<1>4. CASE /\ member' = [m \in Members |-> IF member[m] = "pending" THEN "cancelled" ELSE member[m]]
           /\ UNCHANGED granted
  BY <1>4
<1> QED
  BY <1>1, <1>2, <1>3, <1>4, MemberSteps

\* Who sends: a run comes to it by rewarding, and leaves it by sending.
LEMMA SendSteps ==
  ASSUME TypeOK, PcInv, [Next]_vars
  PROVE  \/ \E p \in Runs, m \in Members :
              /\ member[m] = "pending"
              /\ granted' = [granted EXCEPT ![m] = @ + 1]
              /\ Moves(p, "send") /\ proc'[p].at = m
              /\ UNCHANGED sent
         \/ \E p \in Runs :
              /\ Sending(p) /\ proc[p].at \in Members
              /\ sent' = [sent EXCEPT ![proc[p].at] = @ + 1]
              /\ Moves(p, "loop") /\ UNCHANGED granted
         \/ /\ UNCHANGED <<sent, granted>>
            /\ \A q \in Runs : Sending(q)' => Sending(q) /\ proc'[q].at = proc[q].at
<1> DEFINE Goal == /\ UNCHANGED <<sent, granted>>
                   /\ \A q \in Runs : Sending(q)' => Sending(q) /\ proc'[q].at = proc[q].at
<1>a. ASSUME NEW p \in Runs \cup Cancels, NEW pc, pc # "send" \/ p \notin Runs, Moves(p, pc),
             UNCHANGED <<sent, granted>>
      PROVE  Goal
  BY <1>a DEF Moves, Sending
<1>p. \A p \in Runs : p \notin Cancels
  BY ProcsAssumption
<1>1. ASSUME NEW p \in Runs, NEW m \in Members, AssignGift(p, m) \/ AssignPoints(p, m)
      PROVE  /\ member[m] = "pending"
             /\ granted' = [granted EXCEPT ![m] = @ + 1]
             /\ Moves(p, "send") /\ proc'[p].at = m
             /\ UNCHANGED sent
  BY <1>1, VisitedMoves DEF AssignGift, AssignPoints, StillPending
<1>2. ASSUME NEW p \in Runs, SendMessage(p)
      PROVE  /\ Sending(p) /\ proc[p].at \in Members
             /\ sent' = [sent EXCEPT ![proc[p].at] = @ + 1]
             /\ Moves(p, "loop") /\ UNCHANGED granted
  <2>1. proc[p].at \in Members
    BY <1>2 DEF SendMessage, PcInv
  <2>2. Moves(p, "loop")
    BY <1>2, SendMoves
  <2> QED
    BY <1>2, <2>1, <2>2 DEF SendMessage, Sending
<1>3. ASSUME NEW p \in Runs, NEW m \in Members, PassOver(p, m) \/ Reject(p, m) \/ LimitExhausted(p, m)
      PROVE  Goal
  BY <1>3, <1>a, VisitedMoves DEF PassOver, Reject, LimitExhausted
<1>4. ASSUME NEW p \in Runs \cup Cancels,
             LoopEnds(p) \/ FinalizeSave(p) \/ CancelEnds(p) \/ Killed(p)
      PROVE  Goal
  BY <1>4, <1>a, LeaveMoves DEF LoopEnds, FinalizeSave, CancelEnds, Killed
<1>5. ASSUME NEW p \in Runs, StartRun(p) \/ TimeLimit(p)
      PROVE  Goal
  BY <1>5, <1>a, StartMoves, LimitMoves DEF StartRun, TimeLimit
<1>6. ASSUME NEW p \in Runs \cup Cancels, FinalizeRead(p)
      PROVE  Goal
  BY <1>6 DEF FinalizeRead, Sending, TypeOK, Proc
<1>7. ASSUME NEW p \in Cancels, CancelStep(p)
      PROVE  Goal
  <2>1. \A q \in Runs : proc'[q] = proc[q]
    BY <1>7, <1>p DEF TypeOK, CancelStep, Cancel, CancelPending, CancelList, RefundPoints, CancelEnds, RevokeGift,
          ReadBalance, CancelFails, FinalizeRead, FinalizeSave, Goto, Leave, Visited
  <2>2. UNCHANGED <<sent, granted>>
    BY <1>7 DEF CancelStep, Cancel, CancelPending, CancelList, RefundPoints, CancelEnds, RevokeGift,
          ReadBalance, CancelFails, FinalizeRead, FinalizeSave
  <2> QED
    BY <2>1, <2>2 DEF Sending
<1>8. ASSUME IssueOther \/ (\E m \in Members : GuestStep(m)) \/ UNCHANGED vars
      PROVE  Goal
  BY <1>8 DEF IssueOther, GuestStep, Activate, UseGift, Spend, vars, Sending
<1>9. CASE \E p \in Runs : RunStep(p) \/ TimeLimit(p)
  BY <1>9, <1>1, <1>2, <1>3, <1>4, <1>5, <1>6 DEF RunStep
<1> QED
  BY <1>4, <1>7, <1>8, <1>9 DEF Next

\* A message leaves for every reward at most, and for nothing else.
LEMMA MessagePreserved ==
  ASSUME TypeOK, PcInv, RewardInv, MessageInv, [Next]_vars
  PROVE  MessageInv'
<1> USE DEF TypeOK, MessageInv, MessagesFollowRewards
<1>1. ASSUME NEW p \in Runs, NEW m \in Members,
             /\ member[m] = "pending"
             /\ granted' = [granted EXCEPT ![m] = @ + 1]
             /\ Moves(p, "send") /\ proc'[p].at = m
             /\ UNCHANGED sent
      PROVE  MessageInv'
  <2>1. granted[m] = 0 /\ sent[m] = 0
    BY <1>1 DEF RewardInv
  <2>2. \A q \in Runs : Sending(q) => proc[q].at \in Members /\ proc[q].at # m
    BY <2>1 DEF Sending, PcInv
  <2>3. Sending(p)' /\ \A q \in Runs : q # p => (Sending(q)' <=> Sending(q)) /\ proc'[q] = proc[q]
    BY <1>1 DEF Moves, Sending
  <2> QED
    BY <1>1, <2>1, <2>2, <2>3
<1>2. ASSUME NEW p \in Runs,
             /\ Sending(p) /\ proc[p].at \in Members
             /\ sent' = [sent EXCEPT ![proc[p].at] = @ + 1]
             /\ Moves(p, "loop") /\ UNCHANGED granted
      PROVE  MessageInv'
  <2>1. ~Sending(p)' /\ \A q \in Runs : q # p => (Sending(q)' <=> Sending(q)) /\ proc'[q] = proc[q]
    BY <1>2 DEF Moves, Sending
  <2>2. \A q \in Runs : Sending(q) => proc[q].at \in Members
    BY DEF Sending, PcInv
  <2> QED
    BY <1>2, <2>1, <2>2
<1>3. CASE /\ UNCHANGED <<sent, granted>>
           /\ \A q \in Runs : Sending(q)' => Sending(q) /\ proc'[q].at = proc[q].at
  BY <1>3
<1> QED
  BY <1>1, <1>2, <1>3, SendSteps

----------------------------------------------------------------------------
\* Runs and cancel requests do not move each other.
LEMMA RunsMoveAlone ==
  ASSUME TypeOK, NEW p \in Runs, RunStep(p) \/ TimeLimit(p) \/ Killed(p)
  PROVE  /\ \A q \in Cancels : proc'[q] = proc[q]
         /\ UNCHANGED <<reward, others, failed, refunded>>
<1>1. p \notin Cancels
  BY ProcsAssumption
<1>2. ASSUME NEW s, proc' = [proc EXCEPT ![p] = s]
      PROVE  \A q \in Cancels : proc'[q] = proc[q]
  BY <1>1, <1>2 DEF TypeOK
<1>3. UNCHANGED <<reward, others, failed, refunded>>
  BY DEF RunStep, TimeLimit, Killed, StartRun, LoopEnds, SendMessage, PassOver, Reject,
     AssignGift, LimitExhausted, AssignPoints, FinalizeRead, FinalizeSave
<1>4. \/ \E pc \in {"finalize", "done", "lost"} : Leave(p, pc)
      \/ \E m \in Members, pc \in {"loop", "send"} : Visited(p, m, pc)
      \/ StartRun(p) \/ SendMessage(p) \/ FinalizeRead(p)
      \/ \E s : proc' = [proc EXCEPT ![p] = s]
  BY DEF RunStep, TimeLimit, Killed, LoopEnds, PassOver, Reject,
     AssignGift, LimitExhausted, AssignPoints, FinalizeSave
<1>5. \A q \in Cancels : proc'[q] = proc[q]
  <2>1. ASSUME NEW pc \in {"finalize", "done", "lost"}, Leave(p, pc)
        PROVE  \A q \in Cancels : proc'[q] = proc[q]
    BY <2>1, <1>2 DEF Leave
  <2>2. ASSUME NEW m \in Members, NEW pc \in {"loop", "send"}, Visited(p, m, pc)
        PROVE  \A q \in Cancels : proc'[q] = proc[q]
    <3>1. Moves(p, pc)
      BY <2>2, VisitedMoves
    <3> QED
      BY <3>1, <1>1 DEF Moves
  <2>3. CASE SendMessage(p)
    <3>1. Moves(p, "loop")
      BY <2>3, SendMoves
    <3> QED
      BY <3>1, <1>1 DEF Moves
  <2>4. CASE FinalizeRead(p)
    BY <2>4, <1>1 DEF FinalizeRead, TypeOK
  <2>5. ASSUME NEW s, proc' = [proc EXCEPT ![p] = s]
        PROVE  \A q \in Cancels : proc'[q] = proc[q]
    BY <2>5, <1>2
  <2>6. CASE StartRun(p)
    <3>1. Moves(p, "loop")
      BY <2>6, StartMoves
    <3> QED
      BY <3>1, <1>1 DEF Moves
  <2> QED
    BY <1>4, <2>1, <2>2, <2>3, <2>4, <2>5, <2>6
<1> QED
  BY <1>3, <1>5

\* What is listed when cancelling, seen from the row of the process.
LEMMA CancelLists ==
  ASSUME TypeOK, NEW p \in Cancels, CancelList(p)
  PROVE  /\ proc'[p].pc = "undo"
         /\ proc'[p].todo = InStatus("assigned")
         /\ proc'[p].gifts = {m \in InStatus("assigned") : item[m] = "pending"}
         /\ \A q \in Runs \cup Cancels : q # p => proc'[q] = proc[q]
<1> DEFINE gifts == {m \in InStatus("assigned") : item[m] = "pending"}
<1>1. proc' = [proc EXCEPT ![p].todo = InStatus("assigned"), ![p].pc = "undo", ![p].gifts = gifts]
  BY DEF CancelList
<1> HIDE DEF gifts
<1>2. /\ proc'[p].pc = "undo" /\ proc'[p].todo = InStatus("assigned") /\ proc'[p].gifts = gifts
      /\ \A q \in Runs \cup Cancels : q # p => proc'[q] = proc[q]
  BY <1>1 DEF TypeOK, Proc
<1> QED
  BY <1>2 DEF gifts

LEMMA BalanceReads ==
  ASSUME TypeOK, NEW p \in Cancels, NEW m \in Members, ReadBalance(p, m)
  PROVE  /\ proc'[p].pc = "refund" /\ proc'[p].at = m
         /\ proc'[p].todo = proc[p].todo /\ proc'[p].gifts = proc[p].gifts
         /\ proc'[p].refund <= Points
         /\ \A q \in Runs \cup Cancels : q # p => proc'[q] = proc[q]
<1>1. Refundable(m) <= Points
  BY RewardAssumption DEF Refundable, TypeOK
<1>2. proc' = [proc EXCEPT ![p].at = m, ![p].pc = "refund", ![p].refund = Refundable(m)]
  BY DEF ReadBalance
<1> QED
  BY <1>1, <1>2 DEF TypeOK, Proc

\* What a canceller is past of is done and stays done.
LEMMA CancelPreserved ==
  ASSUME TypeOK, PcInv, CancelInv, [Next]_vars
  PROVE  CancelInv'
<1> USE DEF TypeOK
<1> DEFINE Fewer == /\ UNCHANGED reward /\ failed \subseteq failed'
                    /\ \A m \in Members :
                         /\ member'[m] = "pending" => member[m] = "pending"
                         /\ member'[m] = "assigned" =>
                              /\ member[m] = "assigned"
                              /\ item[m] = "pending" => item'[m] \in {"pending", "active"}
                              /\ item[m] \in {"active", "used"} => item'[m] \in {"active", "used"}
                         /\ item'[m] # "none" => item[m] # "none" \/ Gift
                         /\ item'[m] = "pending" =>
                              item[m] = "pending" /\ (member[m] = "assigned" => member'[m] = "assigned")
           Left(p) == \A m \in Members :
                        /\ member[m] = "assigned" => m \in proc[p].todo \/ Kept(m)
                        /\ m \in proc[p].todo /\ item[m] = "pending" => m \in proc[p].gifts
           Over == \A m \in Members : member[m] = "assigned" => Kept(m)
\* What was kept is kept, unless it is cancelled now.
<1>k. ASSUME Fewer, NEW m \in Members, member'[m] = "assigned", Kept(m)
      PROVE  Kept(m)'
  BY <1>k DEF Kept
<1>m. ASSUME Fewer
      PROVE  \A m \in Members :
               /\ item'[m] # "none" => Gift'
               /\ item'[m] = "pending" => member'[m] = "assigned"
               /\ Gift' /\ member'[m] = "assigned" => item'[m] \in {"pending", "active", "used"}
  BY <1>m DEF CancelInv, Gift
\* A canceller that does not move.
<1>q. ASSUME Fewer, NEW q \in Cancels, proc'[q] = proc[q]
      PROVE  /\ proc'[q].pc \in {"list", "undo", "refund", "finalize", "save", "done"} =>
                  InStatus("pending")' = {}
             /\ proc'[q].pc = "refund" => ~Gift'
             /\ proc'[q].pc \in {"undo", "refund"} => Left(q)'
             /\ proc'[q].pc \in {"finalize", "save", "done"} => Over'
  <2>1. proc'[q].pc \in {"list", "undo", "refund", "finalize", "save", "done"} =>
          InStatus("pending")' = {}
    BY <1>q DEF CancelInv, InStatus
  <2>2. proc'[q].pc = "refund" => ~Gift'
    BY <1>q DEF CancelInv, Gift
  <2>3. ASSUME proc[q].pc \in {"undo", "refund"}
        PROVE  Left(q)'
    <3>1. Left(q)
      BY <2>3 DEF CancelInv
    <3> QED
      BY <1>q, <1>k, <3>1
  <2>4. ASSUME proc[q].pc \in {"finalize", "save", "done"}
        PROVE  Over'
    <3>1. Over
      BY <2>4 DEF CancelInv
    <3> QED
      BY <1>q, <1>k, <3>1
  <2> QED
    BY <1>q, <2>1, <2>2, <2>3, <2>4
<1>a. ASSUME Fewer, \A q \in Cancels : proc'[q] = proc[q]
      PROVE  CancelInv'
  BY <1>a, <1>m, <1>q DEF CancelInv
<1>b. ASSUME NEW p \in Cancels, Fewer, \A q \in Cancels : q # p => proc'[q] = proc[q],
             /\ proc'[p].pc \in {"list", "undo", "refund", "finalize", "save", "done"} =>
                  InStatus("pending")' = {}
             /\ proc'[p].pc = "refund" => ~Gift'
             /\ proc'[p].pc \in {"undo", "refund"} => Left(p)'
             /\ proc'[p].pc \in {"finalize", "save", "done"} => Over'
      PROVE  CancelInv'
  BY <1>b, <1>m, <1>q DEF CancelInv
<1>c. ASSUME UNCHANGED <<reward, member, item>>, failed \subseteq failed'
      PROVE  Fewer /\ InStatus("pending")' = InStatus("pending") /\ Gift' = Gift
  BY <1>c DEF InStatus, Gift
<1>1. ASSUME NEW p \in Runs, NEW m \in Members, AssignGift(p, m)
      PROVE  CancelInv'
  <2>1. \A q \in Cancels : proc'[q] = proc[q]
    BY <1>1, RunsMoveAlone DEF RunStep
  <2>2. /\ Gift /\ member[m] = "pending" /\ UNCHANGED reward
        /\ item' = [item EXCEPT ![m] = "pending"]
        /\ member' = [member EXCEPT ![m] = "assigned"]
    BY <1>1 DEF AssignGift, StillPending
  <2>3. \A q \in Cancels :
          proc[q].pc \notin {"list", "undo", "refund", "finalize", "save", "done"}
    BY <2>2 DEF CancelInv, InStatus
  <2> QED
    BY <2>1, <2>2, <2>3 DEF CancelInv, Gift
<1>2. ASSUME NEW p \in Runs, NEW m \in Members,
             Reject(p, m) \/ LimitExhausted(p, m) \/ PassOver(p, m)
      PROVE  CancelInv'
  <2>1. UNCHANGED failed /\ \A q \in Cancels : proc'[q] = proc[q]
    BY <1>2, RunsMoveAlone DEF RunStep
  <2>2. UNCHANGED <<member, item, reward>> \/ (member[m] = "pending" /\ UNCHANGED <<item, reward>>
         /\ \E s \in {"skipped", "failed"} : member' = [member EXCEPT ![m] = s])
    BY <1>2 DEF Reject, LimitExhausted, PassOver, StillPending
  <2>3. Fewer
    BY <2>1, <2>2
  <2> QED
    BY <2>1, <2>3, <1>a
<1>14. ASSUME NEW p \in Runs, NEW m \in Members, AssignPoints(p, m)
       PROVE  CancelInv'
  <2>1. \A q \in Cancels : proc'[q] = proc[q]
    BY <1>14, RunsMoveAlone DEF RunStep
  <2>2. /\ ~Gift /\ member[m] = "pending" /\ UNCHANGED <<item, reward>>
        /\ member' = [member EXCEPT ![m] = "assigned"]
    BY <1>14 DEF AssignPoints, StillPending
  <2>3. \A q \in Cancels :
          proc[q].pc \notin {"list", "undo", "refund", "finalize", "save", "done"}
    BY <2>2 DEF CancelInv, InStatus
  <2> QED
    BY <2>1, <2>2, <2>3 DEF CancelInv, Gift
<1>3. ASSUME NEW p \in Runs,
             \/ StartRun(p) \/ LoopEnds(p) \/ SendMessage(p) \/ FinalizeRead(p) \/ FinalizeSave(p)
             \/ TimeLimit(p) \/ Killed(p)
      PROVE  CancelInv'
  <2>1. UNCHANGED failed /\ \A q \in Cancels : proc'[q] = proc[q]
    BY <1>3, RunsMoveAlone DEF RunStep
  <2>2. UNCHANGED <<reward, member, item>>
    BY <1>3 DEF StartRun, LoopEnds, SendMessage, FinalizeRead, FinalizeSave, TimeLimit, Killed
  <2> QED
    BY <2>1, <2>2, <1>a, <1>c
<1>4. ASSUME NEW p \in Cancels, Cancel(p)
      PROVE  CancelInv'
  <2>1. Moves(p, "pending")
    BY <1>4, GotoMoves DEF Cancel
  <2>2. Fewer
    BY <1>4, <1>c DEF Cancel
  <2> QED
    BY <2>1, <2>2, <1>b DEF Moves
<1>5. ASSUME NEW p \in Cancels, CancelPending(p)
      PROVE  CancelInv'
  <2>1. Moves(p, "list")
    BY <1>5, GotoMoves DEF CancelPending
  <2>2. UNCHANGED <<reward, item, failed>>
    BY <1>5 DEF CancelPending
  <2>3. \A m \in Members : /\ member'[m] # "pending"
                           /\ member'[m] = "assigned" <=> member[m] = "assigned"
    BY <1>5 DEF CancelPending
  <2>4. Fewer /\ InStatus("pending")' = {}
    BY <2>2, <2>3 DEF InStatus
  <2> QED
    BY <2>1, <2>4, <1>b DEF Moves
<1>6. ASSUME NEW p \in Cancels, CancelList(p)
      PROVE  CancelInv'
  <2>1. proc[p].pc = "list" /\ UNCHANGED <<reward, member, item, failed>>
    BY <1>6 DEF CancelList
  <2>2. InStatus("pending") = {}
    BY <2>1 DEF CancelInv
  <2>3. Left(p)'
    BY <1>6, <2>1, CancelLists DEF InStatus
  <2>4. Fewer /\ InStatus("pending")' = {}
    BY <2>1, <2>2, <1>c
  <2> QED
    BY <1>6, <2>3, <2>4, <1>b, CancelLists
<1>7. ASSUME NEW p \in Cancels, NEW m \in Members, RevokeGift(p, m)
      PROVE  CancelInv'
  <2>1. /\ Moves(p, "undo") /\ proc'[p].todo = proc[p].todo \ {m} /\ proc'[p].gifts = proc[p].gifts
        /\ proc[p].pc = "undo" /\ m \in proc[p].todo /\ Gift /\ UNCHANGED <<reward, failed>>
    BY <1>7, VisitedMoves DEF RevokeGift
  <2>2. InStatus("pending") = {} /\ Left(p)
    BY <2>1 DEF CancelInv
  <2>3. CASE m \in proc[p].gifts
    <3>1. item' = [item EXCEPT ![m] = "revoked"] /\ member' = [member EXCEPT ![m] = "cancelled"]
      BY <1>7, <2>3 DEF RevokeGift
    <3>3. Fewer /\ InStatus("pending")' = {}
      BY <2>1, <2>2, <3>1 DEF InStatus
    <3>4. Left(p)'
      BY <2>1, <2>2, <3>1 DEF Kept
    <3> QED
      BY <2>1, <3>3, <3>4, <1>b DEF Moves
  <2>4. CASE m \notin proc[p].gifts
    <3>1. UNCHANGED <<reward, item, member>>
      BY <1>7, <2>4 DEF RevokeGift
    <3>2. member[m] = "assigned" => Kept(m)
      BY <2>1, <2>2, <2>4 DEF CancelInv, Kept
    <3>3. Left(p)'
      BY <2>1, <2>2, <3>1, <3>2 DEF Kept
    <3>4. Fewer /\ InStatus("pending")' = {}
      BY <2>1, <2>2, <3>1, <1>c
    <3> QED
      BY <2>1, <3>3, <3>4, <1>b DEF Moves
  <2> QED
    BY <2>3, <2>4
<1>8. ASSUME NEW p \in Cancels, NEW m \in Members, ReadBalance(p, m)
      PROVE  CancelInv'
  <2>1. proc[p].pc = "undo" /\ ~Gift /\ UNCHANGED <<reward, member, item, failed>>
    BY <1>8 DEF ReadBalance
  <2>2. InStatus("pending") = {} /\ Left(p)
    BY <2>1 DEF CancelInv
  <2>3. Left(p)'
    BY <1>8, <2>1, <2>2, BalanceReads DEF Kept
  <2>4. Fewer /\ InStatus("pending")' = {} /\ ~Gift'
    BY <2>1, <2>2, <1>c
  <2> QED
    BY <1>8, <2>3, <2>4, <1>b, BalanceReads
<1>9. ASSUME NEW p \in Cancels, RefundPoints(p)
      PROVE  CancelInv'
  <2> DEFINE m == proc[p].at
  <2>1. proc[p].pc = "refund" /\ m \in Members
    BY <1>9 DEF RefundPoints, PcInv
  <2>2. /\ Moves(p, "undo") /\ proc'[p].todo = proc[p].todo \ {m} /\ proc'[p].gifts = proc[p].gifts
        /\ UNCHANGED <<reward, item, failed>>
    BY <1>9, <2>1, VisitedMoves DEF RefundPoints
  <2>3. member' = [member EXCEPT ![m] = "cancelled"]
    BY <1>9 DEF RefundPoints
  <2>4. InStatus("pending") = {} /\ Left(p) /\ \A i \in Members : item[i] = "none"
    BY <2>1 DEF CancelInv
  <2> HIDE DEF m
  <2>5. Fewer /\ InStatus("pending")' = {}
    BY <2>1, <2>2, <2>3, <2>4 DEF InStatus
  <2>6. Left(p)'
    BY <2>1, <2>2, <2>3, <2>4 DEF Kept
  <2> QED
    BY <2>2, <2>5, <2>6, <1>b DEF Moves
<1>15. ASSUME NEW p \in Cancels, NEW m \in Members, CancelFails(p, m)
       PROVE  CancelInv'
  <2>1. /\ Moves(p, "undo") /\ proc'[p].todo = proc[p].todo \ {m} /\ proc'[p].gifts = proc[p].gifts
        /\ proc[p].pc \in {"undo", "refund"} /\ UNCHANGED <<reward, member, item>>
        /\ failed' = failed \cup {m}
    BY <1>15, VisitedMoves DEF CancelFails
  <2>2. InStatus("pending") = {} /\ Left(p)
    BY <2>1 DEF CancelInv
  <2>3. Left(p)'
    BY <2>1, <2>2 DEF Kept
  <2>4. Fewer /\ InStatus("pending")' = {}
    BY <2>1, <2>2, <1>c
  <2> QED
    BY <2>1, <2>3, <2>4, <1>b DEF Moves
<1>10. ASSUME NEW p \in Cancels, CancelEnds(p)
       PROVE  CancelInv'
  <2>1. /\ proc[p].pc = "undo" /\ proc[p].todo = {} /\ UNCHANGED <<reward, member, item, failed>>
        /\ Moves(p, "finalize")
    BY <1>10, LeaveMoves DEF CancelEnds
  <2>2. InStatus("pending") = {} /\ Over
    BY <2>1 DEF CancelInv
  <2>3. Fewer /\ InStatus("pending")' = {} /\ Over'
    BY <2>1, <2>2, <1>c DEF Kept
  <2> QED
    BY <2>1, <2>3, <1>b DEF Moves
<1>11. ASSUME NEW p \in Cancels, FinalizeRead(p) \/ FinalizeSave(p)
       PROVE  CancelInv'
  <2>1. proc[p].pc \in {"finalize", "save"} /\ UNCHANGED <<reward, member, item, failed>>
    BY <1>11 DEF FinalizeRead, FinalizeSave
  <2>2. InStatus("pending") = {} /\ Over
    BY <2>1 DEF CancelInv
  <2>3. proc'[p].pc \in {"save", "done"} /\ \A q \in Cancels : q # p => proc'[q] = proc[q]
    <3>1. CASE FinalizeRead(p)
      BY <3>1 DEF FinalizeRead, Proc
    <3>2. CASE FinalizeSave(p)
      BY <3>2, LeaveMoves DEF FinalizeSave, Moves
    <3> QED
      BY <1>11, <3>1, <3>2
  <2>4. Fewer /\ InStatus("pending")' = {} /\ Over'
    BY <2>1, <2>2, <1>c DEF Kept
  <2> QED
    BY <2>3, <2>4, <1>b
<1>16. ASSUME NEW p \in Cancels, Killed(p)
       PROVE  CancelInv'
  <2>1. Moves(p, "lost") /\ UNCHANGED <<reward, member, item, failed>>
    BY <1>16, LeaveMoves DEF Killed
  <2>2. Fewer
    BY <2>1, <1>c
  <2> QED
    BY <2>1, <2>2, <1>b DEF Moves
<1>12. ASSUME IssueOther \/ (\E m \in Members : GuestStep(m)) \/ UNCHANGED vars
       PROVE  CancelInv'
  <2>1. Fewer
    BY <1>12 DEF IssueOther, GuestStep, Activate, UseGift, Spend, vars
  <2>2. UNCHANGED proc
    BY <1>12 DEF IssueOther, GuestStep, Activate, UseGift, Spend, vars
  <2> QED
    BY <2>1, <2>2, <1>a
<1>13. CASE \E p \in Runs : RunStep(p) \/ TimeLimit(p) \/ Killed(p)
  BY <1>13, <1>1, <1>2, <1>3, <1>14 DEF RunStep
<1>17. CASE \E p \in Cancels : CancelStep(p) \/ Killed(p)
  BY <1>17, <1>4, <1>5, <1>6, <1>7, <1>8, <1>9, <1>10, <1>11, <1>15, <1>16 DEF CancelStep
<1> QED
  BY <1>12, <1>13, <1>17 DEF Next

----------------------------------------------------------------------------
\* A refund is given once, while cancel requests take turns.
LEMMA RefundPreserved ==
  ASSUME TypeOK, PcInv, RewardInv, RefundInv, CancelsTakeTurns, [Next]_vars
  PROVE  RefundInv'
<1> USE DEF TypeOK
<1>t. \A m \in Members : granted[m] \in {0, 1}
  BY DEF RewardInv, RewardedOnce
<1>n. Points \in Nat /\ Points * 0 = 0 /\ Points * 1 = Points
  BY RewardAssumption
\* The rows of the others and what was refunded stay.
<1>a. ASSUME UNCHANGED <<granted, refunded>>,
             \A m \in Members : member'[m] = "assigned" => member[m] = "assigned"
      PROVE  /\ RefundWithinReward'
             /\ \A m \in Members : member'[m] = "assigned" => refunded'[m] = 0
  BY <1>a DEF RefundInv, RefundWithinReward
<1>b. ASSUME UNCHANGED <<granted, refunded>>,
             \A m \in Members : member'[m] = "assigned" => member[m] = "assigned",
             \A q \in Cancels : Undoing(q)' => Undoing(q) /\ proc'[q] = proc[q]
      PROVE  RefundInv'
  BY <1>a, <1>b DEF RefundInv, Undoing
<1>c. ASSUME NEW p \in Cancels, UNCHANGED <<granted, refunded>>,
             \A m \in Members : member'[m] = "assigned" => member[m] = "assigned",
             \A q \in Cancels : q # p => proc'[q] = proc[q],
             \A m \in proc'[p].todo : granted[m] = 1 /\ refunded[m] = 0,
             proc'[p].pc = "refund" => proc'[p].at \in proc'[p].todo /\ proc'[p].refund <= Points
      PROVE  RefundInv'
  BY <1>a, <1>c DEF RefundInv, Undoing
<1>1. ASSUME NEW p \in Runs, NEW m \in Members, AssignGift(p, m) \/ AssignPoints(p, m)
      PROVE  RefundInv'
  <2>1. /\ \A q \in Cancels : proc'[q] = proc[q]
        /\ UNCHANGED refunded
    BY <1>1, RunsMoveAlone DEF RunStep
  <2>2. /\ member[m] = "pending"
        /\ member' = [member EXCEPT ![m] = "assigned"]
        /\ granted' = [granted EXCEPT ![m] = @ + 1]
    BY <1>1 DEF AssignGift, AssignPoints, StillPending
  <2>3. granted[m] = 0 /\ refunded[m] = 0
    BY <2>2, <1>n DEF RewardInv, RefundInv, RefundWithinReward
  <2>4. RefundWithinReward'
    <3> SUFFICES ASSUME NEW i \in Members PROVE refunded'[i] <= Points * granted'[i]
      BY DEF RefundWithinReward
    <3>1. CASE i = m
      <4>1. refunded'[i] = 0 /\ granted'[i] = 1
        BY <3>1, <2>1, <2>2, <2>3
      <4> QED
        BY <4>1, <1>n
    <3>2. CASE i # m
      BY <3>2, <2>1, <2>2 DEF RefundInv, RefundWithinReward
    <3> QED
      BY <3>1, <3>2
  <2>5. \A i \in Members : member'[i] = "assigned" => refunded'[i] = 0
    BY <2>1, <2>2, <2>3 DEF RefundInv
  <2>6. \A q \in Cancels : Undoing(q) => \A i \in proc[q].todo : i # m /\ i \in Members
    BY <2>3 DEF RefundInv, Proc
  <2>7. \A q \in Cancels : Undoing(q)' <=> Undoing(q)
    BY <2>1 DEF Undoing
  <2>8. \A q \in Cancels : Undoing(q)' =>
          /\ \A i \in proc'[q].todo : granted'[i] = 1 /\ refunded'[i] = 0
          /\ proc'[q].pc = "refund" => proc'[q].at \in proc'[q].todo /\ proc'[q].refund <= Points
    BY <2>1, <2>2, <2>6, <2>7 DEF RefundInv
  <2> QED
    BY <2>4, <2>5, <2>8 DEF RefundInv
<1>2. ASSUME NEW p \in Runs, NEW m \in Members,
             Reject(p, m) \/ LimitExhausted(p, m) \/ PassOver(p, m)
      PROVE  RefundInv'
  <2>1. /\ \A q \in Cancels : proc'[q] = proc[q]
        /\ UNCHANGED <<granted, refunded>>
    BY <1>2, RunsMoveAlone DEF RunStep, Reject, LimitExhausted, PassOver
  <2>2. \A i \in Members : member'[i] = "assigned" => member[i] = "assigned"
    BY <1>2 DEF Reject, LimitExhausted, PassOver
  <2> QED
    BY <2>1, <2>2, <1>b DEF Undoing
<1>3. ASSUME NEW p \in Runs,
             \/ StartRun(p) \/ LoopEnds(p) \/ SendMessage(p) \/ FinalizeRead(p) \/ FinalizeSave(p)
             \/ TimeLimit(p) \/ Killed(p)
      PROVE  RefundInv'
  <2>1. \A q \in Cancels : proc'[q] = proc[q]
    BY <1>3, RunsMoveAlone DEF RunStep
  <2>2. UNCHANGED <<member, granted, refunded>>
    BY <1>3 DEF StartRun, LoopEnds, SendMessage, FinalizeRead, FinalizeSave, TimeLimit, Killed
  <2> QED
    BY <2>1, <2>2, <1>b DEF Undoing
<1>4. ASSUME NEW p \in Cancels, NEW pc \in {"pending", "list", "finalize", "save", "done", "lost"},
             \/ Moves(p, pc)
             \/ proc'[p].pc = pc /\ \A q \in Cancels : q # p => proc'[q] = proc[q],
             UNCHANGED <<granted, refunded>>,
             \A m \in Members : member'[m] = "assigned" => member[m] = "assigned"
      PROVE  RefundInv'
  BY <1>4, <1>b DEF Undoing, Moves
<1>5. ASSUME NEW p \in Cancels,
             \/ Cancel(p) \/ CancelPending(p) \/ CancelEnds(p) \/ FinalizeRead(p) \/ FinalizeSave(p)
             \/ Killed(p)
      PROVE  RefundInv'
  <2>1. CASE Cancel(p)
    BY <2>1, <1>4, GotoMoves DEF Cancel
  <2>2. CASE CancelPending(p)
    BY <2>2, <1>4, GotoMoves DEF CancelPending
  <2>3. CASE CancelEnds(p)
    BY <2>3, <1>4, LeaveMoves DEF CancelEnds
  <2>4. CASE FinalizeRead(p)
    <3>1. proc'[p].pc = "save" /\ \A q \in Cancels : q # p => proc'[q] = proc[q]
      BY <2>4 DEF FinalizeRead, Proc
    <3> QED
      BY <2>4, <3>1, <1>4 DEF FinalizeRead
  <2>5. CASE FinalizeSave(p)
    BY <2>5, <1>4, LeaveMoves DEF FinalizeSave
  <2>6. CASE Killed(p)
    BY <2>6, <1>4, LeaveMoves DEF Killed
  <2> QED
    BY <1>5, <2>1, <2>2, <2>3, <2>4, <2>5, <2>6
<1>6. ASSUME NEW p \in Cancels, CancelList(p)
      PROVE  RefundInv'
  <2>1. UNCHANGED <<member, granted, refunded>>
    BY <1>6 DEF CancelList
  <2>2. \A m \in InStatus("assigned") : granted[m] = 1 /\ refunded[m] = 0
    BY DEF RewardInv, RefundInv, InStatus
  <2> QED
    BY <1>6, <2>1, <2>2, <1>c, CancelLists
<1>7. ASSUME NEW p \in Cancels, NEW m \in Members, RevokeGift(p, m)
      PROVE  RefundInv'
  <2>1. /\ Moves(p, "undo") /\ proc'[p].todo = proc[p].todo \ {m}
        /\ proc[p].pc = "undo" /\ UNCHANGED <<granted, refunded>>
    BY <1>7, VisitedMoves DEF RevokeGift
  <2>2. \A i \in Members : member'[i] = "assigned" => member[i] = "assigned"
    BY <1>7 DEF RevokeGift
  <2>3. \A i \in proc[p].todo : granted[i] = 1 /\ refunded[i] = 0
    BY <2>1 DEF RefundInv, Undoing
  <2> QED
    BY <2>1, <2>2, <2>3, <1>c DEF Moves
<1>8. ASSUME NEW p \in Cancels, NEW m \in Members, ReadBalance(p, m)
      PROVE  RefundInv'
  <2>1. proc[p].pc = "undo" /\ m \in proc[p].todo /\ UNCHANGED <<member, granted, refunded>>
    BY <1>8 DEF ReadBalance
  <2>2. \A i \in proc[p].todo : granted[i] = 1 /\ refunded[i] = 0
    BY <2>1 DEF RefundInv, Undoing
  <2> QED
    BY <1>8, <2>1, <2>2, <1>c, BalanceReads
<1>9. ASSUME NEW p \in Cancels, RefundPoints(p)
      PROVE  RefundInv'
  <2> DEFINE m == proc[p].at
             r == proc[p].refund
  <2>1. proc[p].pc = "refund" /\ m \in Members /\ UNCHANGED granted /\ r \in Nat
    BY <1>9 DEF RefundPoints, PcInv, Proc
  <2>2. Moves(p, "undo") /\ proc'[p].todo = proc[p].todo \ {m}
    BY <1>9, <2>1, VisitedMoves DEF RefundPoints
  <2>3. /\ \A i \in proc[p].todo : granted[i] = 1 /\ refunded[i] = 0
        /\ m \in proc[p].todo /\ r <= Points
    BY <2>1 DEF RefundInv, Undoing
  <2>4. proc[p].todo \subseteq Members
    BY DEF Proc
  <2>5. /\ refunded' = [refunded EXCEPT ![m] = @ + r]
        /\ member' = [member EXCEPT ![m] = "cancelled"]
    BY <1>9 DEF RefundPoints
  <2>6. RefundWithinReward'
    <3> SUFFICES ASSUME NEW i \in Members PROVE refunded'[i] <= Points * granted'[i]
      BY DEF RefundWithinReward
    <3>1. CASE i = m
      <4>1. refunded'[i] = r /\ granted'[i] = 1
        BY <3>1, <2>1, <2>3, <2>5
      <4> QED
        BY <4>1, <2>3, <1>n
    <3>2. CASE i # m
      BY <3>2, <2>1, <2>5 DEF RefundInv, RefundWithinReward
    <3> QED
      BY <3>1, <3>2
  <2>7. \A i \in Members : member'[i] = "assigned" => refunded'[i] = 0
    BY <2>5 DEF RefundInv
  <2>8. \A q \in Cancels : Undoing(q)' => q = p
    BY <2>1, <2>2 DEF Moves, Undoing, CancelsTakeTurns
  <2>9. /\ \A i \in proc'[p].todo : granted'[i] = 1 /\ refunded'[i] = 0
        /\ proc'[p].pc = "undo"
    BY <2>1, <2>2, <2>3, <2>4, <2>5 DEF Moves
  <2> QED
    BY <2>6, <2>7, <2>8, <2>9 DEF RefundInv
<1>13. ASSUME NEW p \in Cancels, NEW m \in Members, CancelFails(p, m)
       PROVE  RefundInv'
  <2>1. /\ Moves(p, "undo") /\ proc'[p].todo = proc[p].todo \ {m}
        /\ proc[p].pc \in {"undo", "refund"} /\ UNCHANGED <<member, granted, refunded>>
    BY <1>13, VisitedMoves DEF CancelFails
  <2>2. \A i \in proc[p].todo : granted[i] = 1 /\ refunded[i] = 0
    BY <2>1 DEF RefundInv, Undoing
  <2> QED
    BY <2>1, <2>2, <1>c DEF Moves
<1>10. ASSUME IssueOther \/ (\E m \in Members : GuestStep(m)) \/ UNCHANGED vars
       PROVE  RefundInv'
  <2>1. UNCHANGED <<member, granted, refunded, proc>>
    BY <1>10 DEF IssueOther, GuestStep, Activate, UseGift, Spend, vars
  <2> QED
    BY <2>1, <1>b DEF Undoing
<1>11. CASE \E p \in Runs : RunStep(p) \/ TimeLimit(p) \/ Killed(p)
  BY <1>11, <1>1, <1>2, <1>3 DEF RunStep
<1>12. CASE \E p \in Cancels : CancelStep(p) \/ Killed(p)
  BY <1>12, <1>5, <1>6, <1>7, <1>8, <1>9, <1>13 DEF CancelStep
<1> QED
  BY <1>10, <1>11, <1>12 DEF Next

----------------------------------------------------------------------------
\* Counting the gifts that exist.
LEMMA HoldingCounts ==
  ASSUME TypeOK
  PROVE  /\ Cardinality(Holding) \in Nat
         /\ \A m \in Members, s \in ItemStatus : item' = [item EXCEPT ![m] = s] =>
              /\ m \notin Holding /\ s \in {"pending", "active", "used"} =>
                   Cardinality(Holding') = Cardinality(Holding) + 1
              /\ m \in Holding /\ s \notin {"pending", "active", "used"} =>
                   Cardinality(Holding') = Cardinality(Holding) - 1
              /\ m \in Holding /\ s \in {"pending", "active", "used"} => Holding' = Holding
<1>1. IsFiniteSet(Holding) /\ Holding \subseteq Members
  BY MembersAssumption, FS_Subset DEF Holding
<1>2. Cardinality(Holding) \in Nat
  BY <1>1, FS_CardinalityType
<1> SUFFICES ASSUME NEW m \in Members, NEW s \in ItemStatus, item' = [item EXCEPT ![m] = s]
             PROVE  /\ m \notin Holding /\ s \in {"pending", "active", "used"} =>
                         Cardinality(Holding') = Cardinality(Holding) + 1
                    /\ m \in Holding /\ s \notin {"pending", "active", "used"} =>
                         Cardinality(Holding') = Cardinality(Holding) - 1
                    /\ m \in Holding /\ s \in {"pending", "active", "used"} => Holding' = Holding
  BY <1>2
<1>3. item'[m] = s /\ \A i \in Members : i # m => item'[i] = item[i]
  BY DEF TypeOK
<1>4. ASSUME m \notin Holding, s \in {"pending", "active", "used"}
      PROVE  Cardinality(Holding') = Cardinality(Holding) + 1
  <2>1. Holding' = Holding \cup {m}
    BY <1>3, <1>4 DEF Holding
  <2> QED
    BY <1>1, <1>4, <2>1, FS_AddElement
<1>5. ASSUME m \in Holding, s \notin {"pending", "active", "used"}
      PROVE  Cardinality(Holding') = Cardinality(Holding) - 1
  <2>1. Holding' = Holding \ {m}
    BY <1>3, <1>5 DEF Holding
  <2> QED
    BY <1>1, <1>5, <2>1, FS_RemoveElement
<1>6. ASSUME m \in Holding, s \in {"pending", "active", "used"}
      PROVE  Holding' = Holding
  BY <1>3, <1>6 DEF Holding
<1> QED
  BY <1>4, <1>5, <1>6

\* The counter follows the gifts, while cancel requests take turns.
LEMMA IssuePreserved ==
  ASSUME TypeOK, PcInv, IssueInv, CancelsTakeTurns, [Next]_vars
  PROVE  IssueInv'
<1> USE DEF TypeOK
<1>n. Cardinality(Holding) \in Nat /\ Limit \in Nat
  BY HoldingCounts, RewardAssumption
<1>a. ASSUME UNCHANGED <<issued, others, item>>,
             \A m \in Members : member'[m] = "pending" => member[m] = "pending",
             \A q \in Cancels : Undoing(q)' =>
               \/ Undoing(q) /\ proc'[q].todo \cap proc'[q].gifts \subseteq proc[q].todo \cap proc[q].gifts
               \/ proc'[q].todo \cap proc'[q].gifts \subseteq Holding
      PROVE  IssueInv'
  <2>1. Holding' = Holding
    BY <1>a DEF Holding
  <2> QED
    BY <1>a, <2>1 DEF IssueInv, IssuedCountsGifts
<1>1. ASSUME NEW p \in Runs, NEW m \in Members, AssignGift(p, m)
      PROVE  IssueInv'
  <2>1. \A q \in Cancels : proc'[q] = proc[q]
    BY <1>1, RunsMoveAlone DEF RunStep
  <2>2. /\ member[m] = "pending" /\ item[m] = "none" /\ issued < Limit
        /\ issued' = issued + 1 /\ UNCHANGED others
        /\ item' = [item EXCEPT ![m] = "pending"]
        /\ member' = [member EXCEPT ![m] = "assigned"]
    BY <1>1 DEF AssignGift, StillPending, RegisterIssue, IssueInv
  <2>3. Cardinality(Holding') = Cardinality(Holding) + 1 /\ Holding \subseteq Holding'
    BY <2>2, HoldingCounts DEF Holding, ItemStatus
  <2>4. IssuedCountsGifts'
    BY <1>n, <2>2, <2>3 DEF IssueInv, IssuedCountsGifts
  <2>5. \A i \in Members : member'[i] = "pending" => item'[i] = "none"
    BY <2>2 DEF IssueInv
  <2>6. \A q \in Cancels : Undoing(q)' => proc'[q].todo \cap proc'[q].gifts \subseteq Holding'
    BY <2>1, <2>3 DEF IssueInv, Undoing
  <2> QED
    BY <2>4, <2>5, <2>6 DEF IssueInv
<1>2. ASSUME NEW p \in Runs,
             \/ StartRun(p) \/ LoopEnds(p) \/ SendMessage(p) \/ FinalizeRead(p) \/ FinalizeSave(p)
             \/ TimeLimit(p) \/ Killed(p)
             \/ \E m \in Members : Reject(p, m) \/ LimitExhausted(p, m) \/ PassOver(p, m)
                                     \/ AssignPoints(p, m)
      PROVE  IssueInv'
  <2>1. \A q \in Cancels : proc'[q] = proc[q]
    BY <1>2, RunsMoveAlone DEF RunStep
  <2>2. UNCHANGED <<issued, others, item>>
    BY <1>2 DEF StartRun, LoopEnds, SendMessage, FinalizeRead, FinalizeSave, TimeLimit,
                Killed, Reject, LimitExhausted, PassOver, AssignPoints
  <2>3. \A i \in Members : member'[i] = "pending" => member[i] = "pending"
    BY <1>2 DEF StartRun, LoopEnds, SendMessage, FinalizeRead, FinalizeSave, TimeLimit,
                Killed, Reject, LimitExhausted, PassOver, AssignPoints
  <2> QED
    BY <2>1, <2>2, <2>3, <1>a DEF Undoing
<1>3. ASSUME NEW p \in Cancels,
             proc'[p].pc \in {"pending", "list", "finalize", "save", "done", "lost"},
             \A q \in Cancels : q # p => proc'[q] = proc[q],
             UNCHANGED <<issued, others, item>>,
             \A m \in Members : member'[m] = "pending" => member[m] = "pending"
      PROVE  IssueInv'
  BY <1>3, <1>a DEF Undoing
<1>4. ASSUME NEW p \in Cancels,
             \/ Cancel(p) \/ CancelPending(p) \/ CancelEnds(p) \/ FinalizeRead(p) \/ FinalizeSave(p)
             \/ Killed(p)
      PROVE  IssueInv'
  <2>1. CASE Cancel(p)
    BY <2>1, <1>3, GotoMoves DEF Cancel, Moves
  <2>2. CASE CancelPending(p)
    BY <2>2, <1>3, GotoMoves DEF CancelPending, Moves
  <2>3. CASE CancelEnds(p)
    BY <2>3, <1>3, LeaveMoves DEF CancelEnds, Moves
  <2>4. CASE FinalizeRead(p)
    <3>1. proc'[p].pc = "save" /\ \A q \in Cancels : q # p => proc'[q] = proc[q]
      BY <2>4 DEF FinalizeRead, Proc
    <3> QED
      BY <2>4, <3>1, <1>3 DEF FinalizeRead
  <2>5. CASE FinalizeSave(p)
    BY <2>5, <1>3, LeaveMoves DEF FinalizeSave, Moves
  <2>6. CASE Killed(p)
    BY <2>6, <1>3, LeaveMoves DEF Killed, Moves
  <2> QED
    BY <1>4, <2>1, <2>2, <2>3, <2>4, <2>5, <2>6
<1>5. ASSUME NEW p \in Cancels, CancelList(p)
      PROVE  IssueInv'
  <2>1. UNCHANGED <<issued, others, item, member>>
    BY <1>5 DEF CancelList
  <2>2. proc'[p].gifts \subseteq Holding
    BY <1>5, CancelLists DEF Holding, InStatus
  <2> QED
    BY <1>5, <2>1, <2>2, <1>a, CancelLists DEF Undoing
<1>6. ASSUME NEW p \in Cancels, NEW m \in Members, RevokeGift(p, m)
      PROVE  IssueInv'
  <2>1. /\ Moves(p, "undo") /\ proc'[p].todo = proc[p].todo \ {m} /\ proc'[p].gifts = proc[p].gifts
        /\ proc[p].pc = "undo" /\ m \in proc[p].todo /\ UNCHANGED others
    BY <1>6, VisitedMoves DEF RevokeGift
  <2>2. proc[p].todo \cap proc[p].gifts \subseteq Holding
    BY <2>1 DEF IssueInv, Undoing
  <2>3. CASE m \in proc[p].gifts
    <3>1. /\ item' = [item EXCEPT ![m] = "revoked"] /\ member' = [member EXCEPT ![m] = "cancelled"]
          /\ issued' = IF issued > 0 THEN issued - 1 ELSE issued
      BY <1>6, <2>3 DEF RevokeGift, ReleaseIssue
    <3>2. m \in Holding
      BY <2>1, <2>2, <2>3
    <3>3. Cardinality(Holding') = Cardinality(Holding) - 1 /\ Cardinality(Holding') \in Nat
      <4>1. Cardinality(Holding') = Cardinality(Holding) - 1
        BY <3>1, <3>2, HoldingCounts DEF ItemStatus
      <4>2. IsFiniteSet(Holding')
        BY MembersAssumption, FS_Subset DEF Holding
      <4> QED
        BY <4>1, <4>2, FS_CardinalityType
    <3>4. IssuedCountsGifts'
      BY <1>n, <2>1, <3>1, <3>3 DEF IssueInv, IssuedCountsGifts
    <3>5. \A i \in Members : member'[i] = "pending" => item'[i] = "none"
      BY <3>1 DEF IssueInv
    <3>6. Holding' = Holding \ {m}
      BY <3>1 DEF Holding
    <3>7. \A q \in Cancels : Undoing(q)' => q = p
      BY <2>1 DEF Moves, Undoing, CancelsTakeTurns
    <3>8. proc'[p].todo \cap proc'[p].gifts \subseteq Holding'
      BY <2>1, <2>2, <3>6
    <3> QED
      BY <3>4, <3>5, <3>7, <3>8 DEF IssueInv
  <2>4. CASE m \notin proc[p].gifts
    <3>1. UNCHANGED <<issued, item, member>>
      BY <1>6, <2>4 DEF RevokeGift
    <3> QED
      BY <2>1, <3>1, <1>a DEF Moves, Undoing
  <2> QED
    BY <2>3, <2>4
<1>7. ASSUME NEW p \in Cancels, NEW m \in Members, ReadBalance(p, m)
      PROVE  IssueInv'
  <2>1. proc[p].pc = "undo" /\ UNCHANGED <<issued, others, item, member>>
    BY <1>7 DEF ReadBalance
  <2> QED
    BY <1>7, <2>1, <1>a, BalanceReads DEF Undoing
<1>8. ASSUME NEW p \in Cancels, RefundPoints(p)
      PROVE  IssueInv'
  <2>1. proc[p].pc = "refund" /\ proc[p].at \in Members /\ UNCHANGED <<issued, others, item>>
    BY <1>8 DEF RefundPoints, PcInv
  <2>2. /\ Moves(p, "undo") /\ proc'[p].todo = proc[p].todo \ {proc[p].at}
        /\ proc'[p].gifts = proc[p].gifts
    BY <1>8, <2>1, VisitedMoves DEF RefundPoints
  <2>3. \A i \in Members : member'[i] = "pending" => member[i] = "pending"
    BY <1>8 DEF RefundPoints
  <2> QED
    BY <2>1, <2>2, <2>3, <1>a DEF Undoing, Moves
<1>14. ASSUME NEW p \in Cancels, NEW m \in Members, CancelFails(p, m)
       PROVE  IssueInv'
  <2>1. /\ Moves(p, "undo") /\ proc'[p].todo = proc[p].todo \ {m} /\ proc'[p].gifts = proc[p].gifts
        /\ proc[p].pc \in {"undo", "refund"} /\ UNCHANGED <<issued, others, item, member>>
    BY <1>14, VisitedMoves DEF CancelFails
  <2> QED
    BY <2>1, <1>a DEF Undoing, Moves
<1>9. ASSUME NEW m \in Members, GuestStep(m)
      PROVE  IssueInv'
  <2>1. UNCHANGED <<issued, others, member, proc>>
    BY <1>9 DEF GuestStep, Activate, UseGift, Spend
  <2>2. item' = item \/ (m \in Holding /\ \E s \in {"active", "used"} : item' = [item EXCEPT ![m] = s])
    BY <1>9 DEF GuestStep, Activate, UseGift, Spend, Holding
  <2>3. Holding' = Holding
    BY <2>2 DEF Holding
  <2>4. \A i \in Members : item[i] = "none" => item'[i] = "none"
    BY <2>2 DEF Holding
  <2> QED
    BY <2>1, <2>3, <2>4 DEF IssueInv, IssuedCountsGifts, Undoing
<1>10. ASSUME IssueOther
       PROVE  IssueInv'
  <2>1. /\ issued < Limit /\ issued' = issued + 1 /\ others' = others + 1
        /\ UNCHANGED <<item, member, proc>>
    BY <1>10 DEF IssueOther, RegisterIssue
  <2>2. Holding' = Holding
    BY <2>1 DEF Holding
  <2>3. IssuedCountsGifts'
    BY <1>n, <2>1, <2>2 DEF IssueInv, IssuedCountsGifts
  <2> QED
    BY <2>1, <2>2, <2>3 DEF IssueInv, Undoing
<1>11. ASSUME UNCHANGED vars
       PROVE  IssueInv'
  BY <1>11, <1>a DEF vars, Undoing
<1>12. CASE \E p \in Runs : RunStep(p) \/ TimeLimit(p) \/ Killed(p)
  BY <1>12, <1>1, <1>2 DEF RunStep
<1>13. CASE \E p \in Cancels : CancelStep(p) \/ Killed(p)
  BY <1>13, <1>4, <1>5, <1>6, <1>7, <1>8, <1>14 DEF CancelStep
<1> QED
  BY <1>9, <1>10, <1>11, <1>12, <1>13 DEF Next

----------------------------------------------------------------------------
\* What holds whatever the requests do, and what only while they take turns.
AnyInv   == TypeOK /\ PcInv /\ RewardInv /\ MessageInv /\ CancelInv
TurnsInv == AnyInv /\ RefundInv /\ IssueInv

LEMMA InitInv ==
  ASSUME Init
  PROVE  TurnsInv
<1> USE DEF Init
<1>1. Resting \in Proc /\ Resting.pc = "idle"
  BY RewardAssumption DEF Resting, Proc, CampaignStatus
<1>2. \A m \in Members : Prior[m] \in Nat
  BY RewardAssumption
<1>3. TypeOK
  <2>1. coins \in [Members -> Nat]
    BY <1>2
  <2> QED
    BY <1>1, <2>1 DEF TypeOK, CampaignStatus, MemberStatus, ItemStatus
<1>4. PcInv
  BY <1>1 DEF PcInv
<1>5. \A p \in Runs \cup Cancels : proc[p].pc = "idle"
  BY <1>1
<1>6. RewardInv
  BY DEF RewardInv, RewardedOnce
<1>7. MessageInv
  BY <1>5 DEF MessageInv, MessagesFollowRewards, Sending
<1>8. CancelInv
  BY <1>5 DEF CancelInv
<1>9. RefundInv
  BY <1>5, RewardAssumption DEF RefundInv, RefundWithinReward, Undoing
<1>10. Holding = {} /\ Limit \in Nat
  BY RewardAssumption DEF Holding
<1>11. IssueInv
  BY <1>5, <1>10, FS_EmptySet DEF IssueInv, IssuedCountsGifts, Undoing
<1> QED
  BY <1>3, <1>4, <1>6, <1>7, <1>8, <1>9, <1>11 DEF TurnsInv, AnyInv

LEMMA AnyInvariant == Spec => []AnyInv
<1>1. Init => AnyInv
  BY InitInv DEF TurnsInv
<1>2. AnyInv /\ [Next]_vars => AnyInv'
  BY TypePreserved, RewardPreserved, MessagePreserved, CancelPreserved DEF AnyInv
<1> QED
  BY <1>1, <1>2, PTL DEF Spec

LEMMA TurnsInvariant == Spec /\ []CancelsTakeTurns => []TurnsInv
<1>1. Init => TurnsInv
  BY InitInv
<1>2. TurnsInv /\ CancelsTakeTurns /\ [Next]_vars => TurnsInv'
  BY TypePreserved, RewardPreserved, MessagePreserved, CancelPreserved, RefundPreserved,
     IssuePreserved DEF TurnsInv, AnyInv
<1> QED
  BY <1>1, <1>2, PTL DEF Spec

(* The states of a campaign, its members, rewards and processes have their *)
(* types, however many runs and cancel requests overlap.                   *)
THEOREM TypeCorrect == Spec => []TypeOK
<1>1. AnyInv => TypeOK
  BY DEF AnyInv
<1> QED
  BY <1>1, AnyInvariant, PTL

(* However many runs of a campaign overlap, are interrupted or repeated, a *)
(* member is rewarded once, one of the control group never, and a message  *)
(* leaves for a reward only and once (process_campaign reads the row again *)
(* under its lock).                                                        *)
THEOREM OneRewardOneMessage == Spec => [](RewardedOnce /\ MessagesFollowRewards)
<1>1. AnyInv => RewardedOnce /\ MessagesFollowRewards
  BY DEF AnyInv, RewardInv, MessageInv
<1> QED
  BY <1>1, AnyInvariant, PTL

(* When a request to cancel is over, also if runs and several such         *)
(* requests overlap: nobody waits for a reward (cancel_campaign takes the  *)
(* pending members first), and a member is still assigned only because its *)
(* gift was activated or because cancelling it failed, with the gift, if   *)
(* not activated, where the next request finds it.                         *)
THEOREM CancelCompletes == Spec => []CancelIsComplete
<1>1. AnyInv => CancelIsComplete
  BY DEF AnyInv, CancelInv, Kept, CancelIsComplete, Cancelled, InStatus
<1> QED
  BY <1>1, AnyInvariant, PTL

(* As long as cancel requests take turns with their lists, rewards,        *)
(* messages and refunds of every member add up, whatever runs do.          *)
THEOREM CampaignAddsUp == Spec /\ []CancelsTakeTurns => []RewardsAddUp
<1>1. TurnsInv => RewardsAddUp
  BY DEF TurnsInv, AnyInv, RewardInv, MessageInv, RefundInv, RewardsAddUp
<1> QED
  BY <1>1, TurnsInvariant, PTL

(* As long as cancel requests take turns with their lists, the counter of  *)
(* the catalogue position is the number of gifts that exist, within its    *)
(* limit (register_issue and release_issue).                               *)
THEOREM CounterCountsGifts == Spec /\ []CancelsTakeTurns => []IssuedCountsGifts
<1>1. TurnsInv => IssuedCountsGifts
  BY DEF TurnsInv, IssueInv
<1> QED
  BY <1>1, TurnsInvariant, PTL

(* A single request to cancel, as the runs of the checker have it, always  *)
(* takes turns.                                                            *)
THEOREM OneCancelTakesTurns ==
  ASSUME \A p, q \in Cancels : p = q
  PROVE  Spec => [](RewardsAddUp /\ IssuedCountsGifts)
<1>1. CancelsTakeTurns
  BY DEF CancelsTakeTurns
<1>2. []CancelsTakeTurns
  BY <1>1, PTL
<1> QED
  BY <1>2, CampaignAddsUp, CounterCountsGifts, PTL
=============================================================================
