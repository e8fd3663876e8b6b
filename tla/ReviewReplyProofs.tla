------------------------- MODULE ReviewReplyProofs -------------------------
(***************************************************************************)
(* Theorems about ReviewReply: types, one automatic message, that an       *)
(* answered thread is answered, and that drafted answers know what the     *)
(* guest said, for any number of handlers, workers, staff and scenarios.   *)
(***************************************************************************)
EXTENDS ReviewReply, TLAPS, FiniteSetTheorems, WellFoundedInduction, NaturalsInduction

Words == FromGuest \cup Automatic \cup Answers
Echo  == {"staff", "panel", "reply", "ack"}

\* What the history remembers.
NoteOK ==
  note \in [heard : SUBSET Nat, unrecorded : Nat, echoed : BOOLEAN, missed : BOOLEAN, moot : BOOLEAN,
            lost : BOOLEAN, faults : Nat, acts : Nat]

\* Where a process of each kind may be.
Places(p) == {"idle"}
  \cup (IF p \in Handlers THEN {"store", "classify", "answer"} ELSE {})
  \cup (IF p \in Workers \cup Staff THEN {"llm", "plan", "write", "vk", "row"} ELSE {})
  \cup (IF p \in Staff THEN {"local"} ELSE {})

\* What a process has in hand is in the conversation and of the kind it looks for.
Fits(p, r) ==
  /\ r.pc \in Places(p)
  /\ r.pc = "store" => r.at \in Said(FromGuest)
  /\ r.pc = "classify" => r.at \in Said({"text"})
  /\ r.pc = "answer" => r.at \in Said(Echo)
  /\ r.pc = "write" => r.kind \in Automatic
  /\ r.pc \in {"vk", "row"} => r.kind \in (IF p \in Staff THEN {"panel"} ELSE Automatic)
  /\ r.pc = "row" => r.at \in Said({r.kind})

PcInv == \A p \in Procs : Fits(p, proc[p])

PlanInv == Planned => conv.kind \in Automatic

TypeInv == TypeOK /\ NoteOK /\ PcInv /\ PlanInv

----------------------------------------------------------------------------
\* A set of numbers with an upper bound has a maximum.
LEMMA MaxExists ==
  ASSUME NEW n \in Nat, NEW S \in SUBSET (1 .. n), S # {}
  PROVE  Max(S) \in S /\ \A y \in S : Max(S) >= y
<1> DEFINE Above == {u \in Nat : \A y \in S : y <= u}
<1>1. n \in Above
  OBVIOUS
<1>2. PICK u \in Above : \A v \in Above : ~(<<v, u>> \in OpToRel(<, Nat))
  <2>1. Above \subseteq Nat /\ Above # {}
    BY <1>1
  <2> HIDE DEF Above
  <2> QED
    BY <2>1, NatLessThanWellFounded, WFMin
<1>3. \A v \in Above : ~(v < u)
  BY <1>2 DEF OpToRel
<1>4. u \in S
  <2> SUFFICES ASSUME u \notin S
               PROVE  FALSE
    OBVIOUS
  <2>1. \A y \in S : y \in Nat /\ y < u
    OBVIOUS
  <2>2. PICK y \in S : TRUE
    OBVIOUS
  <2>3. u \in Nat /\ u > 0 /\ u - 1 \in Nat
    BY <2>1, <2>2
  <2>4. u - 1 \in Above
    BY <2>1, <2>3
  <2> QED
    BY <1>3, <2>3, <2>4
<1>5. \E x \in S : \A y \in S : x >= y
  BY <1>4
<1> QED
  BY <1>5 DEF Max

LEMMA MarkIsPair ==
  ASSUME TypeOK
  PROVE  Mark \in Nat \X Nat
<1>1. dialog \in Seq(Words) /\ rows \in Seq(Nat) /\ Len(dialog) \in Nat /\ Len(rows) = Len(dialog)
  BY DEF TypeOK, Words
<1>2. Stored \in SUBSET (1 .. Len(dialog))
  BY <1>1 DEF Stored
<1>3. CASE Stored = {}
  BY <1>3 DEF Mark
<1>4. CASE Stored # {}
  <2>1. Max(Stored) \in 1 .. Len(dialog)
    BY <1>1, <1>2, <1>4, MaxExists
  <2>2. rows[Max(Stored)] \in Nat
    BY <1>1, <2>1
  <2> QED
    BY <1>4, <2>1, <2>2 DEF Mark
<1> QED
  BY <1>3, <1>4

----------------------------------------------------------------------------
(* How the conversation grows.                                             *)
TalkStep ==
  \/ UNCHANGED <<dialog, rows>>
  \/ \E k \in Words : Say(k)
  \/ \E m \in DOMAIN dialog : Keep(m) /\ UNCHANGED dialog
  \/ dialog' = Append(dialog, "local") /\ rows' = Append(rows, 1)

LEMMA TalkGrows ==
  ASSUME TypeOK, TalkStep
  PROVE  /\ dialog' \in Seq(Words) /\ rows' \in Seq(Nat) /\ Len(rows') = Len(dialog')
         /\ \A m \in DOMAIN dialog : m \in DOMAIN dialog' /\ dialog'[m] = dialog[m] /\ rows'[m] \in Nat
         /\ DOMAIN dialog = 1 .. Len(dialog) /\ Len(dialog) \in Nat
<1> USE DEF TypeOK, Words, FromGuest, Automatic, Answers
<1>1. CASE UNCHANGED <<dialog, rows>>
  BY <1>1
<1>2. ASSUME NEW k \in Words, NEW n \in Nat, dialog' = Append(dialog, k), rows' = Append(rows, n)
      PROVE  /\ dialog' \in Seq(Words) /\ rows' \in Seq(Nat) /\ Len(rows') = Len(dialog')
             /\ \A m \in DOMAIN dialog : m \in DOMAIN dialog' /\ dialog'[m] = dialog[m] /\ rows'[m] \in Nat
             /\ DOMAIN dialog = 1 .. Len(dialog) /\ Len(dialog) \in Nat
  BY <1>2
<1>3. ASSUME NEW m \in DOMAIN dialog, Keep(m), UNCHANGED dialog
      PROVE  rows' \in Seq(Nat) /\ Len(rows') = Len(rows)
  BY <1>3 DEF Keep
<1>4. CASE \E k \in Words : Say(k)
  BY <1>2, <1>4 DEF Say
<1>5. CASE dialog' = Append(dialog, "local") /\ rows' = Append(rows, 1)
  BY <1>2, <1>5
<1>6. CASE \E m \in DOMAIN dialog : Keep(m) /\ UNCHANGED dialog
  BY <1>3, <1>6
<1> QED
  BY <1>1, <1>4, <1>5, <1>6 DEF TalkStep

LEMMA SaidGrows ==
  ASSUME TypeOK, TalkStep, NEW K
  PROVE  Said(K) \subseteq Said(K)'
BY TalkGrows DEF Said

LEMMA FitsStays ==
  ASSUME TypeOK, TalkStep, NEW p, NEW r, Fits(p, r)
  PROVE  Fits(p, r)'
BY SaidGrows DEF Fits, Places

----------------------------------------------------------------------------
LEMMA SaidFinite ==
  ASSUME TypeOK, NEW K
  PROVE  IsFiniteSet(Said(K)) /\ Cardinality(Said(K)) \in Nat
<1>1. Said(K) \subseteq 1 .. Len(dialog) /\ Len(dialog) \in Int /\ 1 \in Int
  BY DEF Said, TypeOK
<1>2. IsFiniteSet(1 .. Len(dialog))
  BY <1>1, FS_Interval
<1>3. IsFiniteSet(Said(K))
  BY <1>1, <1>2, FS_Subset
<1> QED
  BY <1>3, FS_CardinalityType

LEMMA ProcsAre ==
  /\ \A p \in Procs : p \in Handlers \/ p \in Workers \/ p \in Staff
  /\ \A p \in Handlers : p \in Procs /\ p \notin Workers /\ p \notin Staff
  /\ \A p \in Workers : p \in Procs /\ p \notin Handlers /\ p \notin Staff
  /\ \A p \in Staff : p \in Procs /\ p \notin Handlers /\ p \notin Workers
BY ProcsAssumption DEF Procs

LEMMA TalkSteps ==
  ASSUME TypeInv, Steps
  PROVE  TalkStep
<1> USE DEF TypeInv, TypeOK, NoteOK
<1>1. CASE GuestWrites
  <2> DEFINE n == Cardinality(Said(FromGuest))
  <2>1. n < Len(scenario.guest) /\ Say(scenario.guest[n + 1])
    BY <1>1 DEF GuestWrites
  <2>2. scenario.guest \in Seq(FromGuest)
    BY ScenariosAssumption DEF Scenario
  <2>3. n \in Nat
    BY SaidFinite
  <2> HIDE DEF n
  <2>4. scenario.guest[n + 1] \in FromGuest
    BY <2>1, <2>2, <2>3
  <2> QED
    BY <2>1, <2>4 DEF TalkStep, Words
<1>2. CASE StaffWriteInVk
  BY <1>2 DEF StaffWriteInVk, TalkStep, Words, Answers
<1>3. CASE DebounceEnds \/ Reclassify \/ Reclassified
  BY <1>3 DEF DebounceEnds, Reclassify, Reclassified, TalkStep
<1>4. ASSUME NEW h \in Handlers, NEW m \in DOMAIN dialog, TakeGuest(h, m) \/ NoteAnswer(h, m)
      PROVE  TalkStep
  BY <1>4 DEF TakeGuest, NoteAnswer, TalkStep
<1>5. ASSUME NEW h \in Handlers, Store(h) \/ Classify(h) \/ ClassifyFails(h) \/ MarkAnswered(h) \/ EnqueueFails(h)
      PROVE  TalkStep
  <2>1. CASE Store(h)
    <3>1. proc[h].at \in DOMAIN dialog
      BY <1>5, <2>1, ProcsAre DEF Store, At, PcInv, Fits, Said
    <3> QED
      BY <2>1, <3>1 DEF Store, TalkStep
  <2> QED
    BY <1>5, <2>1 DEF Classify, ClassifyFails, MarkAnswered, EnqueueFails, TalkStep
<1>6. ASSUME NEW p \in Workers \cup Staff, VkAccepts(p) \/ AnswerLost(p)
      PROVE  TalkStep
  <2>1. p \in Procs /\ proc[p].pc = "vk"
    BY <1>6, ProcsAre DEF VkAccepts, AnswerLost, At
  <2>2. proc[p].kind \in Words
    BY <2>1 DEF PcInv, Fits, Words, Automatic, Answers
  <2> QED
    BY <1>6, <2>2 DEF VkAccepts, AnswerLost, TalkStep
<1>7. ASSUME NEW p \in Workers \cup Staff, Row(p)
      PROVE  TalkStep
  <2>1. proc[p].at \in DOMAIN dialog
    BY <1>7, ProcsAre DEF Row, At, PcInv, Fits, Said
  <2> QED
    BY <1>7, <2>1 DEF Row, TalkStep
<1>8. ASSUME NEW p \in Workers \cup Staff,
             PlanRead(p) \/ NoPlan(p) \/ PlanWrite(p) \/ PlanFails(p) \/ PlanCutOff(p) \/ VkRefuses(p)
      PROVE  TalkStep
  BY <1>8 DEF PlanRead, NoPlan, PlanWrite, PlanFails, PlanCutOff, VkRefuses, TalkStep
<1>9. ASSUME NEW w \in Workers, DraftStart(w) \/ DraftSave(w) \/ DraftFails(w) \/ Killed(w)
      PROVE  TalkStep
  BY <1>9 DEF DraftStart, DraftSave, DraftFails, Killed, TalkStep
<1>10. ASSUME NEW w \in Workers, NEW k \in Tickets,
              TaskEnds(w, k) \/ TaskRefused(w, k) \/ TaskSends(w, k) \/ TaskPostponed(w, k)
       PROVE  TalkStep
  BY <1>10 DEF TaskEnds, TaskRefused, TaskSends, TaskPostponed, TalkStep
<1>11. ASSUME NEW k \in Tickets, Redelivered(k)
       PROVE  TalkStep
  BY <1>11 DEF Redelivered, TalkStep
<1>12. ASSUME NEW s \in Staff,
              \/ PanelStart(s) \/ CancelPlan(s) \/ RejectDraft(s) \/ RegenStart(s)
              \/ RegenSave(s) \/ RegenFails(s) \/ KeepLocally(s) \/ GiveUp(s)
       PROVE  TalkStep
  BY <1>12 DEF PanelStart, CancelPlan, RejectDraft, RegenStart, RegenSave, RegenFails, KeepLocally,
     GiveUp, TalkStep
<1> QED
  BY <1>1, <1>2, <1>3, <1>4, <1>5, <1>6, <1>7, <1>8, <1>9, <1>10, <1>11, <1>12
  DEF Steps, Fails, Handle, Work, Act, Finish, Plan, Send

LEMMA ScenarioStays ==
  ASSUME Steps
  PROVE  scenario' = scenario
BY DEF Steps, GuestWrites, StaffWriteInVk, DebounceEnds, Reclassify, Reclassified, Fails, Handle, Work,
   Act, Finish, Plan, Send, TakeGuest, NoteAnswer, Store, Classify, ClassifyFails, MarkAnswered,
   EnqueueFails, PlanRead, NoPlan, PlanWrite, PlanFails, PlanCutOff, VkAccepts, VkRefuses, AnswerLost,
   Row, DraftStart, DraftSave, DraftFails, Killed, TaskEnds, TaskRefused, TaskSends, TaskPostponed,
   Redelivered, PanelStart, CancelPlan, RejectDraft, RegenStart, RegenSave, RegenFails, KeepLocally,
   GiveUp

LEMMA ConvPreserved ==
  ASSUME TypeInv, Steps
  PROVE  /\ conv' \in Conv /\ (conv'.rejected => conv'.ver > 0)
         /\ conv'.status = "scheduled" => conv'.kind \in Automatic
<1> DEFINE Fine(c) == c \in Conv /\ (c.rejected => c.ver > 0) /\ (c.status = "scheduled" => c.kind \in Automatic)
<1>c. Fine(conv)
  BY DEF TypeInv, TypeOK, PlanInv, Planned
<1>j. \A c \in Judged : Fine(c)
  <2>1. scenario \in Scenario
    BY ScenariosAssumption DEF TypeInv, TypeOK
  <2>2. scenario.moods \subseteq Moods
    BY <2>1 DEF Scenario
  <2>3. ASSUME NEW s \in Moods
        PROVE  Fine([conv EXCEPT !.mood = s])
    BY <1>c DEF Conv
  <2> HIDE DEF Fine
  <2> QED
    BY <2>2, <2>3 DEF Judged
<1>w. ASSUME NEW c, NEW b, Fine(c)
      PROVE  Fine(Withdrawn(c, b))
  <2>1. Fine([c EXCEPT !.status = "cancelled"])
    BY <1>w DEF Conv
  <2> HIDE DEF Fine
  <2> QED
    BY <1>w, <2>1 DEF Withdrawn
<1>t. \A s \in {"sent", "cancelled", "skipped", "failed", ""} : Fine([conv EXCEPT !.status = s])
  BY <1>c DEF Conv
<1>r. \A b \in BOOLEAN : Fine([conv EXCEPT !.replied = b])
  BY <1>c DEF Conv
<1>k. ASSUME NEW p \in Procs, proc[p].pc = "write"
      PROVE  Fine(PlanOf(p)) /\ Fine([PlanOf(p) EXCEPT !.status = ""])
  <2>1. proc[p] \in Proc /\ proc[p].kind \in Automatic
    BY <1>k DEF TypeInv, TypeOK, PcInv, Fits
  <2> QED
    BY <1>c, <2>1 DEF PlanOf, Conv, Proc
<1> HIDE DEF Fine
<1> SUFFICES Fine(conv')
  BY DEF Fine
<1>1. CASE UNCHANGED conv
  BY <1>c, <1>1
<1>2. ASSUME NEW h \in Handlers, Store(h) \/ MarkAnswered(h)
      PROVE  Fine(conv')
  BY <1>2, <1>r, <1>w DEF Store, MarkAnswered
<1>3. ASSUME NEW h \in Handlers, Classify(h) \/ EnqueueFails(h)
      PROVE  Fine(conv')
  <2>1. PICK c \in Judged : conv' = Withdrawn(c, TRUE) \/ conv' = c
    BY <1>3 DEF Classify, EnqueueFails, PlanDropped
  <2> QED
    BY <1>j, <1>w, <2>1
<1>4. CASE Reclassified
  BY <1>4, <1>c, <1>j DEF Reclassified
<1>5. ASSUME NEW w \in Workers, DraftSave(w)
      PROVE  Fine(conv')
  <2>1. proc[w] \in Proc
    BY ProcsAre DEF TypeInv, TypeOK
  <2>2. proc[w].mark \in Nat \X Nat /\ proc[w].saw \in SUBSET Nat
    BY <2>1 DEF Proc
  <2>3. conv \in Conv /\ conv.ver + 1 \in Nat /\ conv.gens + 1 \in Nat
        /\ (conv.status = "scheduled" => conv.kind \in Automatic)
    <3>1. conv \in Conv /\ (conv.status = "scheduled" => conv.kind \in Automatic)
      BY <1>c DEF Fine
    <3>2. conv.ver \in Nat /\ conv.gens \in Nat
      BY <3>1 DEF Conv
    <3> QED
      BY <3>1, <3>2
  <2>4. conv' = [conv EXCEPT !.ver = conv.ver + 1, !.of = proc[w].mark, !.saw = proc[w].saw,
                             !.rejected = FALSE, !.gens = conv.gens + 1]
    BY <1>5 DEF DraftSave
  <2>5. conv' \in Conv
    BY <2>2, <2>3, <2>4 DEF Conv
  <2>6. conv'.rejected = FALSE /\ conv'.status = conv.status /\ conv'.kind = conv.kind
    BY <2>3, <2>4 DEF Conv
  <2> QED
    BY <2>3, <2>5, <2>6 DEF Fine
<1>6. ASSUME NEW p \in Workers \cup Staff, NoPlan(p) \/ VkRefuses(p) \/ AnswerLost(p)
      PROVE  Fine(conv')
  BY <1>6, <1>c, <1>t DEF NoPlan, VkRefuses, AnswerLost, NotSent, SetStatus
<1>7. ASSUME NEW p \in Workers \cup Staff, PlanWrite(p) \/ PlanFails(p) \/ PlanCutOff(p)
      PROVE  Fine(conv')
  BY <1>7, <1>k, ProcsAre DEF PlanWrite, PlanFails, PlanCutOff, Rollback, At
<1>8. ASSUME NEW w \in Workers, NEW k \in Tickets, TaskRefused(w, k)
      PROVE  Fine(conv')
  BY <1>8, <1>t DEF TaskRefused, SetStatus
<1>9. ASSUME NEW p \in Workers \cup Staff, Row(p)
      PROVE  Fine(conv')
  <2> DEFINE a == [conv EXCEPT !.replied = @ \/ Replies(p)]
  <2>1. Fine(a)
    BY <1>c DEF Fine, Conv, Replies
  <2>2. Fine([a EXCEPT !.aiRow = TRUE, !.status = "sent"])
    BY <2>1 DEF Fine, Conv
  <2> HIDE DEF a
  <2>3. conv' = IF p \in Staff THEN Withdrawn(a, proc[p].was) ELSE [a EXCEPT !.aiRow = TRUE, !.status = "sent"]
    BY <1>9 DEF Row, a
  <2> QED
    BY <1>w, <2>1, <2>2, <2>3
<1>10. ASSUME NEW s \in Staff, CancelPlan(s) \/ RejectDraft(s) \/ KeepLocally(s)
       PROVE  Fine(conv')
  <2>1. HasDraft => Fine([conv EXCEPT !.rejected = TRUE])
    BY <1>c DEF HasDraft, Fine, Conv
  <2> QED
    BY <1>10, <1>c, <1>w, <1>r, <2>1 DEF CancelPlan, RejectDraft, KeepLocally
<1>11. ASSUME NEW s \in Staff, RegenSave(s)
       PROVE  Fine(conv')
  <2> DEFINE a == [conv EXCEPT !.ver = @ + 1, !.saw = proc[s].saw, !.rejected = FALSE]
  <2>1. proc[s] \in Proc
    BY ProcsAre DEF TypeInv, TypeOK
  <2>2. Fine(a)
    <3>1. conv \in Conv /\ conv.ver + 1 \in Nat /\ (conv.status = "scheduled" => conv.kind \in Automatic)
      <4>1. conv \in Conv /\ (conv.status = "scheduled" => conv.kind \in Automatic)
        BY <1>c DEF Fine
      <4>2. conv.ver \in Nat
        BY <4>1 DEF Conv
      <4> QED
        BY <4>1, <4>2
    <3>2. proc[s].saw \in SUBSET Nat
      BY <2>1 DEF Proc
    <3>3. a \in Conv
      BY <3>1, <3>2 DEF Conv
    <3>4. a.rejected = FALSE /\ a.status = conv.status /\ a.kind = conv.kind
      BY <3>1 DEF Conv
    <3> QED
      BY <3>1, <3>3, <3>4 DEF Fine
  <2> HIDE DEF a
  <2>3. conv' = Withdrawn(a, proc[s].was)
    BY <1>11 DEF RegenSave, a
  <2> QED
    BY <1>w, <2>2, <2>3
<1>12. ASSUME NEW h \in Handlers, ClassifyFails(h) \/ \E m \in DOMAIN dialog : TakeGuest(h, m) \/ NoteAnswer(h, m)
       PROVE  UNCHANGED conv
  BY <1>12 DEF ClassifyFails, TakeGuest, NoteAnswer
<1>13. ASSUME NEW p \in Workers \cup Staff, PlanRead(p) \/ VkAccepts(p)
       PROVE  UNCHANGED conv
  BY <1>13 DEF PlanRead, VkAccepts
<1>14. ASSUME NEW w \in Workers, \/ DraftStart(w) \/ DraftFails(w) \/ Killed(w)
              \/ \E k \in Tickets : TaskEnds(w, k) \/ TaskSends(w, k) \/ TaskPostponed(w, k)
       PROVE  UNCHANGED conv
  BY <1>14 DEF DraftStart, DraftFails, Killed, TaskEnds, TaskSends, TaskPostponed
<1>15. ASSUME NEW s \in Staff, PanelStart(s) \/ RegenStart(s) \/ RegenFails(s) \/ GiveUp(s)
       PROVE  UNCHANGED conv
  BY <1>15 DEF PanelStart, RegenStart, RegenFails, GiveUp
<1>16. CASE \/ GuestWrites \/ StaffWriteInVk \/ DebounceEnds \/ Reclassify \/ \E k \in Tickets : Redelivered(k)
  BY <1>16, <1>1 DEF GuestWrites, StaffWriteInVk, DebounceEnds, Reclassify, Redelivered
<1> QED
  BY <1>1, <1>2, <1>3, <1>4, <1>5, <1>6, <1>7, <1>8, <1>9, <1>10, <1>11, <1>12, <1>13, <1>14, <1>15, <1>16
  DEF Steps, Fails, Handle, Work, Act, Finish, Plan, Send

LEMMA QueuePreserved ==
  ASSUME TypeInv, Steps
  PROVE  queue' \in Queue'
<1>q. queue \in Queue
  BY DEF TypeInv, TypeOK
<1>s. Queue' = Queue
  BY ScenarioStays DEF Queue, Tickets
<1>m. ASSUME NEW k
      PROVE  [queue EXCEPT !.tasks[k] = @ + 1] \in Queue
  <2>1. queue.tasks \in [Tickets -> Nat]
    BY <1>q DEF Queue
  <2> DEFINE t == queue.tasks
  <2> HIDE DEF t
  <2>2. [t EXCEPT ![k] = t[k] + 1] \in [Tickets -> Nat]
    <3>1. CASE k \in Tickets
      <4>1. t \in [Tickets -> Nat] /\ t[k] + 1 \in Nat
        BY <2>1, <3>1 DEF t
      <4> QED
        BY <4>1
    <3>2. CASE k \notin Tickets
      <4>1. t \in [Tickets -> Nat] /\ [t EXCEPT ![k] = t[k] + 1] = t
        BY <2>1, <3>2 DEF t
      <4> QED
        BY <4>1
    <3> QED
      BY <3>1, <3>2
  <2>3. [queue EXCEPT !.tasks[k] = @ + 1] = [queue EXCEPT !.tasks = [t EXCEPT ![k] = t[k] + 1]]
    BY <1>q DEF Queue, t
  <2> QED
    BY <1>q, <2>2, <2>3 DEF Queue
<1>l. ASSUME NEW k \in Tickets, queue.tasks[k] > 0
      PROVE  [queue EXCEPT !.tasks[k] = @ - 1] \in Queue
  <2>1. queue.tasks \in [Tickets -> Nat] /\ queue.tasks[k] \in Nat
    BY <1>q DEF Queue
  <2>2. [queue.tasks EXCEPT ![k] = queue.tasks[k] - 1] \in [Tickets -> Nat]
    BY <1>l, <2>1
  <2> QED
    BY <1>q, <2>2 DEF Queue
<1>e. queue.due \in Nat /\ queue.regen \in {"none", "waits", "lost"}
  BY <1>q DEF Queue
<1>d. /\ \A n \in Nat : [queue EXCEPT !.due = n] \in Queue
      /\ \A r \in {"none", "waits", "lost"} : [queue EXCEPT !.regen = r] \in Queue
      /\ \A r \in {"none", "waits", "lost"}, n \in Nat : [queue EXCEPT !.regen = r, !.due = n] \in Queue
      /\ \A b \in BOOLEAN : [queue EXCEPT !.again = b] \in Queue
      /\ \A b \in BOOLEAN, n \in Nat : [queue EXCEPT !.again = b, !.due = n] \in Queue
  BY <1>q DEF Queue
<1> SUFFICES queue' \in Queue
  BY <1>s
<1>1. CASE UNCHANGED queue
  BY <1>q, <1>1
<1>2. ASSUME NEW h \in Handlers, Classify(h) \/ EnqueueFails(h)
      PROVE  queue' \in Queue
  <2> DEFINE n == queue.due + 1
             r == IF queue.regen = "none" THEN "waits" ELSE queue.regen
             l == IF queue.regen = "none" THEN "lost" ELSE queue.regen
  <2>1. n \in Nat /\ r \in {"none", "waits", "lost"} /\ l \in {"none", "waits", "lost"}
    BY <1>e
  <2>2. \/ UNCHANGED queue
        \/ queue' = [queue EXCEPT !.due = n]
        \/ queue' = [queue EXCEPT !.regen = r]
        \/ queue' = [queue EXCEPT !.regen = l]
    BY <1>2 DEF Classify, EnqueueFails
  <2> HIDE DEF n, r, l
  <2> QED
    BY <1>q, <1>d, <2>1, <2>2
<1>3. CASE DebounceEnds \/ Reclassify \/ Reclassified
  <2> DEFINE n == queue.due + 1
  <2>1. n \in Nat
    BY <1>e
  <2>2. \/ queue' = [queue EXCEPT !.regen = "none", !.due = n]
        \/ queue' = [queue EXCEPT !.regen = "none", !.due = queue.due]
        \/ queue' = [queue EXCEPT !.again = TRUE]
        \/ queue' = [queue EXCEPT !.again = FALSE]
        \/ queue' = [queue EXCEPT !.again = FALSE, !.due = n]
    BY <1>3 DEF DebounceEnds, Reclassify, Reclassified
  <2> HIDE DEF n
  <2> QED
    BY <1>d, <1>e, <2>1, <2>2
<1>4. ASSUME NEW w \in Workers, DraftStart(w)
      PROVE  queue' \in Queue
  <2> DEFINE n == queue.due - 1
  <2>1. queue' = [queue EXCEPT !.due = n] /\ queue.due > 0
    BY <1>4 DEF DraftStart
  <2>2. n \in Nat
    BY <1>e, <2>1
  <2> HIDE DEF n
  <2> QED
    BY <1>d, <2>1, <2>2
<1>5. ASSUME NEW p \in Workers \cup Staff, PlanWrite(p)
      PROVE  queue' \in Queue
  BY <1>5, <1>m DEF PlanWrite, MoreTasks
<1>6. ASSUME NEW w \in Workers, NEW k \in Tickets,
             TaskEnds(w, k) \/ TaskRefused(w, k) \/ TaskSends(w, k) \/ TaskPostponed(w, k)
      PROVE  queue' \in Queue
  BY <1>6, <1>l, <1>q DEF TaskEnds, TaskRefused, TaskSends, TaskPostponed, Take, OneLess
<1>7. ASSUME NEW k \in Tickets, Redelivered(k)
      PROVE  queue' \in Queue
  BY <1>7, <1>m DEF Redelivered, MoreTasks
<1>8. ASSUME NEW h \in Handlers, \/ Store(h) \/ ClassifyFails(h) \/ MarkAnswered(h)
                                 \/ \E m \in DOMAIN dialog : TakeGuest(h, m) \/ NoteAnswer(h, m)
      PROVE  UNCHANGED queue
  BY <1>8 DEF Store, ClassifyFails, MarkAnswered, TakeGuest, NoteAnswer
<1>9. ASSUME NEW p \in Workers \cup Staff,
             \/ PlanRead(p) \/ NoPlan(p) \/ PlanFails(p) \/ PlanCutOff(p)
             \/ VkAccepts(p) \/ VkRefuses(p) \/ AnswerLost(p) \/ Row(p)
      PROVE  UNCHANGED queue
  BY <1>9 DEF PlanRead, NoPlan, PlanFails, PlanCutOff, VkAccepts, VkRefuses, AnswerLost, Row
<1>10. ASSUME NEW w \in Workers, DraftSave(w) \/ DraftFails(w) \/ Killed(w)
       PROVE  UNCHANGED queue
  BY <1>10 DEF DraftSave, DraftFails, Killed
<1>11. ASSUME NEW s \in Staff,
              \/ PanelStart(s) \/ CancelPlan(s) \/ RejectDraft(s) \/ RegenStart(s)
              \/ RegenSave(s) \/ RegenFails(s) \/ KeepLocally(s) \/ GiveUp(s)
       PROVE  UNCHANGED queue
  BY <1>11 DEF PanelStart, CancelPlan, RejectDraft, RegenStart, RegenSave, RegenFails, KeepLocally, GiveUp
<1>12. CASE GuestWrites \/ StaffWriteInVk
  BY <1>12, <1>1 DEF GuestWrites, StaffWriteInVk
<1> QED
  BY <1>1, <1>2, <1>3, <1>4, <1>5, <1>6, <1>7, <1>8, <1>9, <1>10, <1>11, <1>12
  DEF Steps, Fails, Handle, Work, Act, Finish, Plan, Send

----------------------------------------------------------------------------
LEMMA NotePreserved ==
  ASSUME TypeInv, Steps
  PROVE  NoteOK' /\ note'.heard \subseteq Said({"text"})' /\ note'.faults \in 0 .. scenario'.faults
<1> DEFINE Right(n) ==
      /\ n \in [heard : SUBSET Nat, unrecorded : Nat, echoed : BOOLEAN, missed : BOOLEAN, moot : BOOLEAN,
                lost : BOOLEAN, faults : Nat, acts : Nat]
      /\ n.heard \subseteq Said({"text"}) /\ n.faults \in 0 .. scenario.faults
<1>n. Right(note)
  BY DEF TypeInv, TypeOK, NoteOK
<1>g. Said({"text"}) \subseteq Said({"text"})' /\ scenario' = scenario
  BY TalkSteps, SaidGrows, ScenarioStays DEF TypeInv
<1>f. scenario.faults \in Nat
  BY ScenariosAssumption DEF TypeInv, TypeOK, Scenario
<1>s. Said({"text"}) \in SUBSET Nat
  BY DEF Said, TypeInv, TypeOK
<1>u. ASSUME NEW n, Right(n)
      PROVE  /\ \A m \in Said({"text"}) : Right([n EXCEPT !.heard = @ \cup {m}])
             /\ \A b \in BOOLEAN : Right([n EXCEPT !.echoed = b])
             /\ \A b \in BOOLEAN : Right([n EXCEPT !.missed = b])
             /\ \A b \in BOOLEAN : Right([n EXCEPT !.moot = b])
             /\ \A b \in BOOLEAN : Right([n EXCEPT !.lost = b])
             /\ n.unrecorded \in Nat /\ Right([n EXCEPT !.unrecorded = n.unrecorded + 1])
             /\ n.acts \in Nat /\ Right([n EXCEPT !.acts = n.acts + 1])
             /\ n.faults \in Nat /\ (n.faults < scenario.faults => Right([n EXCEPT !.faults = n.faults + 1]))
             /\ n.missed \in BOOLEAN /\ n.lost \in BOOLEAN /\ n.echoed \in BOOLEAN
  BY <1>u, <1>f, <1>s
<1> HIDE DEF Right
<1>a. Right(Acted)
  BY <1>n, <1>u DEF Acted
<1>b. Fault => Right(Faulty) /\ Right([Faulty EXCEPT !.lost = TRUE])
               /\ Right([Faulty EXCEPT !.unrecorded = note.unrecorded + 1])
  <2> SUFFICES ASSUME Fault PROVE Right(Faulty) /\ Right([Faulty EXCEPT !.lost = TRUE])
                                   /\ Right([Faulty EXCEPT !.unrecorded = note.unrecorded + 1])
    OBVIOUS
  <2>1. Right(Faulty)
    BY <1>n, <1>u DEF Fault, Faulty
  <2>2. Faulty.unrecorded = note.unrecorded
    BY <1>n DEF Faulty, Right
  <2> QED
    BY <1>u, <2>1, <2>2
<1> SUFFICES Right(note')
  BY <1>g DEF NoteOK, Right
<1>1. CASE UNCHANGED note
  BY <1>n, <1>1
<1>2. ASSUME NEW h \in Handlers, Classify(h) \/ EnqueueFails(h)
      PROVE  Right(note')
  <2>1. proc[h].at \in Said({"text"})
    BY <1>2, ProcsAre DEF Classify, EnqueueFails, At, TypeInv, PcInv, Fits
  <2>2. Right(Heard(h)) /\ Heard(h).faults = note.faults
    BY <1>n, <1>u, <2>1 DEF Heard, Right
  <2>3. CASE Classify(h)
    BY <2>2, <2>3 DEF Classify
  <2>4. CASE EnqueueFails(h)
    <3> DEFINE n == [Heard(h) EXCEPT !.missed = TRUE]
    <3>1. Right(n) /\ n.faults = note.faults
      BY <1>u, <2>2 DEF Right
    <3>2. note' = [n EXCEPT !.faults = n.faults + 1] /\ n.faults < scenario.faults
      BY <2>4, <3>1 DEF EnqueueFails, Fault
    <3> HIDE DEF n
    <3> QED
      BY <1>u, <3>1, <3>2
  <2> QED
    BY <1>2, <2>3, <2>4
<1>3. ASSUME NEW h \in Handlers, NEW m \in DOMAIN dialog, NoteAnswer(h, m)
      PROVE  Right(note')
  BY <1>3, <1>n, <1>u DEF NoteAnswer
<1>4. ASSUME NEW w \in Workers, DraftStart(w) \/ DraftFails(w)
      PROVE  Right(note')
  <2> DEFINE m == note.missed \/ (Wanted /\ CapReached)
             o == note.moot \/ (conv.replied /\ Stale)
             a == [note EXCEPT !.missed = m]
             b == [a EXCEPT !.moot = o]
  <2>1. m \in BOOLEAN /\ o \in BOOLEAN
    OBVIOUS
  <2>2. CASE DraftStart(w)
    <3>1. note' = [note EXCEPT !.missed = m, !.moot = note.moot \/ (conv.replied /\ Stale)]
      BY <2>2 DEF DraftStart
    <3> HIDE DEF m
    <3>2. note' = b
      BY <1>n, <3>1 DEF Right
    <3> HIDE DEF o
    <3>3. Right(a)
      BY <1>n, <1>u, <2>1
    <3> HIDE DEF a
    <3> QED
      BY <1>u, <2>1, <3>2, <3>3
  <2>3. CASE DraftFails(w)
    BY <1>n, <1>u, <2>3 DEF DraftFails
  <2> QED
    BY <1>4, <2>2, <2>3
<1>5. ASSUME NEW p \in Workers \cup Staff, PlanFails(p) \/ PlanCutOff(p) \/ AnswerLost(p)
      PROVE  Right(note')
  <2>1. Faulty.unrecorded = note.unrecorded
    BY <1>n DEF Faulty, Right
  <2> QED
    BY <1>5, <1>b, <2>1 DEF PlanFails, PlanCutOff, AnswerLost
<1>6. ASSUME NEW w \in Workers, NEW k \in Tickets, TaskPostponed(w, k)
      PROVE  Right(note')
  BY <1>6, <1>b DEF TaskPostponed
<1>7. ASSUME NEW k \in Tickets, Redelivered(k)
      PROVE  Right(note')
  BY <1>7, <1>b DEF Redelivered
<1>8. ASSUME NEW w \in Workers, Killed(w)
      PROVE  Right(note')
  <2> DEFINE m == Faulty.missed \/ At(w, "llm")
             l == Faulty.lost \/ At(w, "vk") \/ At(w, "row")
             a == [Faulty EXCEPT !.missed = m]
             b == [a EXCEPT !.lost = l]
             c == [b EXCEPT !.unrecorded = b.unrecorded + 1]
  <2>1. Right(Faulty) /\ m \in BOOLEAN /\ l \in BOOLEAN
    BY <1>8, <1>b, <1>u DEF Killed
  <2>2. note' = b \/ note' = c
    <3>1. Right(Faulty) => Faulty \in [heard : SUBSET Nat, unrecorded : Nat, echoed : BOOLEAN,
                      missed : BOOLEAN, moot : BOOLEAN, lost : BOOLEAN, faults : Nat, acts : Nat]
      BY DEF Right
    <3> HIDE DEF m, l
    <3>2. Faulty.unrecorded = b.unrecorded /\ a.lost = Faulty.lost
      BY <2>1, <3>1
    <3>3. note' = [Faulty EXCEPT !.missed = m, !.lost = l,
                      !.unrecorded = IF At(w, "row") THEN @ + 1 ELSE @]
      BY <1>8 DEF Killed, m, l
    <3> QED
      BY <2>1, <3>1, <3>2, <3>3
  <2> HIDE DEF m, l
  <2>3. Right(a)
    BY <1>u, <2>1
  <2> HIDE DEF a
  <2>4. Right(b)
    BY <1>u, <2>1, <2>3
  <2> HIDE DEF b
  <2>5. Right(c)
    BY <1>u, <2>4
  <2> QED
    BY <2>2, <2>4, <2>5
<1>9. ASSUME NEW s \in Staff, PanelStart(s) \/ CancelPlan(s) \/ RejectDraft(s) \/ RegenStart(s)
      PROVE  Right(note')
  BY <1>9, <1>a DEF PanelStart, CancelPlan, RejectDraft, RegenStart
<1>10. CASE StaffWriteInVk
  BY <1>10, <1>a DEF StaffWriteInVk
<1>11. ASSUME NEW h \in Handlers, Store(h) \/ ClassifyFails(h) \/ MarkAnswered(h)
                                  \/ \E m \in DOMAIN dialog : TakeGuest(h, m)
       PROVE  UNCHANGED note
  BY <1>11 DEF Store, ClassifyFails, MarkAnswered, TakeGuest
<1>12. ASSUME NEW p \in Workers \cup Staff,
              PlanRead(p) \/ NoPlan(p) \/ PlanWrite(p) \/ VkAccepts(p) \/ VkRefuses(p) \/ Row(p)
       PROVE  UNCHANGED note
  BY <1>12 DEF PlanRead, NoPlan, PlanWrite, VkAccepts, VkRefuses, Row
<1>13. ASSUME NEW w \in Workers,
              DraftSave(w) \/ \E k \in Tickets : TaskEnds(w, k) \/ TaskRefused(w, k) \/ TaskSends(w, k)
       PROVE  UNCHANGED note
  BY <1>13 DEF DraftSave, TaskEnds, TaskRefused, TaskSends
<1>14. ASSUME NEW s \in Staff, RegenSave(s) \/ RegenFails(s) \/ KeepLocally(s) \/ GiveUp(s)
       PROVE  UNCHANGED note
  BY <1>14 DEF RegenSave, RegenFails, KeepLocally, GiveUp
<1>15. CASE GuestWrites \/ DebounceEnds \/ Reclassify \/ Reclassified
  BY <1>15, <1>1 DEF GuestWrites, DebounceEnds, Reclassify, Reclassified
<1> QED
  BY <1>1, <1>2, <1>3, <1>4, <1>5, <1>6, <1>7, <1>8, <1>9, <1>10, <1>11, <1>12, <1>13, <1>14, <1>15
  DEF Steps, Fails, Handle, Work, Act, Finish, Plan, Send

----------------------------------------------------------------------------
LEMMA RestingFits ==
  ASSUME NEW p \in Procs
  PROVE  Resting \in Proc /\ Fits(p, Resting)
BY DEF Resting, Proc, Fits, Places

LEMMA ProcPreserved ==
  ASSUME TypeInv, Steps
  PROVE  proc' \in [Procs -> Proc] /\ PcInv'
<1> DEFINE Good == proc' \in [Procs -> Proc] /\ PcInv'
<1>t. TypeOK /\ TalkStep /\ proc \in [Procs -> Proc] /\ PcInv
  BY TalkSteps DEF TypeInv, TypeOK
<1>o. \A q \in Procs : Fits(q, proc[q])'  \/ proc'[q] # proc[q]
  <2>1. ASSUME NEW q \in Procs, NEW r, r = proc[q]
        PROVE  Fits(q, r)'
    BY <1>t, <2>1, FitsStays DEF PcInv
  <2> QED
    BY <2>1 DEF Fits
<1>b. ASSUME NEW p \in Procs, NEW r \in Proc, proc' = [proc EXCEPT ![p] = r], Fits(p, r)'
      PROVE  Good
  <2>1. proc' \in [Procs -> Proc]
    BY <1>b, <1>t
  <2>2. ASSUME NEW q \in Procs
        PROVE  Fits(q, proc[q])'
    <3>1. CASE q = p
      <4>1. proc'[q] = r
        BY <1>b, <1>t, <3>1
      <4> QED
        BY <1>b, <3>1, <4>1 DEF Fits
    <3>2. CASE q # p
      <4>1. proc'[q] = proc[q]
        BY <1>b, <1>t, <3>2
      <4> QED
        BY <1>o, <4>1
    <3> QED
      BY <3>1, <3>2
  <2> QED
    BY <2>1, <2>2 DEF PcInv
<1>c. ASSUME NEW p \in Procs, NEW r \in Proc, proc' = [proc EXCEPT ![p] = r], Fits(p, r)
      PROVE  Good
  BY <1>b, <1>c, <1>t, FitsStays
<1>u. ASSUME UNCHANGED proc
      PROVE  Good
  BY <1>o, <1>t, <1>u DEF PcInv
<1>r. ASSUME NEW p \in Procs, Rest(p)
      PROVE  Good
  BY <1>c, <1>r, RestingFits DEF Rest, Be
<1> SUFFICES Good
  OBVIOUS
<1> HIDE DEF Good
<1>d. Stored \in SUBSET Nat /\ Mark \in Nat \X Nat
  BY <1>t, MarkIsPair DEF Stored, TypeOK
<1>a. ASSUME NEW w \in Workers, AckInstead(w)
      PROVE  Good
  <2> DEFINE r == [Resting EXCEPT !.pc = "plan"]
  <2>1. r \in Proc /\ Fits(w, r) /\ w \in Procs
    BY ProcsAre DEF Resting, Proc, Fits, Places
  <2> QED
    BY <1>a, <1>c, <1>r, <2>1 DEF AckInstead, Be
<1>1. ASSUME NEW h \in Handlers, NEW m \in DOMAIN dialog, TakeGuest(h, m)
      PROVE  Good
  <2> DEFINE r == [Resting EXCEPT !.pc = "store", !.at = m]
  <2>1. m \in Nat /\ m \in Said(FromGuest) /\ proc' = [proc EXCEPT ![h] = r] /\ h \in Procs
    BY <1>1, <1>t, ProcsAre DEF TakeGuest, Be, TypeOK
  <2>2. r \in Proc /\ Fits(h, r)
    BY <2>1 DEF Resting, Proc, Fits, Places
  <2> QED
    BY <1>c, <2>1, <2>2
<1>2. ASSUME NEW h \in Handlers, Store(h)
      PROVE  Good
  <2> DEFINE r == [proc[h] EXCEPT !.pc = "classify"]
  <2>1. h \in Procs /\ proc[h] \in Proc /\ proc[h].pc = "store" /\ proc[h].at \in Said(FromGuest)
    BY <1>2, <1>t, ProcsAre DEF Store, At, PcInv, Fits
  <2>2. CASE dialog[proc[h].at] = "text"
    <3>1. r \in Proc /\ r.pc = "classify" /\ r.at = proc[h].at
      BY <2>1 DEF Proc
    <3>2. r.at \in Said({"text"})
      BY <2>1, <2>2, <3>1 DEF Said
    <3> HIDE DEF r
    <3>3. Fits(h, r)
      BY <3>1, <3>2 DEF Fits, Places
    <3>4. proc' = [proc EXCEPT ![h] = r]
      BY <1>2, <1>t, <2>1, <2>2 DEF Store, Goto, r
    <3> QED
      BY <1>c, <2>1, <3>1, <3>3, <3>4
  <2>3. CASE dialog[proc[h].at] # "text"
    BY <1>2, <1>r, <2>1, <2>3 DEF Store
  <2> QED
    BY <2>2, <2>3
<1>3. ASSUME NEW h \in Handlers, Classify(h) \/ EnqueueFails(h) \/ ClassifyFails(h) \/ MarkAnswered(h)
      PROVE  Good
  BY <1>3, <1>r, ProcsAre DEF Classify, EnqueueFails, ClassifyFails, MarkAnswered
<1>4. ASSUME NEW h \in Handlers, NEW m \in DOMAIN dialog, NoteAnswer(h, m)
      PROVE  Good
  <2> DEFINE r == [Resting EXCEPT !.pc = "answer", !.at = m, !.was = Planned]
  <2>1. m \in Nat /\ m \in Said(Echo) /\ h \in Procs
    BY <1>4, <1>t, ProcsAre DEF NoteAnswer, TypeOK, Echo
  <2>2. r \in Proc /\ Fits(h, r)
    BY <2>1 DEF Resting, Proc, Fits, Places, Planned
  <2>3. proc' = [proc EXCEPT ![h] = r] \/ UNCHANGED proc
    BY <1>4 DEF NoteAnswer, Be
  <2> QED
    BY <1>c, <1>u, <2>1, <2>2, <2>3
<1>5. ASSUME NEW w \in Workers, DraftStart(w)
      PROVE  Good
  <2> DEFINE r == [Resting EXCEPT !.pc = "llm", !.mark = Mark, !.saw = Stored]
  <2>1. r \in Proc /\ Fits(w, r) /\ w \in Procs
    BY <1>d, ProcsAre DEF Resting, Proc, Fits, Places
  <2>2. proc' = [proc EXCEPT ![w] = r] \/ AckInstead(w)
    BY <1>5 DEF DraftStart, Be
  <2> QED
    BY <1>a, <1>c, <2>1, <2>2
<1>6. ASSUME NEW w \in Workers, DraftFails(w) \/ DraftSave(w)
      PROVE  Good
  <2> DEFINE r == [Resting EXCEPT !.pc = "plan"]
  <2>1. r \in Proc /\ Fits(w, r) /\ w \in Procs
    BY ProcsAre DEF Resting, Proc, Fits, Places
  <2> QED
    BY <1>a, <1>c, <1>6, <2>1 DEF DraftFails, DraftSave, Be
<1>7. ASSUME NEW p \in Workers \cup Staff, PlanRead(p)
      PROVE  Good
  <2> DEFINE r == [proc[p] EXCEPT !.pc = "write", !.kind = Chosen[1], !.ticket = Chosen[2]]
  <2>1. p \in Procs /\ proc[p] \in Proc
    BY <1>t, ProcsAre
  <2>2. Chosen[1] \in Automatic /\ Chosen[2] \in Nat
    BY <1>t DEF Chosen, Automatic, TypeOK, Conv
  <2> DEFINE k == Chosen[1]
             n == Chosen[2]
  <2> HIDE DEF k, n
  <2>3. k \in Automatic /\ n \in Nat /\ r = [proc[p] EXCEPT !.pc = "write", !.kind = k, !.ticket = n]
    BY <2>2 DEF k, n
  <2>4. r \in Proc /\ r.pc = "write" /\ r.kind = k
    BY <2>1, <2>3 DEF Proc
  <2>5. proc' = [proc EXCEPT ![p] = r]
    BY <1>7, <1>t, <2>1 DEF PlanRead
  <2> HIDE DEF r
  <2>6. Fits(p, r)
    BY <2>3, <2>4 DEF Fits, Places
  <2> QED
    BY <1>c, <2>1, <2>4, <2>5, <2>6
<1>8. ASSUME NEW p \in Workers \cup Staff, NoPlan(p) \/ PlanWrite(p) \/ PlanFails(p) \/ PlanCutOff(p) \/ Row(p)
      PROVE  Good
  BY <1>8, <1>r, ProcsAre DEF NoPlan, PlanWrite, PlanFails, PlanCutOff, Row
<1>9. ASSUME NEW w \in Workers, NEW k \in Tickets, TaskSends(w, k)
      PROVE  Good
  <2> DEFINE r == [Resting EXCEPT !.pc = "vk", !.kind = conv.kind]
  <2>1. w \in Procs /\ conv.kind \in Automatic /\ proc' = [proc EXCEPT ![w] = r]
    BY <1>9, ProcsAre DEF TaskSends, Current, TypeInv, PlanInv, Be
  <2>2. r \in Proc /\ Fits(w, r)
    BY <2>1, ProcsAre DEF Resting, Proc, Fits, Places
  <2> QED
    BY <1>c, <2>1, <2>2
<1>10. ASSUME NEW p \in Workers \cup Staff, VkAccepts(p)
       PROVE  Good
  <2> DEFINE s == [proc[p] EXCEPT !.pc = "row", !.at = Len(dialog) + 1]
  <2>1. /\ p \in Procs /\ proc[p] \in Proc /\ proc[p].kind \in (IF p \in Staff THEN {"panel"} ELSE Automatic)
        /\ dialog' = Append(dialog, proc[p].kind)
    BY <1>10, <1>t, ProcsAre DEF VkAccepts, At, Say, PcInv, Fits
  <2>2. Len(dialog) + 1 \in Nat /\ dialog \in Seq(Words)
    BY <1>t DEF TypeOK, Words
  <2>3. s \in Proc /\ s.pc = "row" /\ s.at = Len(dialog) + 1 /\ s.kind = proc[p].kind
    BY <2>1, <2>2 DEF Proc
  <2>4. proc' = [proc EXCEPT ![p] = s]
    BY <1>10, <1>t, <2>1 DEF VkAccepts
  <2> HIDE DEF s
  <2>5. PICK r \in Proc : r = s
    BY <2>3
  <2>6. r.at \in Said({r.kind})'
    BY <2>1, <2>2, <2>3, <2>5 DEF Said
  <2>7. Fits(p, r)'
    BY <2>1, <2>3, <2>5, <2>6 DEF Fits, Places
  <2> QED
    BY <1>b, <2>1, <2>4, <2>5, <2>7
<1>11. ASSUME NEW p \in Workers \cup Staff, NotSent(p), At(p, "vk")
       PROVE  Good
  <2> DEFINE r == [proc[p] EXCEPT !.pc = "local"]
  <2>1. p \in Procs /\ proc[p] \in Proc
    BY <1>t, ProcsAre
  <2>2. r \in Proc /\ r.pc = "local"
    BY <2>1 DEF Proc
  <2>3. p \in Staff => proc' = [proc EXCEPT ![p] = r]
    BY <1>11, <1>t, <2>1 DEF NotSent, Goto
  <2> HIDE DEF r
  <2>4. p \in Staff => Fits(p, r)
    BY <2>2 DEF Fits, Places
  <2> QED
    BY <1>11, <1>c, <1>r, <2>1, <2>2, <2>3, <2>4 DEF NotSent
<1>12. ASSUME NEW p \in Workers \cup Staff, VkRefuses(p) \/ AnswerLost(p)
       PROVE  Good
  BY <1>11, <1>12 DEF VkRefuses, AnswerLost
<1>13. ASSUME NEW w \in Workers, Killed(w)
       PROVE  Good
  BY <1>13, <1>r, ProcsAre DEF Killed
<1>14. ASSUME NEW s \in Staff, PanelStart(s) \/ RegenStart(s)
       PROVE  Good
  <2> DEFINE r == [Resting EXCEPT !.pc = "vk", !.kind = "panel", !.was = Planned]
             q == [Resting EXCEPT !.pc = "llm", !.saw = Stored, !.was = Planned]
  <2>1. s \in Procs /\ r \in Proc /\ Fits(s, r)
    BY ProcsAre DEF Resting, Proc, Fits, Places, Planned
  <2>2. q \in Proc /\ Fits(s, q)
    BY <1>d, ProcsAre DEF Resting, Proc, Fits, Places, Planned
  <2> QED
    BY <1>14, <1>c, <2>1, <2>2 DEF PanelStart, RegenStart, Be
<1>15. ASSUME NEW s \in Staff, RegenSave(s)
       PROVE  Good
  <2> DEFINE r == [proc[s] EXCEPT !.pc = "plan"]
  <2>1. s \in Procs /\ proc[s] \in Proc
    BY <1>t, ProcsAre
  <2>2. r \in Proc /\ r.pc = "plan"
    BY <2>1 DEF Proc
  <2>3. proc' = [proc EXCEPT ![s] = r] \/ Rest(s)
    BY <1>15, <1>t, <2>1 DEF RegenSave, Goto
  <2> HIDE DEF r
  <2>4. Fits(s, r)
    BY <2>2 DEF Fits, Places
  <2> QED
    BY <1>c, <1>r, <2>1, <2>2, <2>3, <2>4
<1>16. ASSUME NEW s \in Staff, RegenFails(s) \/ KeepLocally(s) \/ GiveUp(s)
       PROVE  Good
  BY <1>16, <1>r, ProcsAre DEF RegenFails, KeepLocally, GiveUp
<1>17. ASSUME NEW s \in Staff, CancelPlan(s) \/ RejectDraft(s)
       PROVE  Good
  BY <1>17, <1>u DEF CancelPlan, RejectDraft
<1>18. ASSUME NEW k \in Tickets, Redelivered(k) \/ \E w \in Workers : TaskEnds(w, k) \/ TaskRefused(w, k) \/ TaskPostponed(w, k)
       PROVE  Good
  BY <1>18, <1>u DEF Redelivered, TaskEnds, TaskRefused, TaskPostponed
<1>19. CASE GuestWrites \/ StaffWriteInVk \/ DebounceEnds \/ Reclassify \/ Reclassified
  <2>1. UNCHANGED proc
    BY <1>19 DEF GuestWrites, StaffWriteInVk, DebounceEnds, Reclassify, Reclassified
  <2> QED
    BY <1>u, <2>1
<1> QED
  <2>1. ASSUME NEW h \in Handlers, Handle(h)
        PROVE  Good
    BY <1>1, <1>2, <1>3, <1>4, <2>1 DEF Handle
  <2>2. ASSUME NEW p \in Workers \cup Staff, Plan(p) \/ Send(p)
        PROVE  Good
    BY <1>7, <1>8, <1>10, <1>12, <2>2 DEF Plan, Send
  <2>3. ASSUME NEW w \in Workers, Work(w)
        PROVE  Good
    BY <1>5, <1>6, <1>9, <1>18, <2>2, <2>3 DEF Work
  <2>4. ASSUME NEW s \in Staff, Act(s) \/ Finish(s)
        PROVE  Good
    BY <1>14, <1>15, <1>16, <1>17, <2>2, <2>4 DEF Act, Finish
  <2>5. CASE Fails
    BY <1>3, <1>8, <1>12, <1>13, <1>18, <2>5 DEF Fails
  <2> QED
    BY <1>19, <2>1, <2>3, <2>4, <2>5 DEF Steps

LEMMA TypePreserved ==
  ASSUME TypeInv, [Next]_vars
  PROVE  TypeInv'
<1>1. CASE Steps
  <2>1. scenario' \in Scenarios
    BY <1>1, ScenarioStays DEF TypeInv, TypeOK
  <2>2. dialog' \in Seq(Words) /\ rows' \in Seq(Nat) /\ Len(rows') = Len(dialog')
    BY <1>1, TalkSteps, TalkGrows DEF TypeInv
  <2> QED
    BY <1>1, <2>1, <2>2, ConvPreserved, QueuePreserved, NotePreserved, ProcPreserved
    DEF TypeInv, TypeOK, Words, PlanInv, Planned
<1>2. CASE UNCHANGED vars
  BY <1>2 DEF vars, TypeInv, TypeOK, NoteOK, PcInv, Fits, Said, PlanInv, Planned, Queue, Tickets
<1> QED
  BY <1>1, <1>2 DEF Next

LEMMA TypeInitially == Init => TypeInv
<1> SUFFICES ASSUME Init
             PROVE  TypeInv
  OBVIOUS
<1>1. scenario \in Scenarios /\ scenario.faults \in Nat /\ Len(scenario.guest) \in Nat /\ scenario.acts \in Nat
  <2>1. scenario \in Scenarios /\ scenario \in Scenario
    BY ScenariosAssumption DEF Init
  <2>2. scenario.faults \in Nat /\ scenario.acts \in Nat /\ scenario.guest \in Seq(FromGuest)
    BY <2>1 DEF Scenario
  <2>3. Len(scenario.guest) \in Nat
    BY <2>2
  <2> QED
    BY <2>1, <2>2, <2>3
<1>2. dialog \in Seq(Words) /\ rows \in Seq(Nat) /\ Len(rows) = Len(dialog)
  <2>1. <<>> \in Seq(Words) /\ <<>> \in Seq(Nat)
    OBVIOUS
  <2> QED
    BY <2>1 DEF Init
<1>3. conv \in Conv /\ ~conv.rejected /\ PlanInv
  BY DEF Init, Conv, Moods, PlanInv, Planned
<1>4. queue \in Queue
  BY DEF Init, Queue
<1>5. proc \in [Procs -> Proc] /\ PcInv
  BY RestingFits DEF Init, PcInv
<1>6. NoteOK /\ note.heard = {} /\ note.faults = 0
  BY DEF Init, NoteOK
<1> QED
  BY <1>1, <1>2, <1>3, <1>4, <1>5, <1>6 DEF TypeInv, TypeOK, Words

LEMMA TypeInvariant == Spec => []TypeInv
BY TypeInitially, TypePreserved, PTL DEF Spec

(* The states of a conversation, its messages, tasks and processes have    *)
(* their types, however many of them talk to the guest at once.            *)
THEOREM TypeCorrect == Spec => []TypeOK
BY TypeInvariant, PTL DEF TypeInv

----------------------------------------------------------------------------
(* One automatic message.                                                  *)
Written == Cardinality(Said(Automatic))

\* p has an automatic message in VK that has no row yet; p is about to send one.
AutoRow(p) == proc[p].pc = "row" /\ proc[p].kind # "panel"
About(p)   == proc[p].pc \in {"write", "vk"} /\ proc[p].kind # "panel"

Kept ==
  /\ \A p \in Procs : AutoRow(p) => AutoRow(p)'
  /\ \A p \in Procs : About(p)' => About(p)

\* While no two processes decide or send at once: there is one message more
\* than left no trace, and it is recorded or about to be; who is about to send
\* has found that nothing was sent.
OneInv ==
  "sends" \notin races =>
    /\ \A p, q \in Procs : (AutoRow(p) \/ About(p)) /\ (AutoRow(q) \/ About(q)) => p = q
    /\ Written =< note.unrecorded + 1
    /\ (conv.status # "sent" /\ \A p \in Procs : ~AutoRow(p)) => Written =< note.unrecorded
    /\ \A p \in Procs : About(p) => conv.status # "sent"

LEMMA WatchKeeps ==
  ASSUME Watch
  PROVE  races \subseteq races'
BY DEF Watch

LEMMA WatchSends ==
  ASSUME Watch, "sends" \notin races', NEW p \in Procs, NEW q \in Procs,
         (AutoRow(p) \/ About(p))', (AutoRow(q) \/ About(q))'
  PROVE  p = q
<1> SUFFICES ASSUME p # q
             PROVE  FALSE
  OBVIOUS
<1>1. Sends(p) /\ Sends(q)
  BY DEF Sends, AutoRow, About
<1>2. Meet(Sends)
  BY <1>1 DEF Meet
<1>3. "sends" \in races'
  BY <1>2 DEF Watch
<1> QED
  BY <1>3

LEMMA WrittenCounts ==
  ASSUME TypeOK
  PROVE  /\ dialog' = dialog => Written' = Written
         /\ \A k : dialog' = Append(dialog, k) =>
                     Written' = Written + (IF k \in Automatic THEN 1 ELSE 0)
<1>1. dialog' = dialog => Written' = Written
  BY DEF Written, Said
<1>2. ASSUME NEW k, dialog' = Append(dialog, k)
      PROVE  Written' = Written + (IF k \in Automatic THEN 1 ELSE 0)
  <2>1. dialog \in Seq(Words \cup {k}) /\ Len(dialog) \in Nat
    BY DEF TypeOK, Words
  <2>2. Said(Automatic)' = IF k \in Automatic THEN Said(Automatic) \cup {Len(dialog) + 1} ELSE Said(Automatic)
    BY <1>2, <2>1 DEF Said
  <2>3. IsFiniteSet(Said(Automatic)) /\ Len(dialog) + 1 \notin Said(Automatic)
    <3>1. IsFiniteSet(Said(Automatic))
      BY SaidFinite
    <3>2. Len(dialog) + 1 \notin Said(Automatic)
      BY <2>1 DEF Said
    <3> QED
      BY <3>1, <3>2
  <2>4. Cardinality(Said(Automatic) \cup {Len(dialog) + 1}) = Cardinality(Said(Automatic)) + 1
    BY <2>3, FS_AddElement
  <2>5. Cardinality(Said(Automatic)) \in Nat
    BY SaidFinite
  <2> QED
    BY <2>2, <2>4, <2>5 DEF Written
<1> QED
  BY <1>1, <1>2

LEMMA WrittenNat == TypeOK => Written \in Nat
BY SaidFinite DEF Written

LEMMA OnePreserved ==
  ASSUME TypeInv, TypeInv', OneInv, Steps, Watch
  PROVE  OneInv'
<1> SUFFICES ASSUME "sends" \notin races'
             PROVE  OneInv'
  BY DEF OneInv
<1> DEFINE a == Written
           b == Written'
           u == note.unrecorded
           v == note'.unrecorded
<1>t. a \in Nat /\ b \in Nat /\ u \in Nat /\ v \in Nat /\ TypeOK
  <2>1. a \in Nat
    BY WrittenNat DEF TypeInv
  <2>2. (TypeOK => Written \in Nat)'
    BY WrittenNat, PTL
  <2>3. b \in Nat
    BY <2>2 DEF TypeInv
  <2> QED
    BY <2>1, <2>3 DEF TypeInv, NoteOK
<1>i. /\ \A p, q \in Procs : (AutoRow(p) \/ About(p)) /\ (AutoRow(q) \/ About(q)) => p = q
      /\ a =< u + 1
      /\ (conv.status # "sent" /\ \A p \in Procs : ~AutoRow(p)) => a =< u
      /\ \A p \in Procs : About(p) => conv.status # "sent"
  BY WatchKeeps DEF OneInv
<1>o. ASSUME b =< v + 1,
             (conv'.status # "sent" /\ \A p \in Procs : ~AutoRow(p)') => b =< v,
             \A p \in Procs : About(p)' => conv'.status # "sent"
      PROVE  OneInv'
  BY <1>o, WatchSends DEF OneInv
<1>w. (dialog' = dialog => b = a) /\ \A k : dialog' = Append(dialog, k) => b = a + (IF k \in Automatic THEN 1 ELSE 0)
  BY <1>t, WrittenCounts
<1> HIDE DEF a, b, u, v
\* Steps that write no automatic message, end none and begin none.
<1>c. ASSUME b = a, v >= u, conv.status = "sent" <=> conv'.status = "sent",
             Kept
      PROVE  OneInv'
  <2>1. b =< v + 1
    <3>1. a =< u + 1 /\ b = a /\ v >= u
      BY <1>c, <1>i
    <3> QED
      BY <1>t, <3>1
  <2>2. ASSUME conv'.status # "sent", \A p \in Procs : ~AutoRow(p)'
        PROVE  b =< v
    <3>1. a =< u
      BY <1>c, <1>i, <2>2 DEF Kept
    <3> QED
      BY <1>c, <1>t, <3>1
  <2>3. \A p \in Procs : About(p)' => conv'.status # "sent"
    BY <1>c, <1>i DEF Kept
  <2> QED
    BY <1>o, <2>1, <2>2, <2>3
\* Only p moves, from a place without an unrecorded message to one without a plan.
<1>m. ASSUME NEW p \in Procs, NEW x, proc' = [proc EXCEPT ![p] = x], ~AutoRow(p),
             x.pc \notin {"write", "vk"} \/ x.kind = "panel"
      PROVE  Kept
  BY <1>m DEF Kept, AutoRow, About, TypeInv, TypeOK
<1>u. ASSUME UNCHANGED proc
      PROVE  Kept
  BY <1>u DEF Kept, AutoRow, About
<1>r. ASSUME NEW p \in Procs, Rest(p), ~AutoRow(p)
      PROVE  Kept
  <2>1. Resting.pc = "idle" /\ proc' = [proc EXCEPT ![p] = Resting]
    BY <1>r DEF Rest, Be, Resting
  <2> QED
    BY <1>m, <1>r, <2>1
<1>g. ASSUME NEW p \in Procs, NEW pc, Goto(p, pc), ~AutoRow(p), pc \notin {"write", "vk"}
      PROVE  Kept
  <2>1. proc[p] \in Proc /\ [proc[p] EXCEPT !.pc = pc].pc = pc
    BY DEF TypeInv, TypeOK, Proc
  <2>2. proc' = [proc EXCEPT ![p] = [proc[p] EXCEPT !.pc = pc]]
    BY <1>g DEF Goto, TypeInv, TypeOK
  <2> QED
    BY <1>m, <1>g, <2>1, <2>2
<1>s. \A c \in Conv, y \in BOOLEAN : (Withdrawn(c, y).status = "sent") <=> (c.status = "sent")
  <2>1. ASSUME NEW c \in Conv, NEW y \in BOOLEAN
        PROVE  (Withdrawn(c, y).status = "sent") <=> (c.status = "sent")
    <3>1. CASE y /\ c.status = "scheduled"
      BY <3>1 DEF Withdrawn, Conv
    <3>2. CASE ~(y /\ c.status = "scheduled")
      BY <3>2 DEF Withdrawn
    <3> QED
      BY <3>1, <3>2
  <2> QED
    BY <2>1
<1>x. conv \in Conv /\ proc \in [Procs -> Proc] /\ \A p \in Procs : Fits(p, proc[p])
  BY DEF TypeInv, TypeOK, PcInv
<1>h. ASSUME NEW h \in Handlers
      PROVE  h \in Procs /\ ~AutoRow(h)
  BY <1>x, ProcsAre DEF AutoRow, Fits, Places
<1>f. ASSUME NEW p \in Staff
      PROVE  p \in Procs /\ ~AutoRow(p) /\ proc[p] \in Proc
  BY <1>x, ProcsAre DEF AutoRow, Fits
\* Handlers and the staff, who are not at a message of the assistant.
<1>1. ASSUME NEW h \in Handlers, Handle(h) \/ EnqueueFails(h)
      PROVE  OneInv'
  <2>1. b = a /\ v = u
    <3>1. dialog' = dialog
      BY <1>1 DEF Handle, TakeGuest, NoteAnswer, Store, Classify, ClassifyFails, MarkAnswered, EnqueueFails
    <3>2. note'.unrecorded = note.unrecorded
      BY <1>1 DEF Handle, TakeGuest, NoteAnswer, Store, Classify, ClassifyFails, MarkAnswered, EnqueueFails,
         Heard, TypeInv, NoteOK
    <3> QED
      BY <1>w, <3>1, <3>2 DEF u, v
  <2>2. conv.status = "sent" <=> conv'.status = "sent"
    <3>1. CASE Classify(h) \/ EnqueueFails(h)
      <4>1. PICK c \in Judged : conv' = Withdrawn(c, TRUE) \/ conv' = c
        BY <3>1 DEF Classify, EnqueueFails, PlanDropped
      <4>2. c \in Conv /\ c.status = conv.status
        <5>1. scenario.moods \subseteq Moods
          BY ScenariosAssumption DEF TypeInv, TypeOK, Scenario
        <5> QED
          BY <1>x, <5>1 DEF Judged, Conv
      <4> QED
        BY <1>s, <4>1, <4>2
    <3>2. CASE Store(h)
      BY <1>x, <3>2 DEF Store, Conv
    <3>3. CASE MarkAnswered(h)
      <4>1. [conv EXCEPT !.replied = TRUE] \in Conv /\ [conv EXCEPT !.replied = TRUE].status = conv.status
        BY <1>x DEF Conv
      <4>2. proc[h].was \in BOOLEAN
        BY <1>h, <1>x DEF Proc
      <4> QED
        BY <1>s, <3>3, <4>1, <4>2 DEF MarkAnswered
    <3>4. CASE ClassifyFails(h) \/ \E m \in DOMAIN dialog : TakeGuest(h, m) \/ NoteAnswer(h, m)
      BY <3>4 DEF ClassifyFails, TakeGuest, NoteAnswer
    <3> QED
      BY <1>1, <3>1, <3>2, <3>3, <3>4 DEF Handle
  <2>3. Kept
    <3>1. CASE Store(h)
      BY <1>g, <1>h, <1>r, <3>1 DEF Store
    <3>2. CASE Classify(h) \/ ClassifyFails(h) \/ MarkAnswered(h) \/ EnqueueFails(h)
      BY <1>h, <1>r, <3>2 DEF Classify, ClassifyFails, MarkAnswered, EnqueueFails
    <3>3. ASSUME NEW m \in DOMAIN dialog, TakeGuest(h, m)
          PROVE  Kept
      <4> DEFINE x == [Resting EXCEPT !.pc = "store", !.at = m]
      <4>1. x.pc = "store" /\ proc' = [proc EXCEPT ![h] = x]
        BY <3>3 DEF TakeGuest, Be, Resting
      <4> QED
        BY <1>h, <1>m, <4>1
    <3>4. ASSUME NEW m \in DOMAIN dialog, NoteAnswer(h, m)
          PROVE  Kept
      <4> DEFINE x == [Resting EXCEPT !.pc = "answer", !.at = m, !.was = Planned]
      <4>1. x.pc = "answer" /\ (proc' = [proc EXCEPT ![h] = x] \/ UNCHANGED proc)
        BY <3>4 DEF NoteAnswer, Be, Resting
      <4> QED
        BY <1>h, <1>m, <1>u, <4>1
    <3> QED
      BY <1>1, <3>1, <3>2, <3>3, <3>4 DEF Handle
  <2> QED
    BY <1>c, <1>t, <2>1, <2>2, <2>3
<1>2. ASSUME NEW s \in Staff, Act(s) \/ RegenSave(s) \/ RegenFails(s) \/ KeepLocally(s) \/ GiveUp(s)
      PROVE  OneInv'
  <2>1. b = a /\ v = u
    <3>1. dialog' = dialog \/ dialog' = Append(dialog, "local")
      BY <1>2 DEF Act, PanelStart, CancelPlan, RejectDraft, RegenStart, RegenSave, RegenFails, KeepLocally, GiveUp
    <3>2. note'.unrecorded = note.unrecorded
      BY <1>2 DEF Act, PanelStart, CancelPlan, RejectDraft, RegenStart, RegenSave, RegenFails, KeepLocally,
         GiveUp, Acted, TypeInv, NoteOK
    <3>3. b = a
      BY <1>t, <1>w, <3>1 DEF Automatic
    <3> QED
      BY <3>2, <3>3 DEF u, v
  <2>2. conv.status = "sent" <=> conv'.status = "sent"
    <3>1. s \in Procs /\ proc[s].was \in BOOLEAN /\ proc[s].saw \in SUBSET Nat
      BY <1>x, ProcsAre DEF Proc
    <3>2. CASE CancelPlan(s)
      BY <1>s, <1>x, <3>2 DEF CancelPlan
    <3>3. CASE RejectDraft(s)
      <4>1. [conv EXCEPT !.rejected = TRUE] \in Conv /\ [conv EXCEPT !.rejected = TRUE].status = conv.status
        BY <1>x DEF Conv
      <4> QED
        BY <1>s, <3>3, <4>1 DEF RejectDraft
    <3>4. CASE KeepLocally(s)
      <4>1. [conv EXCEPT !.replied = TRUE] \in Conv /\ [conv EXCEPT !.replied = TRUE].status = conv.status
        BY <1>x DEF Conv
      <4> QED
        BY <1>s, <3>1, <3>4, <4>1 DEF KeepLocally
    <3>5. CASE RegenSave(s)
      <4> DEFINE c == [conv EXCEPT !.ver = @ + 1, !.saw = proc[s].saw, !.rejected = FALSE]
      <4>1. conv \in Conv
        BY <1>x
      <4>2. conv.ver \in Nat
        BY <4>1 DEF Conv
      <4>3. conv.ver + 1 \in Nat
        BY <4>2
      <4>4. c \in Conv /\ c.status = conv.status
        BY <3>1, <4>1, <4>3 DEF Conv
      <4>5. conv' = Withdrawn(c, proc[s].was)
        BY <3>5 DEF RegenSave
      <4> HIDE DEF c
      <4> QED
        BY <1>s, <3>1, <4>4, <4>5
    <3>6. CASE PanelStart(s) \/ RegenStart(s) \/ RegenFails(s) \/ GiveUp(s)
      BY <3>6 DEF PanelStart, RegenStart, RegenFails, GiveUp
    <3> QED
      BY <1>2, <3>2, <3>3, <3>4, <3>5, <3>6 DEF Act
  <2>3. s \in Procs /\ proc[s] \in Proc
    BY <1>x, ProcsAre
  <2>4. Kept
    <3>1. CASE CancelPlan(s) \/ RejectDraft(s)
      BY <1>u, <3>1 DEF CancelPlan, RejectDraft
    <3>2. CASE RegenFails(s) \/ KeepLocally(s) \/ GiveUp(s)
      BY <1>f, <1>r, <2>3, <3>2 DEF RegenFails, KeepLocally, GiveUp
    <3>3. CASE RegenSave(s)
      BY <1>f, <1>g, <1>r, <2>3, <3>3 DEF RegenSave
    <3>4. CASE PanelStart(s)
      <4> DEFINE x == [Resting EXCEPT !.pc = "vk", !.kind = "panel", !.was = Planned]
      <4>1. x.kind = "panel" /\ proc' = [proc EXCEPT ![s] = x]
        BY <3>4 DEF PanelStart, Be, Resting
      <4> QED
        BY <1>f, <1>m, <2>3, <4>1
    <3>5. CASE RegenStart(s)
      <4> DEFINE x == [Resting EXCEPT !.pc = "llm", !.saw = Stored, !.was = Planned]
      <4>1. x.pc = "llm" /\ proc' = [proc EXCEPT ![s] = x]
        BY <3>5 DEF RegenStart, Be, Resting
      <4> QED
        BY <1>f, <1>m, <2>3, <4>1
    <3> QED
      BY <1>2, <3>1, <3>2, <3>3, <3>4, <3>5 DEF Act
  <2> QED
    BY <1>c, <1>t, <2>1, <2>2, <2>4
<1>3. CASE GuestWrites \/ StaffWriteInVk \/ DebounceEnds \/ Reclassify \/ Reclassified
  <2>1. b = a
    <3>1. CASE GuestWrites
      <4> DEFINE n == Cardinality(Said(FromGuest))
      <4>1. n < Len(scenario.guest) /\ dialog' = Append(dialog, scenario.guest[n + 1])
        BY <3>1 DEF GuestWrites, Say
      <4>2. scenario.guest \in Seq(FromGuest) /\ n \in Nat
        BY ScenariosAssumption, SaidFinite DEF Scenario, TypeInv, TypeOK
      <4> HIDE DEF n
      <4>3. scenario.guest[n + 1] \in FromGuest
        BY <4>1, <4>2
      <4>4. scenario.guest[n + 1] \notin Automatic
        BY <4>3 DEF FromGuest, Automatic
      <4> QED
        BY <1>t, <1>w, <4>1, <4>4
    <3>2. CASE StaffWriteInVk
      BY <1>t, <1>w, <3>2 DEF StaffWriteInVk, Say, Automatic
    <3>3. CASE DebounceEnds \/ Reclassify \/ Reclassified
      BY <1>w, <3>3 DEF DebounceEnds, Reclassify, Reclassified
    <3> QED
      BY <1>3, <3>1, <3>2, <3>3
  <2>2. v = u
    BY <1>3 DEF u, v, GuestWrites, StaffWriteInVk, DebounceEnds, Reclassify, Reclassified, Acted, TypeInv, NoteOK
  <2>3. conv'.status = conv.status
    BY <1>3, <1>x DEF GuestWrites, StaffWriteInVk, DebounceEnds, Reclassify, Reclassified, Judged, Conv
  <2>4. UNCHANGED proc
    BY <1>3 DEF GuestWrites, StaffWriteInVk, DebounceEnds, Reclassify, Reclassified
  <2> QED
    BY <1>c, <1>t, <1>u, <2>1, <2>2, <2>3, <2>4
<1>p. ASSUME NEW p \in Workers \cup Staff
      PROVE  /\ p \in Procs /\ proc[p] \in Proc
             /\ p \in Staff => ~AutoRow(p)
             /\ proc[p].pc \in {"vk", "row"} => proc[p].kind \in (IF p \in Staff THEN {"panel"} ELSE Automatic)
             /\ proc[p].pc = "write" => proc[p].kind \in Automatic
  BY <1>f, <1>x, ProcsAre DEF Fits
\* p found that nothing was sent, and decides to.
<1>n. ASSUME NEW p \in Procs, ~AutoRow(p), NEW x, proc' = [proc EXCEPT ![p] = x],
             b = a, v = u, conv' = conv, conv.status # "sent"
      PROVE  OneInv'
  <2>1. \A q \in Procs : AutoRow(q) => AutoRow(q)'
    BY <1>n, <1>x DEF AutoRow
  <2>2. a =< u + 1 /\ ((\A q \in Procs : ~AutoRow(q)') => a =< u)
    BY <1>i, <1>n, <2>1
  <2> QED
    BY <1>n, <1>o, <2>2
\* Who is about to send is the only one, and every message is accounted for.
<1>y. ASSUME NEW p \in Procs, About(p)
      PROVE  conv.status # "sent" /\ a =< u
  <2>1. ~AutoRow(p)
    BY <1>y DEF About, AutoRow
  <2>2. \A q \in Procs : ~AutoRow(q)
    BY <1>i, <1>y, <2>1
  <2> QED
    BY <1>i, <1>y, <2>2
<1>4. ASSUME NEW p \in Workers \cup Staff, PlanRead(p)
      PROVE  OneInv'
  <2> DEFINE x == [proc[p] EXCEPT !.pc = "write", !.kind = Chosen[1], !.ticket = Chosen[2]]
  <2>1. proc' = [proc EXCEPT ![p] = x]
    BY <1>4, <1>p, <1>x DEF PlanRead
  <2>2. b = a /\ v = u /\ conv' = conv /\ conv.status # "sent" /\ ~AutoRow(p)
    BY <1>4, <1>w DEF PlanRead, u, v, At, AutoRow
  <2> QED
    BY <1>n, <1>p, <2>1, <2>2
<1>5. ASSUME NEW p \in Workers \cup Staff, NoPlan(p)
      PROVE  OneInv'
  <2>1. b = a /\ v = u /\ Rest(p) /\ ~AutoRow(p)
    BY <1>5, <1>w DEF NoPlan, u, v, At, AutoRow
  <2>2. conv.status = "sent" <=> conv'.status = "sent"
    BY <1>5, <1>x DEF NoPlan, SetStatus, Conv
  <2>3. Kept
    BY <1>p, <1>r, <2>1
  <2> QED
    BY <1>c, <1>t, <2>1, <2>2, <2>3
<1>6. ASSUME NEW p \in Workers \cup Staff, PlanWrite(p) \/ PlanFails(p) \/ PlanCutOff(p)
      PROVE  OneInv'
  <2>1. b = a /\ v = u /\ Rest(p) /\ proc[p].pc = "write"
    BY <1>6, <1>w DEF PlanWrite, PlanFails, PlanCutOff, Faulty, u, v, At, TypeInv, NoteOK
  <2>2. About(p) /\ ~AutoRow(p)
    BY <1>p, <2>1 DEF About, AutoRow, Automatic
  <2>3. conv.status # "sent"
    BY <1>p, <1>y, <2>2
  <2>4. PlanOf(p).status = "scheduled" /\ Rollback(PlanOf(p)).status = ""
    BY <1>x DEF PlanOf, Rollback, Conv
  <2>5. conv'.status # "sent"
    BY <1>6, <2>4 DEF PlanWrite, PlanFails, PlanCutOff
  <2>6. Kept
    BY <1>p, <1>r, <2>1, <2>2
  <2> QED
    BY <1>c, <1>t, <2>1, <2>3, <2>5, <2>6
<1>7. ASSUME NEW w \in Workers, DraftStart(w) \/ DraftFails(w) \/ DraftSave(w)
      PROVE  OneInv'
  <2>1. b = a /\ v = u /\ ~AutoRow(w)
    BY <1>7, <1>w DEF DraftStart, DraftFails, DraftSave, Free, u, v, At, AutoRow, TypeInv, NoteOK
  <2>2. conv'.status = conv.status
    BY <1>7, <1>x DEF DraftStart, DraftFails, DraftSave, Conv
  <2> DEFINE x == [Resting EXCEPT !.pc = "plan"]
             y == [Resting EXCEPT !.pc = "llm", !.mark = Mark, !.saw = Stored]
  <2>3. x.pc = "plan" /\ y.pc = "llm"
    BY DEF Resting
  <2>4. proc' = [proc EXCEPT ![w] = x] \/ proc' = [proc EXCEPT ![w] = y] \/ Rest(w)
    BY <1>7 DEF DraftStart, DraftFails, DraftSave, AckInstead, Be
  <2> HIDE DEF x, y
  <2>5. Kept
    BY <1>m, <1>p, <1>r, <2>1, <2>3, <2>4
  <2> QED
    BY <1>c, <1>t, <2>1, <2>2, <2>5
<1>8. ASSUME NEW k \in Tickets, \/ Redelivered(k)
              \/ \E w \in Workers : TaskEnds(w, k) \/ TaskRefused(w, k) \/ TaskPostponed(w, k)
      PROVE  OneInv'
  <2>1. b = a /\ v = u /\ UNCHANGED proc
    BY <1>8, <1>w DEF Redelivered, TaskEnds, TaskRefused, TaskPostponed, Faulty, u, v, TypeInv, NoteOK
  <2>2. conv.status = "sent" <=> conv'.status = "sent"
    BY <1>8, <1>x DEF Redelivered, TaskEnds, TaskRefused, TaskPostponed, Current, Planned, SetStatus, Conv
  <2> QED
    BY <1>c, <1>t, <1>u, <2>1, <2>2
<1>9. ASSUME NEW w \in Workers, NEW k \in Tickets, TaskSends(w, k)
      PROVE  OneInv'
  <2> DEFINE x == [Resting EXCEPT !.pc = "vk", !.kind = conv.kind]
  <2>1. proc' = [proc EXCEPT ![w] = x]
    BY <1>9 DEF TaskSends, Be
  <2>2. b = a /\ v = u /\ conv' = conv /\ conv.status # "sent" /\ ~AutoRow(w)
    BY <1>9, <1>w DEF TaskSends, Take, Free, Current, Planned, u, v, At, AutoRow
  <2> QED
    BY <1>n, <1>p, <2>1, <2>2
<1>10. ASSUME NEW p \in Workers \cup Staff, VkAccepts(p)
       PROVE  OneInv'
  <2> DEFINE x == [proc[p] EXCEPT !.pc = "row", !.at = Len(dialog) + 1]
  <2>1. /\ proc[p].pc = "vk" /\ dialog' = Append(dialog, proc[p].kind) /\ v = u /\ conv' = conv
        /\ proc' = [proc EXCEPT ![p] = x]
    BY <1>10, <1>p, <1>x DEF VkAccepts, At, Say, u, v
  <2>2. x.pc = "row" /\ x.kind = proc[p].kind
    BY <1>p DEF Proc
  <2> HIDE DEF x
  <2>3. CASE p \in Staff
    <3>1. proc[p].kind = "panel"
      BY <1>p, <2>1, <2>3
    <3>2. b = a
      BY <1>t, <1>w, <2>1, <3>1 DEF Automatic
    <3>3. Kept
      BY <1>m, <1>p, <2>1, <2>2, <2>3
    <3> QED
      BY <1>c, <1>t, <2>1, <3>2, <3>3
  <2>4. CASE p \notin Staff
    <3>1. proc[p].kind \in Automatic /\ About(p)
      BY <1>p, <2>1, <2>4 DEF About, Automatic
    <3>2. conv.status # "sent" /\ a =< u
      BY <1>p, <1>y, <3>1
    <3>3. b = a + 1
      BY <1>w, <2>1, <3>1
    <3>4. AutoRow(p)' /\ p \in Procs
      BY <1>p, <1>x, <2>1, <2>2, <3>1 DEF AutoRow, Automatic
    <3>5. b =< v + 1
      BY <1>t, <2>1, <3>2, <3>3
    <3> QED
      BY <1>o, <2>1, <3>2, <3>4, <3>5
  <2> QED
    BY <2>3, <2>4
<1>11. ASSUME NEW p \in Workers \cup Staff, VkRefuses(p) \/ AnswerLost(p)
       PROVE  OneInv'
  <2>1. proc[p].pc = "vk" /\ NotSent(p) /\ ~AutoRow(p)
    BY <1>11 DEF VkRefuses, AnswerLost, At, AutoRow
  <2>2. \/ dialog' = dialog /\ v = u
        \/ dialog' = Append(dialog, proc[p].kind) /\ v = u + 1
    BY <1>11 DEF VkRefuses, AnswerLost, Say, Faulty, u, v, TypeInv, NoteOK
  <2>3. CASE p \in Staff
    <3>1. proc[p].kind \notin Automatic
      BY <1>p, <2>1, <2>3 DEF Automatic
    <3>2. b = a /\ v >= u
      BY <1>t, <1>w, <2>2, <3>1
    <3>3. conv' = conv /\ Kept
      BY <1>g, <1>p, <2>1, <2>3 DEF NotSent
    <3> QED
      BY <1>c, <3>2, <3>3
  <2>4. CASE p \notin Staff
    <3>1. proc[p].kind \in Automatic /\ About(p)
      BY <1>p, <2>1, <2>4 DEF About, Automatic
    <3>2. a =< u
      BY <1>p, <1>y, <3>1
    <3>3. b =< v /\ b =< v + 1
      BY <1>t, <1>w, <2>2, <3>1, <3>2
    <3>4. conv'.status = "failed"
      BY <1>x, <2>1, <2>4 DEF NotSent, SetStatus, Conv
    <3> QED
      BY <1>o, <3>3, <3>4
  <2> QED
    BY <2>3, <2>4
<1>12. ASSUME NEW p \in Workers \cup Staff, Row(p)
       PROVE  OneInv'
  <2>1. b = a /\ v = u /\ Rest(p) /\ proc[p].pc = "row"
    BY <1>12, <1>w DEF Row, At, u, v
  <2> DEFINE c == [conv EXCEPT !.replied = @ \/ Replies(p)]
  <2>2. c \in Conv /\ c.status = conv.status /\ [c EXCEPT !.aiRow = TRUE, !.status = "sent"].status = "sent"
    BY <1>x DEF Conv, Replies
  <2>3. conv' = IF p \in Staff THEN Withdrawn(c, proc[p].was) ELSE [c EXCEPT !.aiRow = TRUE, !.status = "sent"]
    BY <1>12 DEF Row
  <2> HIDE DEF c
  <2>4. CASE p \in Staff
    <3>1. proc[p].was \in BOOLEAN
      BY <1>p DEF Proc
    <3>2. conv.status = "sent" <=> conv'.status = "sent"
      BY <1>s, <2>2, <2>3, <2>4, <3>1
    <3>3. Kept
      BY <1>p, <1>r, <2>1, <2>4
    <3> QED
      BY <1>c, <1>t, <2>1, <3>2, <3>3
  <2>5. CASE p \notin Staff
    <3>1. conv'.status = "sent" /\ AutoRow(p)
      BY <1>p, <2>1, <2>2, <2>3, <2>5 DEF AutoRow, Automatic
    <3>2. b =< v + 1
      BY <1>i, <2>1
    <3>3. ASSUME NEW q \in Procs, About(q)'
          PROVE  FALSE
      <4>1. q # p /\ About(q)
        BY <1>p, <1>x, <2>1, <3>3 DEF Rest, Be, Resting, About
      <4> QED
        BY <1>i, <1>p, <3>1, <4>1
    <3> QED
      BY <1>o, <3>1, <3>2, <3>3
  <2> QED
    BY <2>4, <2>5
<1>13. ASSUME NEW w \in Workers, Killed(w)
       PROVE  OneInv'
  <2>1. b = a /\ Rest(w) /\ conv' = conv /\ w \in Procs
    BY <1>13, <1>p, <1>w DEF Killed
  <2>2. v = IF proc[w].pc = "row" THEN u + 1 ELSE u
    BY <1>13 DEF Killed, Faulty, u, v, At, TypeInv, NoteOK
  <2>3. CASE proc[w].pc # "row"
    <3>1. Kept
      BY <1>r, <2>1, <2>3 DEF AutoRow
    <3> QED
      BY <1>c, <1>t, <2>1, <2>2, <2>3, <3>1
  <2>4. CASE proc[w].pc = "row"
    <3>1. b =< v /\ b =< v + 1
      <4>1. a =< u + 1
        BY <1>i
      <4> QED
        BY <1>t, <2>1, <2>2, <2>4, <4>1
    <3>2. \A q \in Procs : About(q)' => conv'.status # "sent"
      BY <1>i, <1>x, <2>1 DEF Rest, Be, Resting, About
    <3> QED
      BY <1>o, <3>1, <3>2
  <2> QED
    BY <2>3, <2>4
<1> QED
  <2>1. ASSUME NEW p \in Workers \cup Staff, Plan(p) \/ Send(p)
        PROVE  OneInv'
    BY <1>4, <1>5, <1>6, <1>10, <1>11, <1>12, <2>1 DEF Plan, Send
  <2>2. ASSUME NEW w \in Workers, Work(w)
        PROVE  OneInv'
    BY <1>7, <1>8, <1>9, <2>1, <2>2 DEF Work
  <2>3. ASSUME NEW s \in Staff, Act(s) \/ Finish(s)
        PROVE  OneInv'
    BY <1>2, <2>1, <2>3 DEF Finish
  <2>4. CASE Fails
    BY <1>1, <1>6, <1>8, <1>11, <1>13, <2>4 DEF Fails
  <2> QED
    BY <1>1, <1>3, <2>2, <2>3, <2>4 DEF Steps

LEMMA OneInitially == Init => OneInv
<1> SUFFICES ASSUME Init
             PROVE  OneInv
  OBVIOUS
<1>1. Said(Automatic) = {} /\ note.unrecorded = 0
  <2>1. dialog = <<>>
    BY DEF Init
  <2>2. dialog \in Seq(Words) /\ Len(dialog) = 0
    BY <2>1
  <2>3. Said(Automatic) = {}
    BY <2>2 DEF Said
  <2> QED
    BY <2>3 DEF Init
<1>2. Written = 0
  BY <1>1, FS_EmptySet DEF Written
<1>3. \A p \in Procs : proc[p].pc = "idle"
  BY DEF Init, Resting
<1> QED
  BY <1>1, <1>2, <1>3 DEF OneInv, AutoRow, About

LEMMA OneInvariant == Spec => [](TypeInv /\ OneInv)
<1>1. TypeInv /\ OneInv /\ [Next]_vars => (TypeInv /\ OneInv)'
  <2> SUFFICES ASSUME TypeInv, OneInv, [Next]_vars
               PROVE  TypeInv' /\ OneInv'
    OBVIOUS
  <2>1. TypeInv'
    BY TypePreserved
  <2>2. CASE Next
    <3>1. Steps /\ Watch
      BY <2>2 DEF Next
    <3> QED
      BY <2>1, <3>1, OnePreserved
  <2>3. CASE UNCHANGED vars
    BY <2>1, <2>3 DEF vars, OneInv, Written, Said, AutoRow, About
  <2> QED
    BY <2>1, <2>2, <2>3
<1> QED
  BY <1>1, TypeInitially, OneInitially, PTL DEF Spec

(* perform_auto_send and _perform_auto_ack: a thread gets one automatic     *)
(* message and no second one, however often it is planned, postponed and    *)
(* redelivered, except after a message that left no trace in the row, or    *)
(* when two processes decided on it at the same time.                       *)
THEOREM OneMessage == Spec => []OneAutoReply
<1>1. TypeInv /\ OneInv => OneAutoReply
  <2> SUFFICES ASSUME TypeInv, OneInv, "sends" \notin races
               PROVE  Written =< 1 + note.unrecorded
    BY DEF OneAutoReply, Written
  <2>1. Written \in Nat /\ note.unrecorded \in Nat
    BY WrittenNat DEF TypeInv, NoteOK
  <2>2. Written =< note.unrecorded + 1
    BY DEF OneInv
  <2> QED
    BY <2>1, <2>2
<1> QED
  BY <1>1, OneInvariant, PTL

----------------------------------------------------------------------------
(* An answered thread.                                                     *)

\* n answers everything that is stored; p holds an answer the row will record.
Above(n)  == n \in Said(Answers) /\ \A m \in Stored : m < n
Knower(p) == \/ proc[p].pc = "answer" /\ ~note.echoed
             \/ proc[p].pc = "row" /\ proc[p].kind # "ack"

\* While no message is stored under an answer, some answer is above all that is
\* stored, and what is about to be recorded is one.
AnswerInv ==
  "answers" \notin races =>
    /\ conv.replied /\ ~note.echoed => \E n : Above(n)
    /\ \A p \in Procs : Knower(p) => Above(proc[p].at)

\* Steps that store nothing the guest said; processes that bring no new answer.
QuietTalk ==
  \/ UNCHANGED <<dialog, rows>>
  \/ \E k : Say(k)
  \/ \E m \in DOMAIN dialog : dialog[m] \notin FromGuest /\ Keep(m) /\ UNCHANGED dialog
  \/ dialog' = Append(dialog, "local") /\ rows' = Append(rows, 1)

NoNewAnswer == \A p \in Procs : Knower(p)' => Knower(p) /\ proc'[p].at = proc[p].at

LEMMA StoredStays ==
  ASSUME TypeOK, QuietTalk
  PROVE  Stored' = Stored
<1>1. rows \in Seq(Nat) /\ Len(rows) = Len(dialog) /\ Len(dialog) \in Nat
  BY DEF TypeOK
<1>2. ASSUME NEW k, NEW n \in Nat, dialog' = Append(dialog, k), rows' = Append(rows, n),
             k \notin FromGuest \/ n = 0
      PROVE  Stored' = Stored
  <2>1. dialog \in Seq(Words \cup {k})
    BY DEF TypeOK, Words
  <2> QED
    BY <1>1, <1>2, <2>1 DEF Stored
<1>3. ASSUME NEW m \in DOMAIN dialog, dialog[m] \notin FromGuest, Keep(m), UNCHANGED dialog
      PROVE  Stored' = Stored
  BY <1>1, <1>3 DEF Keep, Stored
<1>4. CASE UNCHANGED <<dialog, rows>>
  BY <1>4 DEF Stored
<1>5. CASE \E k : Say(k)
  BY <1>2, <1>5 DEF Say
<1>6. CASE dialog' = Append(dialog, "local") /\ rows' = Append(rows, 1)
  BY <1>2, <1>6 DEF FromGuest
<1> QED
  BY <1>3, <1>4, <1>5, <1>6 DEF QuietTalk

LEMMA AnswerPreserved ==
  ASSUME TypeInv, TypeInv', AnswerInv, Steps, Watch
  PROVE  AnswerInv'
<1> SUFFICES ASSUME "answers" \notin races'
             PROVE  AnswerInv'
  BY DEF AnswerInv
<1>i. /\ conv.replied /\ ~note.echoed => \E n : Above(n)
      /\ \A p \in Procs : Knower(p) => Above(proc[p].at)
  BY WatchKeeps DEF AnswerInv
<1>x. conv \in Conv /\ proc \in [Procs -> Proc] /\ \A p \in Procs : Fits(p, proc[p])
  BY DEF TypeInv, TypeOK, PcInv
<1>e. note.echoed \in BOOLEAN /\ note'.echoed \in BOOLEAN
  BY DEF TypeInv, NoteOK
<1>l. dialog \in Seq(Words) /\ Len(dialog) \in Nat /\ TypeOK
  BY DEF TypeInv, TypeOK, Words
<1>s. Said(Answers) \subseteq Said(Answers)'
  BY TalkSteps, SaidGrows DEF TypeInv
<1>a. ASSUME QuietTalk, NEW n, Above(n)
      PROVE  Above(n)'
  <2>1. Stored' = Stored
    BY <1>a, <1>l, StoredStays
  <2> QED
    BY <1>a, <1>s, <2>1 DEF Above
\* A new answer is above all that is stored.
<1>v. ASSUME NEW k \in Answers, dialog' = Append(dialog, k), QuietTalk
      PROVE  \E n : n = Len(dialog) + 1 /\ Above(n)'
  <2>1. Stored' = Stored
    BY <1>v, <1>l, StoredStays
  <2>2. PICK n : n = Len(dialog) + 1
    OBVIOUS
  <2>3. \A m \in Stored : m < n
    BY <1>l, <2>2 DEF Stored
  <2>4. n \in Said(Answers)'
    BY <1>l, <1>v, <2>2 DEF Said
  <2> QED
    BY <2>1, <2>2, <2>3, <2>4 DEF Above
<1>o. ASSUME conv'.replied /\ ~note'.echoed => \E n : Above(n)',
             \A p \in Procs : Knower(p)' => Above(proc[p].at)'
      PROVE  AnswerInv'
  BY <1>o DEF AnswerInv
<1>k. ASSUME QuietTalk, NoNewAnswer
      PROVE  \A p \in Procs : Knower(p)' => Above(proc[p].at)'
  BY <1>a, <1>i, <1>k DEF NoNewAnswer
\* Steps that answer nothing.
<1>c. ASSUME QuietTalk, NoNewAnswer, conv'.replied = conv.replied, note'.echoed = note.echoed
      PROVE  AnswerInv'
  <2>1. conv'.replied /\ ~note'.echoed => \E n : Above(n)'
    BY <1>a, <1>c, <1>i
  <2> QED
    BY <1>c, <1>k, <1>o, <2>1
<1>m. ASSUME NEW p \in Procs, NEW x, proc' = [proc EXCEPT ![p] = x], note.echoed => note'.echoed,
             x.pc \notin {"answer", "row"} \/ (x.pc = "row" /\ x.kind = "ack")
      PROVE  NoNewAnswer
  BY <1>e, <1>m, <1>x DEF NoNewAnswer, Knower
<1>u. ASSUME UNCHANGED proc, note.echoed => note'.echoed
      PROVE  NoNewAnswer
  BY <1>e, <1>u DEF NoNewAnswer, Knower
<1>r. ASSUME NEW p \in Procs, Rest(p), note.echoed => note'.echoed
      PROVE  NoNewAnswer
  <2>1. Resting.pc = "idle"
    BY DEF Resting
  <2>2. proc' = [proc EXCEPT ![p] = Resting]
    BY <1>r DEF Rest, Be
  <2> QED
    BY <1>m, <1>r, <2>1, <2>2
<1>g. ASSUME NEW p \in Procs, NEW pc, Goto(p, pc), pc \notin {"answer", "row"}, note.echoed => note'.echoed
      PROVE  NoNewAnswer
  <2>1. [proc[p] EXCEPT !.pc = pc].pc = pc
    BY <1>x DEF Proc
  <2>2. proc' = [proc EXCEPT ![p] = [proc[p] EXCEPT !.pc = pc]]
    BY <1>g, <1>x DEF Goto
  <2> QED
    BY <1>m, <1>g, <2>1, <2>2
<1>w. \A c \in Conv, y \in BOOLEAN : Withdrawn(c, y).replied = c.replied
  <2>1. ASSUME NEW c \in Conv
        PROVE  [c EXCEPT !.status = "cancelled"].replied = c.replied
    BY DEF Conv
  <2> QED
    BY <2>1 DEF Withdrawn
<1>p. ASSUME NEW p \in Workers \cup Staff
      PROVE  /\ p \in Procs /\ proc[p] \in Proc
             /\ proc[p].pc \in {"vk", "row"} => proc[p].kind \in {"panel"} \cup Automatic
             /\ proc[p].pc = "row" => proc[p].at \in Said({proc[p].kind})
  BY <1>x, ProcsAre DEF Fits
<1>h. ASSUME NEW h \in Handlers
      PROVE  /\ h \in Procs /\ proc[h] \in Proc
             /\ proc[h].pc = "store" => proc[h].at \in Said(FromGuest)
  BY <1>x, ProcsAre DEF Fits
\* Messages and answers that the handlers bring in.
<1>1. ASSUME NEW h \in Handlers, Store(h)
      PROVE  AnswerInv'
  <2>1. conv'.replied = FALSE /\ note' = note /\ proc[h].pc = "store"
    BY <1>1, <1>x DEF Store, At, Conv
  <2> DEFINE r == [proc[h] EXCEPT !.pc = "classify"]
  <2>2. r.pc = "classify" /\ Resting.pc = "idle"
    BY <1>h DEF Proc, Resting
  <2>3. proc' = [proc EXCEPT ![h] = r] \/ proc' = [proc EXCEPT ![h] = Resting]
    BY <1>1, <1>h, <1>x DEF Store, Goto, Rest, Be
  <2> HIDE DEF r
  <2>4. proc'[h].pc \in {"idle", "classify"} /\ \A q \in Procs : q # h => proc'[q] = proc[q]
    BY <1>h, <1>x, <2>2, <2>3
  <2>5. Stores(h)
    BY <2>1, <2>4 DEF Stores, At
  <2>6. ASSUME NEW q \in Procs, Knower(q)'
        PROVE  FALSE
    <3>1. q # h /\ proc'[q] = proc[q]
      BY <2>4, <2>6 DEF Knower
    <3>2. Answering(q)
      BY <2>6, <3>1 DEF Knower, Answering
    <3>3. "answers" \in races'
      BY <2>5, <3>2 DEF Watch
    <3> QED
      BY <3>3
  <2> QED
    BY <1>o, <2>1, <2>6
<1>2. ASSUME NEW h \in Handlers, Classify(h) \/ EnqueueFails(h) \/ ClassifyFails(h)
      PROVE  AnswerInv'
  <2>1. QuietTalk /\ Rest(h)
    BY <1>2 DEF Classify, EnqueueFails, ClassifyFails, QuietTalk
  <2>2. note'.echoed = note.echoed
    BY <1>2 DEF Classify, EnqueueFails, ClassifyFails, Heard, TypeInv, NoteOK
  <2>3. conv'.replied = conv.replied
    <3>1. CASE Classify(h) \/ EnqueueFails(h)
      <4>1. PICK c \in Judged : conv' = Withdrawn(c, TRUE) \/ conv' = c
        BY <3>1 DEF Classify, EnqueueFails, PlanDropped
      <4>2. scenario.moods \subseteq Moods
        BY ScenariosAssumption DEF TypeInv, TypeOK, Scenario
      <4>3. c \in Conv /\ c.replied = conv.replied
        BY <1>x, <4>2 DEF Judged, Conv
      <4> QED
        BY <1>w, <4>1, <4>3
    <3> QED
      BY <1>2, <3>1 DEF ClassifyFails
  <2>4. NoNewAnswer
    BY <1>h, <1>r, <2>1, <2>2
  <2> QED
    BY <1>c, <2>1, <2>2, <2>3, <2>4
<1>3. ASSUME NEW h \in Handlers, MarkAnswered(h)
      PROVE  AnswerInv'
  <2>1. QuietTalk /\ Rest(h) /\ note' = note /\ proc[h].pc = "answer"
    BY <1>3 DEF MarkAnswered, QuietTalk, At
  <2>2. NoNewAnswer
    BY <1>h, <1>r, <2>1
  <2>3. ~note'.echoed => \E n : Above(n)'
    BY <1>a, <1>h, <1>i, <2>1 DEF Knower
  <2> QED
    BY <1>k, <1>o, <2>1, <2>2, <2>3
<1>4. ASSUME NEW h \in Handlers, NEW m \in DOMAIN dialog, TakeGuest(h, m)
      PROVE  AnswerInv'
  <2> DEFINE r == [Resting EXCEPT !.pc = "store", !.at = m]
  <2>1. QuietTalk /\ conv' = conv /\ note' = note /\ proc' = [proc EXCEPT ![h] = r] /\ r.pc = "store"
    BY <1>4 DEF TakeGuest, QuietTalk, Be, Resting
  <2> HIDE DEF r
  <2>2. NoNewAnswer
    BY <1>h, <1>m, <2>1
  <2> QED
    BY <1>c, <2>1, <2>2
<1>5. ASSUME NEW h \in Handlers, NEW m \in DOMAIN dialog, NoteAnswer(h, m)
      PROVE  AnswerInv'
  <2> DEFINE r == [Resting EXCEPT !.pc = "answer", !.at = m, !.was = Planned]
  <2>1. QuietTalk /\ conv' = conv /\ dialog[m] \in {"staff", "panel", "reply", "ack"}
    BY <1>5 DEF NoteAnswer, QuietTalk, Said, FromGuest
  <2>2. note'.echoed = (note.echoed \/ dialog[m] = "ack")
    BY <1>5 DEF NoteAnswer, TypeInv, NoteOK
  <2>3. conv'.replied /\ ~note'.echoed => \E n : Above(n)'
    BY <1>a, <1>i, <2>1, <2>2
  <2>4. CASE ~IsLast(m)
    <3>1. NoNewAnswer
      BY <1>5, <1>u, <2>2, <2>4 DEF NoteAnswer
    <3> QED
      BY <1>k, <1>o, <2>1, <2>3, <3>1
  <2>5. CASE IsLast(m)
    <3>1. proc' = [proc EXCEPT ![h] = r] /\ r.pc = "answer" /\ r.at = m
      BY <1>5, <2>5 DEF NoteAnswer, Be, Resting
    <3> HIDE DEF r
    <3>2. dialog[m] # "ack" => Above(m)
      BY <2>1, <2>5 DEF IsLast, Above, Said, Answers
    <3>3. ASSUME NEW q \in Procs, Knower(q)'
          PROVE  Above(proc[q].at)'
      <4>1. CASE q = h
        <5>1. proc'[h] = r /\ dialog[m] # "ack"
          BY <1>h, <1>x, <2>2, <3>1, <3>3, <4>1 DEF Knower
        <5>2. Above(m)'
          BY <1>a, <2>1, <3>2, <5>1
        <5> QED
          BY <3>1, <4>1, <5>1, <5>2
      <4>2. CASE q # h
        <5>1. proc'[q] = proc[q] /\ Knower(q)
          BY <1>e, <1>x, <2>2, <3>1, <3>3, <4>2 DEF Knower
        <5>2. Above(proc[q].at)
          BY <1>i, <5>1
        <5> QED
          BY <1>a, <2>1, <5>1, <5>2
      <4> QED
        BY <4>1, <4>2
    <3> QED
      BY <1>o, <2>3, <3>3
  <2> QED
    BY <2>4, <2>5
\* The staff.
<1>6. ASSUME NEW s \in Staff, Act(s) \/ RegenSave(s) \/ RegenFails(s) \/ GiveUp(s)
      PROVE  AnswerInv'
  <2> USE DEF PanelStart, CancelPlan, RejectDraft, RegenStart
  <2>1. QuietTalk
    BY <1>6 DEF Act, RegenSave, RegenFails, GiveUp, QuietTalk
  <2>2. note'.echoed = note.echoed
    BY <1>6 DEF Act, RegenSave, RegenFails, GiveUp, Acted, TypeInv, NoteOK
  <2>3. s \in Procs /\ proc[s].was \in BOOLEAN /\ proc[s].saw \in SUBSET Nat
    BY <1>p DEF Proc
  <2>4. conv'.replied = conv.replied
    <3>1. CASE CancelPlan(s)
      BY <1>w, <1>x, <3>1
    <3>2. CASE RejectDraft(s)
      <4>1. [conv EXCEPT !.rejected = TRUE] \in Conv /\ [conv EXCEPT !.rejected = TRUE].replied = conv.replied
        BY <1>x DEF Conv
      <4> QED
        BY <1>w, <3>2, <4>1
    <3>3. CASE RegenSave(s)
      <4> DEFINE c == [conv EXCEPT !.ver = @ + 1, !.saw = proc[s].saw, !.rejected = FALSE]
      <4>1. conv \in Conv
        BY <1>x
      <4>2. conv.ver \in Nat
        BY <4>1 DEF Conv
      <4>3. conv.ver + 1 \in Nat
        BY <4>2
      <4>4. c \in Conv /\ c.replied = conv.replied
        BY <2>3, <4>1, <4>3 DEF Conv
      <4>5. conv' = Withdrawn(c, proc[s].was)
        BY <3>3 DEF RegenSave
      <4> HIDE DEF c
      <4> QED
        BY <1>w, <2>3, <4>4, <4>5
    <3>4. CASE PanelStart(s) \/ RegenStart(s) \/ RegenFails(s) \/ GiveUp(s)
      BY <3>4 DEF RegenFails, GiveUp
    <3> QED
      BY <1>6, <3>1, <3>2, <3>3, <3>4 DEF Act
  <2>5. NoNewAnswer
    <3> DEFINE x == [Resting EXCEPT !.pc = "vk", !.kind = "panel", !.was = Planned]
               y == [Resting EXCEPT !.pc = "llm", !.saw = Stored, !.was = Planned]
    <3>1. x.pc = "vk" /\ y.pc = "llm"
      BY DEF Resting
    <3>2. \/ UNCHANGED proc \/ Rest(s) \/ Goto(s, "plan")
          \/ proc' = [proc EXCEPT ![s] = x] \/ proc' = [proc EXCEPT ![s] = y]
      BY <1>6 DEF Act, RegenSave, RegenFails, GiveUp, Be
    <3> HIDE DEF x, y
    <3> QED
      BY <1>g, <1>m, <1>r, <1>u, <2>2, <2>3, <3>1, <3>2
  <2> QED
    BY <1>c, <2>1, <2>2, <2>4, <2>5
<1>7. ASSUME NEW s \in Staff, KeepLocally(s)
      PROVE  AnswerInv'
  <2>1. QuietTalk /\ Rest(s) /\ note' = note /\ dialog' = Append(dialog, "local")
    BY <1>7 DEF KeepLocally, QuietTalk
  <2>2. NoNewAnswer
    BY <1>p, <1>r, <2>1
  <2>3. \E n : Above(n)'
    BY <1>v, <2>1 DEF Answers
  <2> QED
    BY <1>k, <1>o, <2>1, <2>2, <2>3
<1>8. CASE GuestWrites \/ StaffWriteInVk \/ DebounceEnds \/ Reclassify \/ Reclassified
  <2>1. QuietTalk /\ UNCHANGED proc
    BY <1>8 DEF GuestWrites, StaffWriteInVk, DebounceEnds, Reclassify, Reclassified, QuietTalk
  <2>2. note'.echoed = note.echoed
    BY <1>8 DEF GuestWrites, StaffWriteInVk, DebounceEnds, Reclassify, Reclassified, Acted, TypeInv, NoteOK
  <2>3. conv'.replied = conv.replied
    BY <1>8, <1>x DEF GuestWrites, StaffWriteInVk, DebounceEnds, Reclassify, Reclassified, Judged, Conv
  <2>4. NoNewAnswer
    BY <1>u, <2>1, <2>2
  <2> QED
    BY <1>c, <2>1, <2>2, <2>3, <2>4
\* Drafts, plans and tasks.
<1>9. ASSUME NEW w \in Workers, DraftStart(w) \/ DraftFails(w) \/ DraftSave(w)
      PROVE  AnswerInv'
  <2>1. QuietTalk /\ note'.echoed = note.echoed
    BY <1>9 DEF DraftStart, DraftFails, DraftSave, QuietTalk, TypeInv, NoteOK
  <2>2. conv'.replied = conv.replied
    BY <1>9, <1>x DEF DraftStart, DraftFails, DraftSave, Conv
  <2> DEFINE x == [Resting EXCEPT !.pc = "plan"]
             y == [Resting EXCEPT !.pc = "llm", !.mark = Mark, !.saw = Stored]
  <2>3. x.pc = "plan" /\ y.pc = "llm"
    BY DEF Resting
  <2>4. proc' = [proc EXCEPT ![w] = x] \/ proc' = [proc EXCEPT ![w] = y] \/ Rest(w)
    BY <1>9 DEF DraftStart, DraftFails, DraftSave, AckInstead, Be
  <2> HIDE DEF x, y
  <2>5. NoNewAnswer
    BY <1>m, <1>p, <1>r, <2>1, <2>3, <2>4
  <2> QED
    BY <1>c, <2>1, <2>2, <2>5
<1>10. ASSUME NEW p \in Workers \cup Staff,
              PlanRead(p) \/ NoPlan(p) \/ PlanWrite(p) \/ PlanFails(p) \/ PlanCutOff(p)
       PROVE  AnswerInv'
  <2>1. QuietTalk /\ note'.echoed = note.echoed
    BY <1>10 DEF PlanRead, NoPlan, PlanWrite, PlanFails, PlanCutOff, QuietTalk, Faulty, TypeInv, NoteOK
  <2>2. conv'.replied = conv.replied
    BY <1>10, <1>x DEF PlanRead, NoPlan, PlanWrite, PlanFails, PlanCutOff, PlanOf, Rollback, SetStatus, Conv
  <2> DEFINE x == [proc[p] EXCEPT !.pc = "write", !.kind = Chosen[1], !.ticket = Chosen[2]]
  <2>3. x.pc = "write"
    BY <1>p DEF Proc
  <2>4. Rest(p) \/ proc' = [proc EXCEPT ![p] = x]
    BY <1>10, <1>p, <1>x DEF PlanRead, NoPlan, PlanWrite, PlanFails, PlanCutOff
  <2> HIDE DEF x
  <2>5. NoNewAnswer
    BY <1>m, <1>p, <1>r, <2>1, <2>3, <2>4
  <2> QED
    BY <1>c, <2>1, <2>2, <2>5
<1>11. ASSUME NEW k \in Tickets, \/ Redelivered(k)
              \/ \E w \in Workers : TaskEnds(w, k) \/ TaskRefused(w, k) \/ TaskPostponed(w, k)
       PROVE  AnswerInv'
  <2>1. QuietTalk /\ note'.echoed = note.echoed /\ UNCHANGED proc
    BY <1>11 DEF Redelivered, TaskEnds, TaskRefused, TaskPostponed, QuietTalk, Faulty, TypeInv, NoteOK
  <2>2. conv'.replied = conv.replied
    BY <1>11, <1>x DEF Redelivered, TaskEnds, TaskRefused, TaskPostponed, SetStatus, Conv
  <2>3. NoNewAnswer
    BY <1>u, <2>1
  <2> QED
    BY <1>c, <2>1, <2>2, <2>3
<1>12. ASSUME NEW w \in Workers, NEW k \in Tickets, TaskSends(w, k)
       PROVE  AnswerInv'
  <2> DEFINE x == [Resting EXCEPT !.pc = "vk", !.kind = conv.kind]
  <2>1. QuietTalk /\ note' = note /\ conv' = conv /\ proc' = [proc EXCEPT ![w] = x] /\ x.pc = "vk"
    BY <1>12 DEF TaskSends, QuietTalk, Be, Resting
  <2> HIDE DEF x
  <2>2. NoNewAnswer
    BY <1>m, <1>p, <2>1
  <2> QED
    BY <1>c, <2>1, <2>2
<1>13. ASSUME NEW p \in Workers \cup Staff, VkRefuses(p) \/ AnswerLost(p)
       PROVE  AnswerInv'
  <2>1. QuietTalk /\ note'.echoed = note.echoed /\ NotSent(p)
    BY <1>13 DEF VkRefuses, AnswerLost, QuietTalk, Faulty, TypeInv, NoteOK
  <2>2. conv'.replied = conv.replied
    BY <1>x, <2>1 DEF NotSent, SetStatus, Conv
  <2>3. NoNewAnswer
    BY <1>g, <1>p, <1>r, <2>1 DEF NotSent
  <2> QED
    BY <1>c, <2>1, <2>2, <2>3
<1>14. ASSUME NEW w \in Workers, Killed(w)
       PROVE  AnswerInv'
  <2>1. QuietTalk /\ note'.echoed = note.echoed /\ conv' = conv /\ Rest(w)
    BY <1>14 DEF Killed, QuietTalk, Faulty, TypeInv, NoteOK
  <2>2. NoNewAnswer
    BY <1>p, <1>r, <2>1
  <2> QED
    BY <1>c, <2>1, <2>2
\* What VK has taken is above all that is stored, until its row says so.
<1>15. ASSUME NEW p \in Workers \cup Staff, VkAccepts(p)
       PROVE  AnswerInv'
  <2> DEFINE x == [proc[p] EXCEPT !.pc = "row", !.at = Len(dialog) + 1]
  <2>1. /\ QuietTalk /\ note' = note /\ conv' = conv /\ proc[p].pc = "vk"
        /\ dialog' = Append(dialog, proc[p].kind) /\ proc' = [proc EXCEPT ![p] = x]
    BY <1>15, <1>p, <1>x DEF VkAccepts, QuietTalk, At, Say
  <2>2. x.pc = "row" /\ x.kind = proc[p].kind /\ x.at = Len(dialog) + 1
    BY <1>l, <1>p DEF Proc
  <2> HIDE DEF x
  <2>3. CASE proc[p].kind = "ack"
    <3>1. NoNewAnswer
      BY <1>m, <1>p, <2>1, <2>2, <2>3
    <3> QED
      BY <1>c, <2>1, <3>1
  <2>4. CASE proc[p].kind # "ack"
    <3>1. proc[p].kind \in Answers
      BY <1>p, <2>1, <2>4 DEF Automatic, Answers
    <3>2. PICK last : last = Len(dialog) + 1 /\ Above(last)'
      BY <1>v, <2>1, <3>1
    <3>3. ASSUME NEW q \in Procs, Knower(q)'
          PROVE  Above(proc[q].at)'
      <4>1. CASE q = p
        <5>1. proc'[q].at = last
          BY <1>x, <2>1, <2>2, <3>2, <4>1
        <5> QED
          BY <3>2, <5>1 DEF Above
      <4>2. CASE q # p
        <5>1. proc'[q] = proc[q] /\ Knower(q)
          BY <1>x, <2>1, <3>3, <4>2 DEF Knower
        <5>2. Above(proc[q].at)
          BY <1>i, <5>1
        <5> QED
          BY <1>a, <2>1, <5>1, <5>2
      <4> QED
        BY <4>1, <4>2
    <3>4. conv'.replied /\ ~note'.echoed => \E n : Above(n)'
      BY <3>2
    <3> QED
      BY <1>o, <3>3, <3>4
  <2> QED
    BY <2>3, <2>4
<1>16. ASSUME NEW p \in Workers \cup Staff, Row(p)
       PROVE  AnswerInv'
  <2>1. proc[p].pc = "row" /\ Rest(p) /\ note' = note
    BY <1>16 DEF Row, At
  <2>2. proc[p].at \in DOMAIN dialog /\ dialog[proc[p].at] \notin FromGuest
    BY <1>p, <2>1 DEF Said, Automatic, FromGuest
  <2>3. QuietTalk
    BY <1>16, <2>2 DEF Row, QuietTalk
  <2>4. NoNewAnswer
    BY <1>p, <1>r, <2>1
  <2>5. CASE proc[p].kind # "ack"
    <3>1. \E n : Above(n)'
      BY <1>a, <1>i, <1>p, <2>1, <2>3, <2>5 DEF Knower
    <3> QED
      BY <1>k, <1>o, <2>3, <2>4, <3>1
  <2>6. CASE proc[p].kind = "ack"
    <3> DEFINE c == [conv EXCEPT !.replied = @ \/ Replies(p)]
    <3>1. c \in Conv /\ c.replied = conv.replied /\ [c EXCEPT !.aiRow = TRUE, !.status = "sent"].replied = c.replied
      BY <1>x, <2>6 DEF Conv, Replies
    <3>2. conv' = IF p \in Staff THEN Withdrawn(c, proc[p].was) ELSE [c EXCEPT !.aiRow = TRUE, !.status = "sent"]
      BY <1>16 DEF Row
    <3> HIDE DEF c
    <3>3. proc[p].was \in BOOLEAN
      BY <1>p DEF Proc
    <3>4. conv'.replied = conv.replied
      BY <1>w, <3>1, <3>2, <3>3
    <3> QED
      BY <1>c, <2>1, <2>3, <2>4, <3>4
  <2> QED
    BY <2>5, <2>6
<1> QED
  <2>1. ASSUME NEW p \in Workers \cup Staff, Plan(p) \/ Send(p)
        PROVE  AnswerInv'
    BY <1>10, <1>13, <1>15, <1>16, <2>1 DEF Plan, Send
  <2>2. ASSUME NEW w \in Workers, Work(w)
        PROVE  AnswerInv'
    BY <1>9, <1>11, <1>12, <2>1, <2>2 DEF Work
  <2>3. ASSUME NEW s \in Staff, Act(s) \/ Finish(s)
        PROVE  AnswerInv'
    BY <1>6, <1>7, <2>1, <2>3 DEF Finish
  <2>4. CASE Fails
    BY <1>2, <1>10, <1>11, <1>13, <1>14, <2>4 DEF Fails
  <2>5. ASSUME NEW h \in Handlers, Handle(h)
        PROVE  AnswerInv'
    BY <1>1, <1>2, <1>3, <1>4, <1>5, <2>5 DEF Handle
  <2> QED
    BY <1>8, <2>2, <2>3, <2>4, <2>5 DEF Steps

LEMMA AnswerInvariant == Spec => [](TypeInv /\ AnswerInv)
<1>1. Init => AnswerInv
  <2> SUFFICES ASSUME Init
               PROVE  AnswerInv
    OBVIOUS
  <2>1. ~conv.replied /\ \A p \in Procs : proc[p].pc = "idle"
    BY DEF Init, Resting
  <2> QED
    BY <2>1 DEF AnswerInv, Knower
<1>2. TypeInv /\ AnswerInv /\ [Next]_vars => (TypeInv /\ AnswerInv)'
  <2> SUFFICES ASSUME TypeInv, AnswerInv, [Next]_vars
               PROVE  TypeInv' /\ AnswerInv'
    OBVIOUS
  <2>1. TypeInv'
    BY TypePreserved
  <2>2. CASE Next
    <3>1. Steps /\ Watch
      BY <2>2 DEF Next
    <3> QED
      BY <2>1, <3>1, AnswerPreserved
  <2>3. CASE UNCHANGED vars
    BY <2>1, <2>3 DEF vars, AnswerInv, Above, Knower, Said, Stored
  <2> QED
    BY <2>1, <2>2, <2>3
<1> QED
  BY <1>1, <1>2, TypeInitially, PTL DEF Spec

(* is_replied, which hides a thread from the staff: everything stored from  *)
(* the guest has an answer after it, by the staff or the assistant and not  *)
(* only the acknowledgement, whoever stores, answers and sends meanwhile;   *)
(* unless a message was stored while somebody answered, or the              *)
(* acknowledgement came back from VK before it had a row.                   *)
THEOREM RepliedIsAnswered == Spec => []AnsweredMeansAnswered
<1>1. AnswerInv => AnsweredMeansAnswered
  BY DEF AnswerInv, AnsweredMeansAnswered, Above
<1> QED
  BY <1>1, AnswerInvariant, PTL

----------------------------------------------------------------------------
(* Drafts that know what the guest said.                                   *)

\* What the property leaves out: a generation that was refused or lost, drafts
\* that met, messages stored after later ones; and tenants without drafts.
Excused == note.missed \/ {"drafts", "late"} \cap races # {} \/ "draft" \notin scenario.modes

UpTo(n)     == {m \in Stored : m =< n}
Drafting(p) == proc[p].pc \in {"llm", "plan", "write"}
Ready       == Planned /\ conv.kind = "reply" /\ conv.ver > 0

\* What was classified is stored, and gave the thread its mood.
HeardInv ==
  /\ note.heard \subseteq Stored
  /\ conv.mood = "none" => note.heard = {}
  /\ \A p \in Procs : At(p, "classify") => proc[p].at \in Stored

\* One draft at a time is written; it is shown all that is stored and more than
\* the last one, and a mark says how far it goes.
DraftInv ==
  /\ \A p, q \in Procs : Drafting(p) /\ Drafting(q) => p = q
  /\ queue.regen # "lost"
  /\ conv.saw \subseteq Stored
  /\ conv.of[1] \in Stored \cup {0} /\ UpTo(conv.of[1]) \subseteq conv.saw
  /\ \A p \in Procs : At(p, "llm") => conv.saw \subseteq proc[p].saw /\ proc[p].saw \subseteq Stored
  /\ \A w \in Workers : At(w, "llm") => /\ proc[w].mark[1] \in Stored \cup {0}
                                        /\ UpTo(proc[w].mark[1]) \subseteq proc[w].saw

\* The draft knows what was classified, or one that does is on its way, or its
\* generation found the thread answered.
Awaited ==
  \/ note.heard \subseteq conv.saw
  \/ queue.due > 0 \/ queue.regen = "waits" \/ note.moot
  \/ \E w \in Workers : At(w, "llm") /\ note.heard \subseteq proc[w].saw

\* While nothing became known beside a draft, the draft of every plan knows all.
Informed ==
  "news" \notin races =>
    /\ Ready => note.heard \subseteq conv.saw
    /\ \A p \in Procs :
         /\ At(p, "llm") => note.heard \subseteq proc[p].saw
         /\ At(p, "plan") => note.heard \subseteq conv.saw
         /\ At(p, "write") /\ proc[p].kind = "reply" => note.heard \subseteq conv.saw

NewsInv == HeardInv /\ (~Excused => DraftInv /\ Awaited /\ Informed)

LEMMA WatchDrafts ==
  ASSUME Watch, "drafts" \notin races', NEW p \in Procs, NEW q \in Procs, Drafting(p)', Drafting(q)'
  PROVE  p = q
<1> SUFFICES ASSUME p # q
             PROVE  FALSE
  OBVIOUS
<1>1. Drafts(p) /\ Drafts(q)
  BY DEF Drafts, Drafting
<1>2. Meet(Drafts)
  BY <1>1 DEF Meet
<1>3. "drafts" \in races'
  BY <1>2 DEF Watch
<1> QED
  BY <1>3

\* The mark of a draft covers all that is stored when it starts.
LEMMA MarkCovers ==
  ASSUME TypeOK
  PROVE  Mark[1] \in Stored \cup {0} /\ UpTo(Mark[1]) = Stored
<1>1. Len(dialog) \in Nat /\ Stored \in SUBSET (1 .. Len(dialog))
  BY DEF TypeOK, Stored
<1>2. CASE Stored = {}
  BY <1>2 DEF Mark, UpTo
<1>3. CASE Stored # {}
  <2>1. Max(Stored) \in Stored /\ \A m \in Stored : Max(Stored) >= m
    BY <1>1, <1>3, MaxExists
  <2>2. Mark[1] = Max(Stored)
    BY <1>3 DEF Mark
  <2>3. \A m \in Stored : m =< Max(Stored)
    BY <1>1, <2>1
  <2> QED
    BY <2>1, <2>2, <2>3 DEF UpTo
<1> QED
  BY <1>2, <1>3

\* The work of p on drafts goes on as it was.
SameWork(p) ==
  /\ At(p, "llm")' => At(p, "llm") /\ proc'[p].saw = proc[p].saw /\ proc'[p].mark = proc[p].mark
  /\ p \in Workers /\ At(p, "llm") => At(p, "llm")' \/ note'.missed
  /\ At(p, "plan")' => At(p, "plan")
  /\ At(p, "write")' => At(p, "write") /\ proc'[p].kind = proc[p].kind
  /\ At(p, "classify")' => At(p, "classify") /\ proc'[p].at = proc[p].at

SameConv ==
  /\ conv'.saw = conv.saw /\ conv'.of = conv.of /\ (Ready' => Ready)
  /\ conv'.mood = "none" => conv.mood = "none"

SameNews ==
  /\ note'.heard = note.heard /\ (note.missed => note'.missed) /\ (note.moot => note'.moot)
  /\ queue'.regen = "lost" => queue.regen = "lost"
  /\ queue.due > 0 \/ queue.regen = "waits" => queue'.due > 0 \/ queue'.regen = "waits"

LEMMA ExcusesStay ==
  ASSUME Steps, Watch, note.missed => note'.missed, ~Excused'
  PROVE  ~Excused /\ {"drafts", "late"} \cap races' = {} /\ ~note'.missed /\ "draft" \in scenario.modes
<1>1. scenario' = scenario /\ races \subseteq races'
  BY ScenarioStays, WatchKeeps
<1> QED
  BY <1>1 DEF Excused

LEMMA NewsQuiet ==
  ASSUME TypeOK, NewsInv, Steps, Watch, QuietTalk, SameConv, SameNews, \A p \in Procs : SameWork(p)
  PROVE  NewsInv'
<1>1. Stored' = Stored /\ \A n : UpTo(n)' = UpTo(n)
  BY StoredStays DEF UpTo
<1>2. HeardInv'
  BY <1>1 DEF NewsInv, HeardInv, SameNews, SameConv, SameWork
<1>3. ASSUME ~Excused'
      PROVE  DraftInv' /\ Awaited' /\ Informed'
  <2>1. ~Excused /\ {"drafts", "late"} \cap races' = {} /\ ~note'.missed
    BY <1>3, ExcusesStay DEF SameNews
  <2>2. DraftInv /\ Awaited /\ Informed
    BY <2>1 DEF NewsInv
  <2>3. ASSUME NEW p \in Procs, NEW q \in Procs, Drafting(p)', Drafting(q)'
        PROVE  p = q
    <3>1. "drafts" \notin races'
      BY <2>1
    <3> QED
      BY <2>3, <3>1, WatchDrafts
  <2>4. UpTo(conv.of[1])' = UpTo(conv.of[1])
    BY <1>1 DEF SameConv, UpTo
  <2>5. ASSUME NEW w \in Workers, At(w, "llm")'
        PROVE  proc'[w].mark[1] \in Stored' \cup {0} /\ UpTo(proc[w].mark[1])' \subseteq proc'[w].saw
    <3>1. w \in Procs /\ At(w, "llm") /\ proc'[w].saw = proc[w].saw /\ proc'[w].mark = proc[w].mark
      BY <2>5, ProcsAre DEF SameWork
    <3>2. proc[w].mark[1] \in Stored \cup {0} /\ UpTo(proc[w].mark[1]) \subseteq proc[w].saw
      BY <2>2, <3>1 DEF DraftInv
    <3> QED
      BY <1>1, <3>1, <3>2 DEF UpTo
  <2>6. \A p \in Procs : At(p, "llm")' => conv'.saw \subseteq proc'[p].saw /\ proc'[p].saw \subseteq Stored'
    BY <1>1, <2>2 DEF DraftInv, SameConv, SameWork
  <2>7. DraftInv'
    BY <1>1, <2>2, <2>3, <2>4, <2>5, <2>6 DEF DraftInv, SameConv, SameNews
  <2>8. Awaited'
    BY <2>1, <2>2, ProcsAre DEF Awaited, SameConv, SameNews, SameWork
  <2>9. Informed'
    BY <2>2, WatchKeeps DEF Informed, SameConv, SameNews, SameWork
  <2> QED
    BY <2>7, <2>8, <2>9
<1> QED
  BY <1>2, <1>3 DEF NewsInv

\* What was heard stays where nothing is classified.
LEMMA HeardQuiet ==
  ASSUME TypeOK, HeardInv, QuietTalk, note'.heard = note.heard,
         conv'.mood = "none" => conv.mood = "none",
         \A p \in Procs : At(p, "classify")' => At(p, "classify") /\ proc'[p].at = proc[p].at
  PROVE  HeardInv'
<1>1. Stored' = Stored
  BY StoredStays
<1> QED
  BY <1>1 DEF HeardInv

\* A step of p on drafts, which stores and classifies nothing.
LEMMA DraftMoves ==
  ASSUME TypeOK, NewsInv, Steps, Watch, QuietTalk, NEW p \in Procs,
         \A q \in Procs : q # p => proc'[q] = proc[q],
         ~At(p, "classify")', note'.heard = note.heard, conv'.mood = "none" => conv.mood = "none",
         note.missed => note'.missed, queue'.regen = "lost" => queue.regen = "lost",
         ~Excused /\ ~Excused' =>
           /\ conv'.saw \subseteq Stored /\ conv'.of[1] \in Stored \cup {0}
           /\ UpTo(conv'.of[1]) \subseteq conv'.saw
           /\ At(p, "llm")' => /\ conv'.saw \subseteq proc'[p].saw /\ proc'[p].saw \subseteq Stored
                               /\ proc'[p].mark[1] \in Stored \cup {0} \/ p \notin Workers
                               /\ UpTo(proc'[p].mark[1]) \subseteq proc'[p].saw \/ p \notin Workers
           /\ conv'.saw = conv.saw \/ Drafting(p)
           /\ Awaited' /\ Informed'
  PROVE  NewsInv'
<1>1. Stored' = Stored
  BY StoredStays
<1>2. HeardInv'
  BY HeardQuiet DEF NewsInv, At
<1>3. ASSUME ~Excused'
      PROVE  DraftInv' /\ Awaited' /\ Informed'
  <2>1. ~Excused /\ {"drafts", "late"} \cap races' = {}
    BY <1>3, ExcusesStay
  <2>2. DraftInv
    BY <2>1 DEF NewsInv
  <2>3. ASSUME NEW q \in Procs, NEW r \in Procs, Drafting(q)', Drafting(r)'
        PROVE  q = r
    <3>1. "drafts" \notin races'
      BY <2>1
    <3> QED
      BY <2>3, <3>1, WatchDrafts
  <2>4. UpTo(conv.of[1])' \subseteq conv'.saw
    BY <1>1, <1>3, <2>1 DEF UpTo
  <2>5. ASSUME NEW q \in Procs, At(q, "llm")'
        PROVE  /\ conv'.saw \subseteq proc'[q].saw /\ proc'[q].saw \subseteq Stored'
               /\ q \in Workers => /\ proc'[q].mark[1] \in Stored' \cup {0}
                                   /\ UpTo(proc[q].mark[1])' \subseteq proc'[q].saw
    <3>1. CASE q = p
      BY <1>1, <1>3, <2>1, <2>5, <3>1 DEF UpTo
    <3>2. CASE q # p
      <4>1. At(q, "llm") /\ proc'[q] = proc[q]
        BY <2>5, <3>2 DEF At
      <4>2. ~Drafting(p)
        BY <2>2, <3>2, <4>1 DEF DraftInv, Drafting, At
      <4>3. conv'.saw = conv.saw
        BY <1>3, <2>1, <4>2
      <4> QED
        BY <1>1, <2>2, <4>1, <4>3 DEF DraftInv, UpTo
    <3> QED
      BY <3>1, <3>2
  <2>6. \A w \in Workers : w \in Procs
    BY ProcsAre
  <2>7. queue'.regen # "lost" /\ conv'.saw \subseteq Stored' /\ conv'.of[1] \in Stored' \cup {0}
    BY <1>1, <1>3, <2>1, <2>2 DEF DraftInv
  <2>8. DraftInv'
    BY <2>3, <2>4, <2>5, <2>6, <2>7 DEF DraftInv
  <2> QED
    BY <1>3, <2>1, <2>8
<1> QED
  BY <1>2, <1>3 DEF NewsInv

\* Messages that are stored: above all that was, or "late".
LEMMA NewsStored ==
  ASSUME TypeInv, NewsInv, Steps, Watch, NEW h \in Handlers, Store(h)
  PROVE  NewsInv'
<1> DEFINE m == proc[h].at
<1>1. /\ h \in Procs /\ m \in DOMAIN dialog /\ dialog[m] \in FromGuest /\ proc[h].pc = "store"
      /\ proc[h] \in Proc /\ proc \in [Procs -> Proc]
  BY ProcsAre DEF TypeInv, TypeOK, PcInv, Fits, Said, Store, At
<1>2. /\ DOMAIN dialog = 1 .. Len(dialog) /\ Len(dialog) \in Nat
      /\ rows \in Seq(Nat) /\ Len(rows) = Len(dialog) /\ m \in Nat \ {0}
  BY <1>1 DEF TypeInv, TypeOK
<1>3. rows' = [rows EXCEPT ![m] = @ + 1] /\ UNCHANGED dialog
  BY DEF Store, Keep
<1>4. Stored' = Stored \cup {m}
  BY <1>1, <1>2, <1>3 DEF Stored
<1>5. /\ note' = note /\ queue' = queue
      /\ conv'.saw = conv.saw /\ conv'.of = conv.of /\ conv'.mood = conv.mood
      /\ Ready' <=> Ready
  BY DEF Store, TypeInv, TypeOK, Conv, Ready, Planned
<1> DEFINE r == [proc[h] EXCEPT !.pc = "classify"]
<1>6. r.pc = "classify" /\ r.at = m /\ Resting.pc = "idle"
  BY <1>1 DEF Proc, Resting
<1>7. proc' = [proc EXCEPT ![h] = r] \/ proc' = [proc EXCEPT ![h] = Resting]
  BY <1>1 DEF Store, Goto, Rest, Be
<1> HIDE DEF r
<1>8. /\ \A q \in Procs : q # h => proc'[q] = proc[q]
      /\ proc'[h].pc \in {"classify", "idle"} /\ (proc'[h].pc = "classify" => proc'[h].at = m)
  BY <1>1, <1>6, <1>7
<1>9. HeardInv'
  BY <1>4, <1>5, <1>8 DEF NewsInv, HeardInv, At
<1>10. ASSUME ~Excused'
       PROVE  DraftInv' /\ Awaited' /\ Informed'
  <2>1. ~Excused /\ {"drafts", "late"} \cap races' = {}
    BY <1>5, <1>10, ExcusesStay
  <2>2. DraftInv /\ Awaited /\ Informed
    BY <2>1 DEF NewsInv
  <2>3. \A g \in Stored : g \in Nat /\ g =< m
    <3>1. Stores(h)
      BY <1>1, <1>8 DEF Stores, At
    <3>2. \A g \in Stored : ~(g > m)
      BY <2>1, <3>1 DEF Watch
    <3>3. \A g \in Stored : g \in Nat
      BY <1>2 DEF Stored
    <3> QED
      BY <1>2, <3>2, <3>3
  <2>4. ASSUME NEW n \in Stored \cup {0}
        PROVE  n \in Stored' \cup {0} /\ {k \in Stored' : k =< n} = UpTo(n)
    <3>1. m =< n => m \in Stored
      <4>1. n = 0 => ~(m =< n)
        BY <1>2
      <4>2. n \in Stored => (m =< n => m = n)
        BY <1>2, <2>3
      <4> QED
        BY <4>1, <4>2
    <3> HIDE DEF m
    <3> QED
      BY <1>4, <3>1 DEF UpTo
  <2>5. ASSUME NEW p \in Procs, NEW q \in Procs, Drafting(p)', Drafting(q)'
        PROVE  p = q
    <3>1. "drafts" \notin races'
      BY <2>1
    <3> QED
      BY <2>5, <3>1, WatchDrafts
  <2>6. \A q \in Procs : At(q, "llm")' => At(q, "llm") /\ proc'[q] = proc[q]
    BY <1>8 DEF At
  <2>7. UpTo(conv.of[1])' \subseteq conv'.saw /\ conv'.of[1] \in Stored' \cup {0}
    BY <1>5, <2>2, <2>4 DEF DraftInv, UpTo
  <2>8. ASSUME NEW w \in Workers, At(w, "llm")'
        PROVE  proc'[w].mark[1] \in Stored' \cup {0} /\ UpTo(proc[w].mark[1])' \subseteq proc'[w].saw
    <3>1. At(w, "llm") /\ proc'[w] = proc[w]
      BY <2>6, <2>8, ProcsAre
    <3>2. proc[w].mark[1] \in Stored \cup {0} /\ UpTo(proc[w].mark[1]) \subseteq proc[w].saw
      BY <2>2, <3>1 DEF DraftInv
    <3>3. {k \in Stored' : k =< proc[w].mark[1]} = UpTo(proc[w].mark[1])
      BY <2>4, <3>2
    <3> QED
      BY <1>4, <3>1, <3>2, <3>3 DEF UpTo
  <2>9. \A p \in Procs : At(p, "llm")' => conv'.saw \subseteq proc'[p].saw /\ proc'[p].saw \subseteq Stored'
    BY <1>4, <1>5, <2>2, <2>6 DEF DraftInv
  <2>10. conv'.saw \subseteq Stored' /\ queue'.regen # "lost"
    BY <1>4, <1>5, <2>2 DEF DraftInv
  <2>11. DraftInv'
    BY <2>5, <2>7, <2>8, <2>9, <2>10 DEF DraftInv
  <2>12. h \notin Workers
    BY ProcsAre
  <2>13. Awaited'
    BY <1>5, <1>8, <2>2, <2>12, ProcsAre DEF Awaited, At
  <2>14. Informed'
    BY <1>5, <1>8, <2>2, WatchKeeps DEF Informed, At
  <2> QED
    BY <2>11, <2>13, <2>14
<1> QED
  BY <1>9, <1>10 DEF NewsInv

\* A message that is classified: its generation is due, and plans that do not
\* know it are dropped unless somebody was at work on them.
LEMMA NewsHeard ==
  ASSUME TypeInv, NewsInv, Steps, Watch, NEW h \in Handlers, Classify(h) \/ EnqueueFails(h)
  PROVE  NewsInv'
<1>1. /\ h \in Procs /\ proc[h].pc = "classify" /\ proc \in [Procs -> Proc] /\ conv \in Conv
      /\ queue.due \in Nat /\ queue.regen \in {"none", "waits", "lost"}
  BY ProcsAre DEF TypeInv, TypeOK, Queue, Classify, EnqueueFails, At
<1>2. PICK c \in Judged : \/ HasDraft /\ conv' = Withdrawn(c, TRUE)
                          \/ ~HasDraft /\ conv' = c
  BY DEF Classify, EnqueueFails, PlanDropped
<1>3. /\ c \in Conv /\ c.mood # "none" /\ c.saw = conv.saw /\ c.of = conv.of /\ c.ver = conv.ver
  <2>1. scenario.moods \subseteq Moods \ {"none"}
    BY ScenariosAssumption DEF TypeInv, TypeOK, Scenario
  <2> QED
    <3>1. PICK d \in scenario.moods : c = [conv EXCEPT !.mood = d]
      BY DEF Judged
    <3>2. d \in Moods /\ d # "none"
      BY <2>1
    <3> QED
      BY <1>1, <3>1, <3>2 DEF Conv
<1>4. conv'.saw = conv.saw /\ conv'.of = conv.of /\ conv'.mood # "none" /\ ~Ready'
  <2>1. CASE HasDraft /\ conv' = Withdrawn(c, TRUE)
    <3>1. CASE c.status = "scheduled"
      <4>1. conv' = [c EXCEPT !.status = "cancelled"]
        BY <2>1, <3>1 DEF Withdrawn
      <4>2. /\ conv'.saw = c.saw /\ conv'.of = c.of /\ conv'.mood = c.mood
            /\ conv'.status = "cancelled"
        BY <1>3, <4>1 DEF Conv
      <4> QED
        BY <1>3, <4>2 DEF Ready, Planned
    <3>2. CASE c.status # "scheduled"
      <4>1. conv' = c
        BY <2>1, <3>2 DEF Withdrawn
      <4> QED
        BY <1>3, <3>2, <4>1 DEF Ready, Planned
    <3> QED
      BY <3>1, <3>2
  <2>2. CASE ~HasDraft /\ conv' = c
    BY <1>3, <2>2 DEF HasDraft, Ready
  <2> QED
    BY <1>2, <2>1, <2>2
<1>5. note'.heard = note.heard \cup {proc[h].at} /\ (note.missed => note'.missed)
  BY DEF Classify, EnqueueFails, Heard, TypeInv, NoteOK
<1>6. QuietTalk /\ proc' = [proc EXCEPT ![h] = Resting] /\ Resting.pc = "idle"
  BY DEF Classify, EnqueueFails, QuietTalk, Rest, Be, Resting
<1>7. Stored' = Stored
  BY <1>6, StoredStays DEF TypeInv
<1>8. \A q \in Procs : (q # h => proc'[q] = proc[q]) /\ (q = h => proc'[q].pc = "idle")
  BY <1>1, <1>6
<1>9. HeardInv'
  BY <1>1, <1>4, <1>5, <1>7, <1>8 DEF NewsInv, HeardInv, At
<1>10. ASSUME ~Excused'
       PROVE  DraftInv' /\ Awaited' /\ Informed'
  <2>1. ~Excused /\ {"drafts", "late"} \cap races' = {} /\ ~note'.missed
    BY <1>5, <1>10, ExcusesStay
  <2>2. DraftInv /\ Awaited /\ Informed
    BY <2>1 DEF NewsInv
  <2>3. Classify(h)
    BY <2>1 DEF EnqueueFails, Heard, TypeInv, NoteOK
  <2>4. queue'.due > 0 \/ queue'.regen = "waits"
    BY <1>1, <2>2, <2>3 DEF Classify, DraftInv, TypeInv, TypeOK, Queue
  <2>5. queue'.regen # "lost"
    BY <1>1, <2>2, <2>3 DEF Classify, DraftInv, TypeInv, TypeOK, Queue
  <2>6. ASSUME NEW p \in Procs, NEW q \in Procs, Drafting(p)', Drafting(q)'
        PROVE  p = q
    <3>1. "drafts" \notin races'
      BY <2>1
    <3> QED
      BY <2>6, <3>1, WatchDrafts
  <2>7. \A q \in Procs : At(q, "llm")' => At(q, "llm") /\ proc'[q] = proc[q]
    BY <1>8 DEF At
  <2>8. UpTo(conv.of[1])' \subseteq conv'.saw /\ conv'.of[1] \in Stored' \cup {0} /\ conv'.saw \subseteq Stored'
    BY <1>4, <1>7, <2>2 DEF DraftInv, UpTo
  <2>9. ASSUME NEW w \in Workers, At(w, "llm")'
        PROVE  proc'[w].mark[1] \in Stored' \cup {0} /\ UpTo(proc[w].mark[1])' \subseteq proc'[w].saw
    <3>1. At(w, "llm") /\ proc'[w] = proc[w]
      BY <2>7, <2>9, ProcsAre
    <3>2. proc[w].mark[1] \in Stored \cup {0} /\ UpTo(proc[w].mark[1]) \subseteq proc[w].saw
      BY <2>2, <3>1 DEF DraftInv
    <3> QED
      BY <1>7, <3>1, <3>2 DEF UpTo
  <2>10. \A p \in Procs : At(p, "llm")' => conv'.saw \subseteq proc'[p].saw /\ proc'[p].saw \subseteq Stored'
    BY <1>4, <1>7, <2>2, <2>7 DEF DraftInv
  <2>11. DraftInv'
    BY <2>5, <2>6, <2>8, <2>9, <2>10 DEF DraftInv
  <2>12. Informed'
    <3> SUFFICES ASSUME "news" \notin races', NEW p \in Procs, Drafting(p)'
                 PROVE  /\ At(p, "llm")' => note'.heard \subseteq proc'[p].saw
                        /\ At(p, "plan")' => note'.heard \subseteq conv'.saw
                        /\ At(p, "write")' /\ proc'[p].kind = "reply" => note'.heard \subseteq conv'.saw
      BY <1>4 DEF Informed, Drafting, At
    <3>1. Drafts(p)
      BY DEF Drafts, Drafting
    <3>2. note'.heard = note.heard
      BY <3>1 DEF Watch
    <3>3. p # h /\ proc'[p] = proc[p]
      BY <1>8 DEF Drafting
    <3> QED
      BY <1>4, <2>2, <3>2, <3>3, WatchKeeps DEF Informed, At
  <2> QED
    BY <2>4, <2>11, <2>12 DEF Awaited
<1> QED
  BY <1>9, <1>10 DEF NewsInv


\* A generation starts, or leaves it at the acknowledgement.
LEMMA NewsDraftStart ==
  ASSUME TypeInv, NewsInv, Steps, Watch, NEW w \in Workers, DraftStart(w)
  PROVE  NewsInv'
<1> DEFINE x == [Resting EXCEPT !.pc = "llm", !.mark = Mark, !.saw = Stored]
           y == [Resting EXCEPT !.pc = "plan"]
<1>1. /\ w \in Procs /\ proc \in [Procs -> Proc] /\ conv \in Conv /\ queue \in Queue /\ TypeOK
      /\ proc[w].pc = "idle"
  BY ProcsAre DEF TypeInv, TypeOK, DraftStart, Free, At
<1>2. /\ x.pc = "llm" /\ x.mark = Mark /\ x.saw = Stored
      /\ y.pc = "plan" /\ Resting.pc = "idle"
  BY DEF Resting
<1>3. IF Wanted /\ ~CapReached THEN proc' = [proc EXCEPT ![w] = x]
      ELSE IF ~conv.replied /\ conv.mood = "neg" /\ "ack" \in scenario.modes
           THEN proc' = [proc EXCEPT ![w] = y] ELSE proc' = [proc EXCEPT ![w] = Resting]
  BY DEF DraftStart, AckInstead, Rest, Be
<1> HIDE DEF x, y
<1>4. QuietTalk /\ conv' = conv /\ queue'.regen = queue.regen
  BY <1>1 DEF DraftStart, QuietTalk, Queue
<1>5. /\ note'.heard = note.heard /\ (note.missed => note'.missed)
      /\ (Wanted /\ CapReached => note'.missed) /\ (conv.replied /\ Stale => note'.moot)
  BY DEF DraftStart, TypeInv, NoteOK
<1>6. \A q \in Procs : q # w => proc'[q] = proc[q]
  BY <1>1, <1>3
<1>7. ~At(w, "classify")'
  BY <1>1, <1>2, <1>3 DEF At
<1>8. Mark[1] \in Stored \cup {0} /\ UpTo(Mark[1]) = Stored
  BY <1>1, MarkCovers
<1>9. note.heard \subseteq Stored /\ (conv.mood = "none" => note.heard = {})
  BY DEF NewsInv, HeardInv
<1>10. ASSUME ~Excused, ~Excused'
       PROVE  /\ conv'.saw \subseteq Stored /\ conv'.of[1] \in Stored \cup {0}
              /\ UpTo(conv'.of[1]) \subseteq conv'.saw
              /\ At(w, "llm")' => /\ conv'.saw \subseteq proc'[w].saw /\ proc'[w].saw \subseteq Stored
                                  /\ proc'[w].mark[1] \in Stored \cup {0}
                                  /\ UpTo(proc'[w].mark[1]) \subseteq proc'[w].saw
              /\ conv'.saw = conv.saw
              /\ Awaited' /\ Informed'
  <2>1. DraftInv /\ Informed /\ ~note'.missed /\ "draft" \in scenario.modes
    BY <1>5, <1>10, ExcusesStay DEF NewsInv
  <2>2. /\ conv'.saw \subseteq Stored /\ conv'.of[1] \in Stored \cup {0}
        /\ UpTo(conv'.of[1]) \subseteq conv'.saw
    BY <1>4, <2>1 DEF DraftInv
  <2>3. ~Stale => note.heard \subseteq conv.saw
    <3>1. ~Stale => conv.of = Mark
      BY DEF Stale
    <3> QED
      BY <1>8, <1>9, <2>1, <3>1 DEF DraftInv
  <2>4. Ready' => Ready
    BY <1>4 DEF Ready, Planned
  <2>5. CASE Wanted /\ ~CapReached
    <3>1. proc'[w] = x
      BY <1>1, <1>3, <2>5
    <3>2. Awaited'
      BY <1>2, <1>5, <1>9, <3>1 DEF Awaited, At
    <3>3. Informed'
      BY <1>2, <1>4, <1>5, <1>6, <1>9, <2>1, <2>4, <3>1, WatchKeeps DEF Informed, At
    <3> QED
      BY <1>2, <1>4, <1>8, <2>2, <3>1, <3>2, <3>3
  <2>6. CASE ~(Wanted /\ ~CapReached)
    <3>1. ~Wanted
      BY <1>5, <2>1, <2>6
    <3>2. (conv.replied /\ Stale) \/ note.heard \subseteq conv.saw
      BY <1>9, <2>1, <2>3, <3>1 DEF Wanted
    <3>3. ~At(w, "llm")' /\ ~At(w, "write")'
      BY <1>1, <1>2, <1>3, <2>6 DEF At
    <3>4. At(w, "plan")' => ~conv.replied
      BY <1>1, <1>2, <1>3, <2>6 DEF At
    <3>5. Awaited'
      BY <1>4, <1>5, <3>2 DEF Awaited
    <3>6. Informed'
      BY <1>4, <1>5, <1>6, <2>1, <2>4, <3>2, <3>3, <3>4, WatchKeeps DEF Informed, At
    <3> QED
      BY <1>4, <2>2, <3>3, <3>5, <3>6
  <2> QED
    BY <2>5, <2>6
<1> QED
  BY <1>1, <1>4, <1>5, <1>6, <1>7, <1>10, DraftMoves

\* A generation fails.
LEMMA NewsDraftFails ==
  ASSUME TypeInv, NewsInv, Steps, Watch, NEW w \in Workers, DraftFails(w)
  PROVE  NewsInv'
<1> DEFINE y == [Resting EXCEPT !.pc = "plan"]
<1>1. /\ w \in Procs /\ proc \in [Procs -> Proc] /\ TypeOK
  BY ProcsAre DEF TypeInv, TypeOK
<1>2. y.pc = "plan" /\ Resting.pc = "idle"
  BY DEF Resting
<1>3. proc' = [proc EXCEPT ![w] = y] \/ proc' = [proc EXCEPT ![w] = Resting]
  BY DEF DraftFails, AckInstead, Rest, Be
<1> HIDE DEF y
<1>4. QuietTalk /\ conv' = conv /\ queue' = queue /\ note'.heard = note.heard /\ note'.missed
  BY DEF DraftFails, QuietTalk, TypeInv, NoteOK
<1>5. \A q \in Procs : q # w => proc'[q] = proc[q]
  BY <1>1, <1>3
<1>6. ~At(w, "classify")'
  BY <1>1, <1>2, <1>3 DEF At
<1>7. Excused'
  BY <1>4 DEF Excused
<1> QED
  BY <1>1, <1>4, <1>5, <1>6, <1>7, DraftMoves

\* A draft is saved: nobody else is at work on one.
LEMMA NewsDraftSave ==
  ASSUME TypeInv, NewsInv, Steps, Watch, NEW w \in Workers, DraftSave(w)
  PROVE  NewsInv'
<1> DEFINE y == [Resting EXCEPT !.pc = "plan"]
<1>1. w \in Procs /\ proc \in [Procs -> Proc] /\ conv \in Conv /\ TypeOK /\ proc[w].pc = "llm"
  BY ProcsAre DEF TypeInv, TypeOK, DraftSave, At
<1>2. y.pc = "plan"
  BY DEF Resting
<1>3. proc' = [proc EXCEPT ![w] = y]
  BY DEF DraftSave, Be
<1> HIDE DEF y
<1>4. QuietTalk /\ note' = note /\ queue' = queue
  BY DEF DraftSave, QuietTalk
<1>5. conv'.saw = proc[w].saw /\ conv'.of = proc[w].mark /\ conv'.mood = conv.mood
  BY <1>1 DEF DraftSave, Conv
<1>6. (\A q \in Procs : q # w => proc'[q] = proc[q]) /\ proc'[w].pc = "plan"
  BY <1>1, <1>2, <1>3
<1>7. ~At(w, "classify")' /\ ~At(w, "llm")' /\ ~At(w, "write")' /\ Drafting(w)
  BY <1>1, <1>6 DEF At, Drafting
<1>8. ASSUME ~Excused, ~Excused'
      PROVE  /\ conv'.saw \subseteq Stored /\ conv'.of[1] \in Stored \cup {0}
             /\ UpTo(conv'.of[1]) \subseteq conv'.saw
             /\ Awaited' /\ Informed'
  <2>1. DraftInv /\ Awaited /\ Informed
    BY <1>8 DEF NewsInv
  <2>2. /\ conv.saw \subseteq proc[w].saw /\ proc[w].saw \subseteq Stored
        /\ proc[w].mark[1] \in Stored \cup {0} /\ UpTo(proc[w].mark[1]) \subseteq proc[w].saw
    BY <1>1, <2>1 DEF DraftInv, At
  <2>3. \A q \in Procs : q # w => ~Drafting(q)
    BY <1>1, <1>7, <2>1 DEF DraftInv
  <2>4. \A q \in Workers : At(q, "llm") => q = w
    BY <2>3, ProcsAre DEF Drafting, At
  <2>5. Awaited'
    BY <1>4, <1>5, <2>1, <2>2, <2>4 DEF Awaited
  <2>6. "news" \notin races => note.heard \subseteq conv'.saw
    BY <1>1, <1>5, <2>1 DEF Informed, At
  <2>7. \A q \in Procs : q # w => ~At(q, "llm")' /\ ~At(q, "plan")' /\ ~At(q, "write")'
    BY <1>6, <2>3 DEF Drafting, At
  <2>8. Informed'
    BY <1>4, <1>7, <2>6, <2>7, WatchKeeps DEF Informed
  <2> QED
    BY <1>5, <2>2, <2>5, <2>8
<1> QED
  BY <1>1, <1>4, <1>5, <1>6, <1>7, <1>8, DraftMoves

\* The staff ask for another text.
LEMMA NewsRegenStart ==
  ASSUME TypeInv, NewsInv, Steps, Watch, NEW s \in Staff, RegenStart(s)
  PROVE  NewsInv'
<1> DEFINE x == [Resting EXCEPT !.pc = "llm", !.saw = Stored, !.was = Planned]
<1>1. s \in Procs /\ s \notin Workers /\ proc \in [Procs -> Proc] /\ TypeOK /\ proc[s].pc = "idle"
  BY ProcsAre DEF TypeInv, TypeOK, RegenStart, Free, At
<1>2. x.pc = "llm" /\ x.saw = Stored
  BY DEF Resting
<1>3. proc' = [proc EXCEPT ![s] = x]
  BY DEF RegenStart, Be
<1> HIDE DEF x
<1>4. QuietTalk /\ conv' = conv /\ queue' = queue
  BY DEF RegenStart, QuietTalk
<1>5. note'.heard = note.heard /\ note'.missed = note.missed /\ note'.moot = note.moot
  BY DEF RegenStart, Acted, TypeInv, NoteOK
<1>6. (\A q \in Procs : q # s => proc'[q] = proc[q]) /\ proc'[s] = x
  BY <1>1, <1>3
<1>7. ~At(s, "classify")' /\ ~At(s, "plan")' /\ ~At(s, "write")'
  BY <1>2, <1>6 DEF At
<1>8. note.heard \subseteq Stored
  BY DEF NewsInv, HeardInv
<1>9. ASSUME ~Excused, ~Excused'
      PROVE  /\ conv'.saw \subseteq Stored /\ conv'.of[1] \in Stored \cup {0}
             /\ UpTo(conv'.of[1]) \subseteq conv'.saw
             /\ At(s, "llm")' => conv'.saw \subseteq proc'[s].saw /\ proc'[s].saw \subseteq Stored
             /\ Awaited' /\ Informed'
  <2>1. DraftInv /\ Awaited /\ Informed
    BY <1>9 DEF NewsInv
  <2>2. Ready' => Ready
    BY <1>4 DEF Ready, Planned
  <2>3. \A q \in Workers : proc'[q] = proc[q]
    BY <1>1, <1>6, ProcsAre
  <2>4. Awaited'
    BY <1>4, <1>5, <2>1, <2>3 DEF Awaited, At
  <2>5. Informed'
    BY <1>2, <1>4, <1>5, <1>6, <1>7, <1>8, <2>1, <2>2, WatchKeeps DEF Informed, At
  <2> QED
    BY <1>2, <1>4, <1>6, <2>1, <2>4, <2>5 DEF DraftInv
<1> QED
  BY <1>1, <1>4, <1>5, <1>6, <1>7, <1>9, DraftMoves

\* A text of the staff is saved under the old mark.
LEMMA NewsRegenSave ==
  ASSUME TypeInv, NewsInv, Steps, Watch, NEW s \in Staff, RegenSave(s)
  PROVE  NewsInv'
<1>1. /\ s \in Procs /\ s \notin Workers /\ proc \in [Procs -> Proc] /\ proc[s] \in Proc
      /\ conv \in Conv /\ TypeOK /\ proc[s].pc = "llm"
  BY ProcsAre DEF TypeInv, TypeOK, RegenSave, At
<1> DEFINE y == [proc[s] EXCEPT !.pc = "plan"]
           c == [conv EXCEPT !.ver = @ + 1, !.saw = proc[s].saw, !.rejected = FALSE]
<1>2. y.pc = "plan" /\ Resting.pc = "idle"
  BY <1>1 DEF Proc, Resting
<1>3. proc' = [proc EXCEPT ![s] = y] \/ proc' = [proc EXCEPT ![s] = Resting]
  BY <1>1 DEF RegenSave, Goto, Rest, Be
<1>4. QuietTalk /\ note' = note /\ queue' = queue
  BY DEF RegenSave, QuietTalk
<1>5. conv'.saw = proc[s].saw /\ conv'.of = conv.of /\ conv'.mood = conv.mood
  <2>1. c.saw = proc[s].saw /\ c.of = conv.of /\ c.mood = conv.mood
    BY <1>1 DEF Conv
  <2>2. [c EXCEPT !.status = "cancelled"].saw = c.saw /\ [c EXCEPT !.status = "cancelled"].of = c.of
        /\ [c EXCEPT !.status = "cancelled"].mood = c.mood
    BY <1>1 DEF Conv
  <2>3. conv' = Withdrawn(c, proc[s].was)
    BY DEF RegenSave
  <2> HIDE DEF c
  <2> QED
    BY <2>1, <2>2, <2>3 DEF Withdrawn
<1> HIDE DEF y, c
<1>6. (\A q \in Procs : q # s => proc'[q] = proc[q]) /\ proc'[s].pc \in {"plan", "idle"}
  BY <1>1, <1>2, <1>3
<1>7. ~At(s, "classify")' /\ ~At(s, "llm")' /\ ~At(s, "write")' /\ Drafting(s)
  BY <1>1, <1>6 DEF At, Drafting
<1>8. ASSUME ~Excused, ~Excused'
      PROVE  /\ conv'.saw \subseteq Stored /\ conv'.of[1] \in Stored \cup {0}
             /\ UpTo(conv'.of[1]) \subseteq conv'.saw
             /\ Awaited' /\ Informed'
  <2>1. DraftInv /\ Awaited /\ Informed
    BY <1>8 DEF NewsInv
  <2>2. conv.saw \subseteq proc[s].saw /\ proc[s].saw \subseteq Stored
    BY <1>1, <2>1 DEF DraftInv, At
  <2>3. \A q \in Procs : q # s => ~Drafting(q)
    BY <1>1, <1>7, <2>1 DEF DraftInv
  <2>4. \A q \in Workers : ~At(q, "llm")
    BY <1>1, <2>3, ProcsAre DEF Drafting, At
  <2>5. Awaited'
    BY <1>4, <1>5, <2>1, <2>2, <2>4 DEF Awaited
  <2>6. "news" \notin races => note.heard \subseteq conv'.saw
    BY <1>1, <1>5, <2>1 DEF Informed, At
  <2>7. \A q \in Procs : q # s => ~At(q, "llm")' /\ ~At(q, "plan")' /\ ~At(q, "write")'
    BY <1>6, <2>3 DEF Drafting, At
  <2>8. Informed'
    BY <1>4, <1>7, <2>6, <2>7, WatchKeeps DEF Informed
  <2> QED
    BY <1>5, <2>1, <2>2, <2>5, <2>8 DEF DraftInv
<1> QED
  BY <1>1, <1>4, <1>5, <1>6, <1>7, <1>8, DraftMoves

\* A plan is decided on and written.
LEMMA NewsPlanned ==
  ASSUME TypeInv, NewsInv, Steps, Watch, NEW p \in Workers \cup Staff,
         PlanRead(p) \/ PlanWrite(p) \/ PlanCutOff(p)
  PROVE  NewsInv'
<1>1. /\ p \in Procs /\ proc \in [Procs -> Proc] /\ proc[p] \in Proc /\ conv \in Conv /\ queue \in Queue
      /\ TypeOK /\ proc[p].pc \in {"plan", "write"}
  BY ProcsAre DEF TypeInv, TypeOK, PlanRead, PlanWrite, PlanCutOff, At
<1> DEFINE x == [proc[p] EXCEPT !.pc = "write", !.kind = Chosen[1], !.ticket = Chosen[2]]
<1>2. x.pc = "write" /\ Resting.pc = "idle"
  BY <1>1 DEF Proc, Resting
<1>3. \/ PlanRead(p) /\ proc' = [proc EXCEPT ![p] = x]
      \/ (PlanWrite(p) \/ PlanCutOff(p)) /\ proc' = [proc EXCEPT ![p] = Resting]
  BY <1>1 DEF PlanRead, PlanWrite, PlanCutOff, Rest, Be
<1> HIDE DEF x
<1>4. QuietTalk /\ queue'.due = queue.due /\ queue'.regen = queue.regen
  BY <1>1 DEF PlanRead, PlanWrite, PlanCutOff, MoreTasks, QuietTalk, Queue
<1>5. note'.heard = note.heard /\ note'.missed = note.missed /\ note'.moot = note.moot
  BY DEF PlanRead, PlanWrite, PlanCutOff, Faulty, TypeInv, NoteOK
<1>6. conv'.saw = conv.saw /\ conv'.of = conv.of /\ conv'.mood = conv.mood
  BY <1>1 DEF PlanRead, PlanWrite, PlanCutOff, PlanOf, Conv
<1>7. (\A q \in Procs : q # p => proc'[q] = proc[q]) /\ proc'[p].pc \in {"write", "idle"}
  BY <1>1, <1>2, <1>3
<1>8. ~At(p, "classify")' /\ ~At(p, "llm")' /\ ~At(p, "plan")' /\ ~At(p, "llm")
  BY <1>1, <1>7 DEF At
<1>9. Ready' => Ready \/ (At(p, "write") /\ proc[p].kind = "reply")
  <2>1. CASE PlanRead(p)
    BY <2>1 DEF PlanRead, Ready, Planned
  <2>2. CASE PlanWrite(p) \/ PlanCutOff(p)
    <3>1. conv' = PlanOf(p) /\ At(p, "write")
      BY <2>2 DEF PlanWrite, PlanCutOff
    <3>2. conv'.kind = proc[p].kind
      BY <1>1, <3>1 DEF PlanOf, Conv
    <3> QED
      BY <3>1, <3>2 DEF Ready
  <2> QED
    BY <2>1, <2>2
<1>10. At(p, "write")' => At(p, "plan")
  BY <1>1, <1>2, <1>3 DEF At, PlanRead
<1>11. ASSUME ~Excused, ~Excused'
       PROVE  /\ conv'.saw \subseteq Stored /\ conv'.of[1] \in Stored \cup {0}
              /\ UpTo(conv'.of[1]) \subseteq conv'.saw
              /\ Awaited' /\ Informed'
  <2>1. DraftInv /\ Awaited /\ Informed
    BY <1>11 DEF NewsInv
  <2>2. \A q \in Workers : At(q, "llm") => proc'[q] = proc[q]
    BY <1>7, <1>8, ProcsAre
  <2>3. Awaited'
    BY <1>4, <1>5, <1>6, <2>1, <2>2 DEF Awaited, At
  <2>4. "news" \notin races => (Ready' \/ At(p, "write")' => note.heard \subseteq conv.saw)
    BY <1>1, <1>9, <1>10, <2>1 DEF Informed
  <2>5. Informed'
    BY <1>5, <1>6, <1>7, <1>8, <2>1, <2>4, WatchKeeps DEF Informed, At
  <2> QED
    BY <1>6, <2>1, <2>3, <2>5 DEF DraftInv
<1> QED
  BY <1>1, <1>4, <1>5, <1>6, <1>7, <1>8, <1>11, DraftMoves

LEMMA NewsPreserved ==
  ASSUME TypeInv, NewsInv, Steps, Watch
  PROVE  NewsInv'
<1>x. conv \in Conv /\ proc \in [Procs -> Proc] /\ queue \in Queue /\ TypeOK
  BY DEF TypeInv, TypeOK
<1>n. /\ note.missed \in BOOLEAN
      /\ note \in [heard : SUBSET Nat, unrecorded : Nat, echoed : BOOLEAN, missed : BOOLEAN, moot : BOOLEAN,
                   lost : BOOLEAN, faults : Nat, acts : Nat]
  BY DEF TypeInv, NoteOK
<1>p. \A p \in Workers \cup Staff \cup Handlers : p \in Procs /\ proc[p] \in Proc
  BY <1>x, ProcsAre
<1>h. \A h \in Handlers : h \notin Workers
  BY ProcsAre
<1>s. \A s \in Staff : s \notin Workers
  BY ProcsAre
\* Steps that do nothing about drafts.
<1>q. ASSUME QuietTalk, SameConv, SameNews, \A p \in Procs : SameWork(p)
      PROVE  NewsInv'
  BY <1>q, <1>x, NewsQuiet
<1>u. UNCHANGED proc => \A p \in Procs : SameWork(p)
  BY DEF SameWork, At
<1>m. ASSUME NEW p \in Procs, NEW x, proc' = [proc EXCEPT ![p] = x],
             x.pc \notin {"llm", "plan", "write", "classify"},
             ~At(p, "llm") \/ p \notin Workers \/ note'.missed
      PROVE  \A q \in Procs : SameWork(q)
  <2>1. \A q \in Procs : q # p => proc'[q] = proc[q]
    BY <1>m, <1>x
  <2>2. proc'[p] = x
    BY <1>m, <1>x
  <2>3. SameWork(p)
    BY <1>m, <2>2 DEF SameWork, At
  <2>4. ASSUME NEW q \in Procs, q # p
        PROVE  SameWork(q)
    BY <2>1, <2>4 DEF SameWork, At
  <2> QED
    BY <2>3, <2>4
<1>r. ASSUME NEW p \in Procs, Rest(p), ~At(p, "llm") \/ p \notin Workers \/ note'.missed
      PROVE  \A q \in Procs : SameWork(q)
  <2>1. Resting.pc = "idle"
    BY DEF Resting
  <2>2. proc' = [proc EXCEPT ![p] = Resting]
    BY <1>r DEF Rest, Be
  <2> QED
    BY <1>m, <1>r, <2>1, <2>2
<1>g. ASSUME NEW p \in Procs, Goto(p, "local"), ~At(p, "llm")
      PROVE  \A q \in Procs : SameWork(q)
  <2>1. [proc[p] EXCEPT !.pc = "local"].pc = "local"
    BY <1>x DEF Proc
  <2>2. proc' = [proc EXCEPT ![p] = [proc[p] EXCEPT !.pc = "local"]]
    BY <1>g, <1>x DEF Goto
  <2> QED
    BY <1>m, <1>g, <2>1, <2>2
\* What becomes of the conversation and the notes.
<1>c. UNCHANGED conv => SameConv
  BY DEF SameConv, Ready, Planned
<1>w. ASSUME NEW c \in Conv, NEW b, conv' = Withdrawn(c, b), c.saw = conv.saw, c.of = conv.of,
             c.mood = conv.mood, c.ver = conv.ver, c.kind = conv.kind, c.status = conv.status
      PROVE  SameConv
  <2> DEFINE d == [c EXCEPT !.status = "cancelled"]
  <2>1. d.saw = c.saw /\ d.of = c.of /\ d.mood = c.mood /\ d.status = "cancelled"
    BY <1>w DEF Conv
  <2>2. conv' = d \/ conv' = c
    BY <1>w DEF Withdrawn
  <2> HIDE DEF d
  <2> QED
    BY <1>w, <2>1, <2>2 DEF SameConv, Ready, Planned
<1>t. ASSUME NEW t \in {"", "sent", "skipped", "failed"}, SetStatus(t)
      PROVE  SameConv
  BY <1>t, <1>x DEF SetStatus, SameConv, Ready, Planned, Conv
<1>k. ASSUME queue'.due = queue.due, queue'.regen = queue.regen, note'.heard = note.heard,
             note'.moot = note.moot, note.missed => note'.missed
      PROVE  SameNews
  BY <1>k DEF SameNews
<1>1. CASE GuestWrites \/ StaffWriteInVk \/ DebounceEnds \/ Reclassify \/ Reclassified
  <2>1. QuietTalk /\ UNCHANGED proc
    BY <1>1 DEF GuestWrites, StaffWriteInVk, DebounceEnds, Reclassify, Reclassified, QuietTalk
  <2>2. SameConv
    <3>1. CASE conv' \in Judged
      <4>1. scenario.moods \subseteq Moods \ {"none"}
        BY ScenariosAssumption DEF TypeInv, TypeOK, Scenario
      <4>2. PICK m \in Moods \ {"none"} : conv' = [conv EXCEPT !.mood = m]
        BY <3>1, <4>1 DEF Judged
      <4> QED
        BY <1>x, <4>2 DEF Conv, SameConv, Ready, Planned
    <3> QED
      BY <1>1, <1>c, <3>1 DEF GuestWrites, StaffWriteInVk, DebounceEnds, Reclassify, Reclassified
  <2>3. note'.heard = note.heard /\ note'.moot = note.moot /\ (note.missed => note'.missed)
    BY <1>1, <1>n DEF GuestWrites, StaffWriteInVk, DebounceEnds, Reclassify, Reclassified, Acted
  <2>4. SameNews
    <3>1. CASE DebounceEnds
      <4>1. queue.due \in Nat /\ queue.regen \in {"none", "waits", "lost"}
        BY <1>x DEF Queue
      <4>2. queue'.regen = "none" /\ queue'.due = IF queue.regen = "waits" THEN queue.due + 1 ELSE queue.due
        BY <1>x, <3>1 DEF DebounceEnds, Queue
      <4> QED
        BY <2>3, <4>1, <4>2 DEF SameNews
    <3>2. CASE Reclassified
      <4>1. queue.due \in Nat
        BY <1>x DEF Queue
      <4>2. queue'.regen = queue.regen /\ (queue'.due = queue.due + 1 \/ queue'.due = queue.due)
        BY <1>x, <3>2 DEF Reclassified, Queue
      <4> QED
        BY <2>3, <4>1, <4>2 DEF SameNews
    <3>3. CASE GuestWrites \/ StaffWriteInVk \/ Reclassify
      BY <1>k, <1>x, <2>3, <3>3 DEF GuestWrites, StaffWriteInVk, Reclassify, Queue
    <3> QED
      BY <1>1, <3>1, <3>2, <3>3
  <2> QED
    BY <1>q, <1>u, <2>1, <2>2, <2>4
<1>2. ASSUME NEW h \in Handlers,
             \/ ClassifyFails(h) \/ MarkAnswered(h)
             \/ \E m \in DOMAIN dialog : TakeGuest(h, m) \/ NoteAnswer(h, m)
      PROVE  NewsInv'
  <2>1. QuietTalk
    BY <1>2 DEF ClassifyFails, MarkAnswered, TakeGuest, NoteAnswer, QuietTalk, Said, FromGuest
  <2>2. SameConv
    <3>1. CASE MarkAnswered(h)
      <4>1. [conv EXCEPT !.replied = TRUE] \in Conv
        BY <1>x DEF Conv
      <4> QED
        BY <1>w, <1>x, <3>1, <4>1 DEF MarkAnswered, Conv
    <3> QED
      BY <1>2, <1>c, <3>1 DEF ClassifyFails, TakeGuest, NoteAnswer
  <2>3. SameNews
    BY <1>2, <1>k, <1>n DEF ClassifyFails, MarkAnswered, TakeGuest, NoteAnswer
  <2>4. ASSUME NEW m, TakeGuest(h, m) \/ NoteAnswer(h, m)
        PROVE  \A q \in Procs : SameWork(q)
    <3> DEFINE a == [Resting EXCEPT !.pc = "store", !.at = m]
               b == [Resting EXCEPT !.pc = "answer", !.at = m, !.was = Planned]
    <3>1. a.pc = "store" /\ b.pc = "answer"
      BY DEF Resting
    <3>2. UNCHANGED proc \/ proc' = [proc EXCEPT ![h] = a] \/ proc' = [proc EXCEPT ![h] = b]
      BY <2>4 DEF TakeGuest, NoteAnswer, Be
    <3> HIDE DEF a, b
    <3> QED
      BY <1>h, <1>m, <1>p, <1>u, <3>1, <3>2
  <2>5. ClassifyFails(h) \/ MarkAnswered(h) => \A q \in Procs : SameWork(q)
    BY <1>h, <1>p, <1>r DEF ClassifyFails, MarkAnswered
  <2> QED
    BY <1>2, <1>q, <2>1, <2>2, <2>3, <2>4, <2>5
<1>3. ASSUME NEW s \in Staff,
             PanelStart(s) \/ CancelPlan(s) \/ RejectDraft(s) \/ RegenFails(s) \/ GiveUp(s) \/ KeepLocally(s)
      PROVE  NewsInv'
  <2>1. QuietTalk
    BY <1>3 DEF PanelStart, CancelPlan, RejectDraft, RegenFails, GiveUp, KeepLocally, QuietTalk
  <2>2. SameConv
    <3>1. CASE KeepLocally(s)
      <4>1. [conv EXCEPT !.replied = TRUE] \in Conv
        BY <1>x DEF Conv
      <4> QED
        BY <1>w, <1>x, <3>1, <4>1 DEF KeepLocally, Conv
    <3>2. CASE RejectDraft(s)
      <4>1. [conv EXCEPT !.rejected = TRUE] \in Conv
        BY <1>x DEF Conv
      <4> QED
        BY <1>w, <1>x, <3>2, <4>1 DEF RejectDraft, Conv
    <3>3. CASE CancelPlan(s)
      BY <1>w, <1>x, <3>3 DEF CancelPlan
    <3> QED
      BY <1>3, <1>c, <3>1, <3>2, <3>3 DEF PanelStart, RegenFails, GiveUp
  <2>3. SameNews
    BY <1>3, <1>k, <1>n DEF PanelStart, CancelPlan, RejectDraft, RegenFails, GiveUp, KeepLocally, Acted
  <2> DEFINE a == [Resting EXCEPT !.pc = "vk", !.kind = "panel", !.was = Planned]
  <2>4. a.pc = "vk"
    BY DEF Resting
  <2>5. UNCHANGED proc \/ Rest(s) \/ proc' = [proc EXCEPT ![s] = a]
    BY <1>3 DEF PanelStart, CancelPlan, RejectDraft, RegenFails, GiveUp, KeepLocally, Be
  <2> HIDE DEF a
  <2>6. \A q \in Procs : SameWork(q)
    BY <1>m, <1>p, <1>r, <1>s, <1>u, <2>4, <2>5
  <2> QED
    BY <1>q, <2>1, <2>2, <2>3, <2>6
<1>4. ASSUME NEW p \in Workers \cup Staff,
             NoPlan(p) \/ PlanFails(p) \/ VkAccepts(p) \/ VkRefuses(p) \/ AnswerLost(p) \/ Row(p)
      PROVE  NewsInv'
  <2>1. ~At(p, "llm") /\ p \in Procs /\ proc[p] \in Proc
    BY <1>4, <1>p DEF NoPlan, PlanFails, VkAccepts, VkRefuses, AnswerLost, Row, At
  <2>2. QuietTalk
    <3>1. CASE Row(p)
      <4>1. proc[p].at \in DOMAIN dialog /\ dialog[proc[p].at] \notin FromGuest
        <5>1. Fits(p, proc[p]) /\ proc[p].pc = "row"
          BY <2>1, <3>1 DEF TypeInv, PcInv, Row, At
        <5> QED
          BY <5>1 DEF Fits, Said, Automatic, FromGuest
      <4> QED
        BY <3>1, <4>1 DEF Row, QuietTalk
    <3> QED
      BY <1>4, <3>1 DEF NoPlan, PlanFails, VkAccepts, VkRefuses, AnswerLost, QuietTalk
  <2>3. SameConv
    <3>1. CASE Row(p)
      <4> DEFINE c == [conv EXCEPT !.replied = @ \/ Replies(p)]
                 d == [c EXCEPT !.aiRow = TRUE, !.status = "sent"]
      <4>1. /\ c \in Conv /\ c.saw = conv.saw /\ c.of = conv.of /\ c.mood = conv.mood /\ c.ver = conv.ver
            /\ c.kind = conv.kind /\ c.status = conv.status
        BY <1>x DEF Conv, Replies
      <4>2. d.saw = c.saw /\ d.of = c.of /\ d.mood = c.mood /\ d.status = "sent"
        BY <4>1 DEF Conv
      <4>3. conv' = IF p \in Staff THEN Withdrawn(c, proc[p].was) ELSE d
        BY <3>1 DEF Row
      <4> HIDE DEF c, d
      <4>4. CASE p \in Staff
        BY <1>w, <4>1, <4>3, <4>4
      <4>5. CASE p \notin Staff
        BY <4>1, <4>2, <4>3, <4>5 DEF SameConv, Ready, Planned
      <4> QED
        BY <4>4, <4>5
    <3>2. CASE PlanFails(p)
      <4>1. PlanOf(p).saw = conv.saw /\ PlanOf(p).of = conv.of /\ PlanOf(p).mood = conv.mood
            /\ [PlanOf(p) EXCEPT !.status = ""].saw = PlanOf(p).saw
            /\ [PlanOf(p) EXCEPT !.status = ""].of = PlanOf(p).of
            /\ [PlanOf(p) EXCEPT !.status = ""].mood = PlanOf(p).mood
            /\ [PlanOf(p) EXCEPT !.status = ""].status = ""
        BY <1>x DEF PlanOf, Conv
      <4> QED
        BY <3>2, <4>1 DEF PlanFails, Rollback, SameConv, Ready, Planned
    <3> QED
      BY <1>4, <1>c, <1>t, <3>1, <3>2 DEF NoPlan, VkAccepts, VkRefuses, AnswerLost, NotSent
  <2>4. SameNews
    BY <1>4, <1>k, <1>n DEF NoPlan, PlanFails, VkAccepts, VkRefuses, AnswerLost, Row, Faulty
  <2> DEFINE x == [proc[p] EXCEPT !.pc = "row", !.at = Len(dialog) + 1]
  <2>5. x.pc = "row"
    BY <2>1 DEF Proc
  <2>6. Rest(p) \/ Goto(p, "local") \/ proc' = [proc EXCEPT ![p] = x]
    BY <1>4, <1>x, <2>1 DEF NoPlan, PlanFails, VkAccepts, VkRefuses, AnswerLost, Row, NotSent
  <2> HIDE DEF x
  <2>7. \A q \in Procs : SameWork(q)
    BY <1>g, <1>m, <1>r, <2>1, <2>5, <2>6
  <2> QED
    BY <1>q, <2>2, <2>3, <2>4, <2>7
<1>5. ASSUME NEW k \in Tickets,
             \/ Redelivered(k)
             \/ \E w \in Workers : TaskEnds(w, k) \/ TaskRefused(w, k) \/ TaskPostponed(w, k)
      PROVE  NewsInv'
  <2>1. QuietTalk /\ UNCHANGED proc
    BY <1>5 DEF Redelivered, TaskEnds, TaskRefused, TaskPostponed, QuietTalk
  <2>2. SameConv
    BY <1>5, <1>c, <1>t DEF Redelivered, TaskEnds, TaskRefused, TaskPostponed
  <2>3. queue'.due = queue.due /\ queue'.regen = queue.regen
    BY <1>5, <1>x DEF Redelivered, TaskEnds, TaskRefused, TaskPostponed, OneLess, MoreTasks, Queue
  <2>4. note'.heard = note.heard /\ note'.moot = note.moot /\ (note.missed => note'.missed)
    BY <1>5, <1>n DEF Redelivered, TaskEnds, TaskRefused, TaskPostponed, Faulty
  <2> QED
    BY <1>k, <1>q, <1>u, <2>1, <2>2, <2>3, <2>4
<1>6. ASSUME NEW w \in Workers, NEW k \in Tickets, TaskSends(w, k)
      PROVE  NewsInv'
  <2> DEFINE x == [Resting EXCEPT !.pc = "vk", !.kind = conv.kind]
  <2>1. x.pc = "vk"
    BY DEF Resting
  <2>2. QuietTalk /\ UNCHANGED conv /\ note' = note /\ proc' = [proc EXCEPT ![w] = x] /\ ~At(w, "llm")
    BY <1>6 DEF TaskSends, QuietTalk, Be, Take, Free, At
  <2> HIDE DEF x
  <2>3. queue'.due = queue.due /\ queue'.regen = queue.regen
    BY <1>6, <1>x DEF TaskSends, OneLess, Queue
  <2>4. \A q \in Procs : SameWork(q)
    BY <1>m, <1>p, <2>1, <2>2
  <2> QED
    BY <1>c, <1>k, <1>q, <2>2, <2>3, <2>4
<1>7. ASSUME NEW w \in Workers, Killed(w)
      PROVE  NewsInv'
  <2>1. QuietTalk /\ UNCHANGED <<conv, queue>> /\ Rest(w)
    BY <1>7 DEF Killed, QuietTalk
  <2>2. /\ note'.heard = note.heard /\ note'.moot = note.moot /\ (note.missed => note'.missed)
        /\ At(w, "llm") => note'.missed
    BY <1>7, <1>n DEF Killed, Faulty
  <2>3. \A q \in Procs : SameWork(q)
    BY <1>p, <1>r, <2>1, <2>2
  <2> QED
    BY <1>c, <1>k, <1>q, <2>1, <2>2, <2>3
<1> QED
  <2>1. ASSUME NEW p \in Workers \cup Staff, Plan(p) \/ Send(p) \/ PlanFails(p) \/ PlanCutOff(p) \/ AnswerLost(p)
        PROVE  NewsInv'
    BY <1>4, <2>1, NewsPlanned DEF Plan, Send
  <2>2. ASSUME NEW w \in Workers, Work(w)
        PROVE  NewsInv'
    BY <1>5, <1>6, <2>1, <2>2, NewsDraftStart, NewsDraftSave, NewsDraftFails DEF Work
  <2>3. ASSUME NEW s \in Staff, Act(s) \/ Finish(s)
        PROVE  NewsInv'
    BY <1>3, <2>1, <2>3, NewsRegenStart, NewsRegenSave DEF Act, Finish
  <2>4. CASE Fails
    BY <1>5, <1>7, <2>1, <2>4, NewsHeard DEF Fails
  <2>5. ASSUME NEW h \in Handlers, Handle(h)
        PROVE  NewsInv'
    BY <1>2, <2>5, NewsStored, NewsHeard DEF Handle
  <2> QED
    BY <1>1, <2>2, <2>3, <2>4, <2>5 DEF Steps

LEMMA NewsInvariant == Spec => [](TypeInv /\ NewsInv)
<1>1. Init => NewsInv
  <2> SUFFICES ASSUME Init
               PROVE  NewsInv
    OBVIOUS
  <2>1. /\ dialog = <<>> /\ note.heard = {} /\ conv.saw = {} /\ conv.of = <<0, 0>>
        /\ queue.regen = "none" /\ ~Planned /\ \A p \in Procs : proc[p].pc = "idle"
    BY DEF Init, Resting, Planned
  <2>2. Stored = {} /\ \A p \in Workers : p \in Procs
    BY <2>1, ProcsAre DEF Stored
  <2> QED
    BY <2>1, <2>2 DEF NewsInv, HeardInv, DraftInv, Awaited, Informed, UpTo, Drafting, Ready, At
<1>2. TypeInv /\ NewsInv /\ [Next]_vars => (TypeInv /\ NewsInv)'
  <2> SUFFICES ASSUME TypeInv, NewsInv, [Next]_vars
               PROVE  TypeInv' /\ NewsInv'
    OBVIOUS
  <2>1. TypeInv'
    BY TypePreserved
  <2>2. CASE Next
    <3>1. Steps /\ Watch
      BY <2>2 DEF Next
    <3> QED
      BY <2>1, <3>1, NewsPreserved
  <2>3. CASE UNCHANGED vars
    BY <2>1, <2>3 DEF vars, NewsInv, HeardInv, Excused, DraftInv, Awaited, Informed, UpTo, Drafting,
       Ready, At, Stored, Planned
  <2> QED
    BY <2>1, <2>2, <2>3
<1> QED
  BY <1>1, <1>2, TypeInitially, PTL DEF Spec

\* Only a task with its ticket starts to send.
LEMMA SendStarts ==
  ASSUME TypeInv, Steps, NEW w \in Workers, At(w, "idle"), proc'[w].pc = "vk"
  PROVE  \E k \in Tickets : TaskSends(w, k)
<1>x. proc \in [Procs -> Proc] /\ w \in Procs /\ w \notin Handlers /\ w \notin Staff /\ proc[w].pc = "idle"
  BY ProcsAre DEF TypeInv, TypeOK, At
<1> SUFFICES ASSUME \A k \in Tickets : ~TaskSends(w, k)
             PROVE  FALSE
  OBVIOUS
<1>u. proc' # proc
  BY <1>x
\* A step of another process, and a step of w to somewhere else.
<1>o. ASSUME NEW p \in Procs, p # w, NEW x, proc' = [proc EXCEPT ![p] = x]
      PROVE  FALSE
  BY <1>o, <1>x
<1>m. ASSUME NEW x, proc' = [proc EXCEPT ![w] = x], x.pc # "vk"
      PROVE  FALSE
  BY <1>m, <1>x
<1>g. ASSUME NEW p \in Procs, p # w, NEW pc, Goto(p, pc)
      PROVE  FALSE
  BY <1>g, <1>o DEF Goto
<1>r. ASSUME NEW p \in Procs, Rest(p)
      PROVE  FALSE
  <2>1. Resting.pc = "idle" /\ proc' = [proc EXCEPT ![p] = Resting]
    BY <1>r DEF Rest, Be, Resting
  <2> QED
    BY <1>m, <1>o, <2>1
<1>1. ASSUME GuestWrites \/ StaffWriteInVk \/ DebounceEnds \/ Reclassify \/ Reclassified
      PROVE  FALSE
  BY <1>1, <1>u DEF GuestWrites, StaffWriteInVk, DebounceEnds, Reclassify, Reclassified
<1>2. ASSUME NEW h \in Handlers, Handle(h) \/ EnqueueFails(h)
      PROVE  FALSE
  <2>1. h \in Procs /\ h # w
    BY <1>x, ProcsAre
  <2>2. UNCHANGED proc \/ Rest(h) \/ Goto(h, "classify") \/ \E x : proc' = [proc EXCEPT ![h] = x]
    <3>1. ASSUME NEW m, TakeGuest(h, m) \/ NoteAnswer(h, m)
          PROVE  UNCHANGED proc \/ \E x : proc' = [proc EXCEPT ![h] = x]
      BY <3>1 DEF TakeGuest, NoteAnswer, Be
    <3> QED
      BY <1>2, <3>1 DEF Handle, EnqueueFails, Store, Classify, ClassifyFails, MarkAnswered
  <2> QED
    BY <1>g, <1>o, <1>r, <1>u, <2>1, <2>2
<1>3. ASSUME NEW s \in Staff, Act(s) \/ Finish(s)
      PROVE  FALSE
  <2>1. s \in Procs /\ s # w
    BY <1>x, ProcsAre
  <2>2. UNCHANGED proc \/ Rest(s) \/ Goto(s, "plan") \/ Goto(s, "local") \/ \E x : proc' = [proc EXCEPT ![s] = x]
    <3>1. CASE Act(s)
      BY <3>1 DEF Act, PanelStart, CancelPlan, RejectDraft, RegenStart, Be
    <3>2. CASE RegenSave(s) \/ RegenFails(s) \/ KeepLocally(s) \/ GiveUp(s)
      BY <3>2 DEF RegenSave, RegenFails, KeepLocally, GiveUp
    <3>3. CASE Plan(s)
      BY <1>x, <2>1, <3>3 DEF Plan, PlanRead, NoPlan, PlanWrite
    <3>4. CASE Send(s)
      BY <1>x, <2>1, <3>4 DEF Send, VkAccepts, VkRefuses, Row, NotSent
    <3> QED
      BY <1>3, <3>1, <3>2, <3>3, <3>4 DEF Finish
  <2> QED
    BY <1>g, <1>o, <1>r, <1>u, <2>1, <2>2
<1>4. ASSUME NEW p \in Workers \cup Staff, PlanFails(p) \/ PlanCutOff(p) \/ AnswerLost(p) \/ Plan(p) \/ Send(p)
      PROVE  FALSE
  <2>1. p # w
    BY <1>4, <1>r, <1>x, ProcsAre DEF PlanFails, PlanCutOff, AnswerLost, Plan, PlanRead, NoPlan, PlanWrite, Send,
       VkAccepts, VkRefuses, Row, At
  <2>2. p \in Procs
    BY ProcsAre
  <2>3. Rest(p) \/ Goto(p, "local") \/ \E x : proc' = [proc EXCEPT ![p] = x]
    BY <1>4, <1>x, <2>2 DEF PlanFails, PlanCutOff, AnswerLost, Plan, PlanRead, NoPlan, PlanWrite, Send,
       VkAccepts, VkRefuses, Row, NotSent
  <2> QED
    BY <1>g, <1>o, <1>r, <2>1, <2>2, <2>3
<1>5. ASSUME NEW v \in Workers, DraftStart(v) \/ DraftSave(v) \/ DraftFails(v) \/ Killed(v)
      PROVE  FALSE
  <2> DEFINE a == [Resting EXCEPT !.pc = "llm", !.mark = Mark, !.saw = Stored]
             b == [Resting EXCEPT !.pc = "plan"]
  <2>1. a.pc = "llm" /\ b.pc = "plan"
    BY DEF Resting
  <2>2. proc' = [proc EXCEPT ![v] = a] \/ proc' = [proc EXCEPT ![v] = b] \/ Rest(v)
    BY <1>5 DEF DraftStart, DraftSave, DraftFails, Killed, AckInstead, Be
  <2> HIDE DEF a, b
  <2>3. v \in Procs
    BY ProcsAre
  <2> QED
    BY <1>m, <1>o, <1>r, <2>1, <2>2, <2>3
<1>6. ASSUME NEW v \in Workers, NEW k \in Tickets,
             TaskEnds(v, k) \/ TaskRefused(v, k) \/ TaskPostponed(v, k) \/ TaskSends(v, k)
      PROVE  FALSE
  <2>1. CASE TaskSends(v, k)
    <3>1. v # w /\ v \in Procs
      BY <2>1, ProcsAre
    <3>2. \E x : proc' = [proc EXCEPT ![v] = x]
      BY <2>1 DEF TaskSends, Be
    <3> QED
      BY <1>o, <3>1, <3>2
  <2>2. CASE TaskEnds(v, k) \/ TaskRefused(v, k) \/ TaskPostponed(v, k)
    BY <1>u, <2>2 DEF TaskEnds, TaskRefused, TaskPostponed
  <2> QED
    BY <1>6, <2>1, <2>2
<1>7. ASSUME NEW k \in Tickets, Redelivered(k)
      PROVE  FALSE
  BY <1>7, <1>u DEF Redelivered
<1>8. ASSUME NEW v \in Workers, Work(v)
      PROVE  FALSE
  BY <1>4, <1>5, <1>6, <1>8 DEF Work
<1>9. ASSUME Fails
      PROVE  FALSE
  BY <1>2, <1>4, <1>5, <1>6, <1>7, <1>9 DEF Fails
<1> QED
  BY <1>1, <1>2, <1>3, <1>8, <1>9 DEF Steps

(* _enqueue_ai_draft: when a task starts to send a drafted answer, the model *)
(* that wrote the draft was shown every message that was classified before,  *)
(* however messages, generations, plans, faults and the staff interleave;    *)
(* unless a generation was refused or lost, two of them met, a message was   *)
(* stored after a later one, or one became known while a draft was written,  *)
(* and then its own generation is still to come, or found the thread         *)
(* answered.                                                                 *)
THEOREM RepliesKnow == Spec => RepliesKnowTheNews
<1>1. TypeInv /\ NewsInv /\ Next => \A w \in Workers :
        (At(w, "idle") /\ proc'[w].pc = "vk" /\ proc'[w].kind = "reply") =>
          \/ note.heard \subseteq conv.saw
          \/ note.missed \/ {"drafts", "late"} \cap races # {}
          \/ "news" \in races /\ (Coming \/ note.moot)
  <2> SUFFICES ASSUME TypeInv, NewsInv, Steps, Watch, NEW w \in Workers,
                      At(w, "idle"), proc'[w].pc = "vk", proc'[w].kind = "reply",
                      ~note.missed, {"drafts", "late"} \cap races = {}
               PROVE  note.heard \subseteq conv.saw \/ ("news" \in races /\ (Coming \/ note.moot))
    BY DEF Next
  <2>1. PICK k \in Tickets : TaskSends(w, k)
    BY SendStarts
  <2>2. proc'[w].kind = conv.kind
    <3>1. w \in Procs /\ proc \in [Procs -> Proc]
      BY ProcsAre DEF TypeInv, TypeOK
    <3>2. [Resting EXCEPT !.pc = "vk", !.kind = conv.kind].kind = conv.kind
      BY DEF Resting
    <3>3. proc' = [proc EXCEPT ![w] = [Resting EXCEPT !.pc = "vk", !.kind = conv.kind]]
      BY <2>1 DEF TaskSends, Be
    <3> QED
      BY <3>1, <3>2, <3>3
  <2>3. Planned /\ MayReply
    BY <2>1, <2>2 DEF TaskSends, Current, Allowed
  <2>4. Ready /\ "draft" \in scenario.modes
    BY <2>2, <2>3 DEF Ready, MayReply
  <2>5. Awaited /\ Informed
    BY <2>4 DEF NewsInv, Excused
  <2>6. \A v \in Workers : v \in Procs
    BY ProcsAre
  <2>7. note.heard \subseteq conv.saw \/ Coming \/ note.moot
    BY <2>5, <2>6 DEF Awaited, Coming, At
  <2> QED
    BY <2>4, <2>5, <2>7 DEF Informed
<1>2. TypeInv /\ NewsInv /\ [Next]_vars =>
        [\A w \in Workers :
           (At(w, "idle") /\ proc'[w].pc = "vk" /\ proc'[w].kind = "reply") =>
             \/ note.heard \subseteq conv.saw
             \/ note.missed \/ {"drafts", "late"} \cap races # {}
             \/ "news" \in races /\ (Coming \/ note.moot)]_vars
  BY <1>1
<1> QED
  BY <1>2, NewsInvariant, PTL DEF Spec, RepliesKnowTheNews
=============================================================================
