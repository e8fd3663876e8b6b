---------------------------- MODULE ReviewReply ----------------------------
(***************************************************************************)
(* One conversation of a guest with the community in VK: messages that the *)
(* callback queue and the poll bring in (branch/api/services.py,           *)
(* branch/tasks.py), the answer the assistant drafts, plans and sends      *)
(* (analytics/auto_reply.py, analytics/tasks.py), and the staff, who       *)
(* answer in VK, in the panel and in the mobile application.               *)
(*                                                                         *)
(* Each of them reads the row of the conversation, talks to VK or to the   *)
(* language model for seconds, and writes the row without a lock.          *)
(***************************************************************************)
EXTENDS Integers, Sequences, FiniteSets, FiniteSetsExt

CONSTANTS
  Handlers,   \* workers that process events and poll
  Workers,    \* celery workers that draft, plan and send
  Staff,      \* requests of the staff
  DraftCap,   \* DRAFT_AUTO_GEN_CAP
  Scenarios   \* conversations to look at, one is chosen in Init

Procs == Handlers \cup Workers \cup Staff

FromGuest == {"text", "photo"}
Automatic == {"reply", "ack"}
Answers   == {"staff", "panel", "local", "reply"}
Moods     == {"none", "pos", "neg", "other"}

Scenario == [procs  : SUBSET Procs,                    \* who takes part
             guest  : Seq(FromGuest),                  \* what the guest writes
             staff  : SUBSET {"vk", "panel", "reject", "cancel", "regen"},
             acts   : Nat,                             \* bound: what the staff do
             faults : Nat,                             \* bound: faults and quiet nights
             moods  : SUBSET (Moods \ {"none"}),       \* what the classifier may say
             modes  : SUBSET {"draft", "send", "ack"}] \* ReviewAutoReplyConfig

ASSUME ProcsAssumption == /\ Handlers \cap Workers = {} /\ Staff \cap (Handlers \cup Workers) = {}
                          /\ IsFiniteSet(Procs) /\ DraftCap \in Nat

ASSUME ScenariosAssumption == Scenarios \subseteq Scenario

VARIABLES
  scenario,  \* the conversation's course and settings
  dialog,    \* Seq of what was said; a message's place is its VK id
  rows,      \* Seq(Nat), beside dialog: TestimonialMessage rows with that VK id
  conv,      \* the TestimonialConversation row
  queue,     \* celery: drafts due, the debounced one, planned messages
  proc,      \* [Procs -> Proc]: what each process is doing
  note,      \* history: what was classified, lost, refused; bounds
  races      \* history: which unlocked sections have met

vars == <<scenario, dialog, rows, conv, queue, proc, note, races>>

----------------------------------------------------------------------------
\* of: ai_draft_message_id, a guest message and how many rows it had; saw: the
\* messages the model was shown; ver numbers the texts, 0: none; ticket:
\* auto_send_draft_hash, 0: that of the acknowledgement, one text for all.
Conv == [mood : Moods, replied : BOOLEAN, aiRow : BOOLEAN,
         ver : Nat, of : Nat \X Nat, saw : SUBSET Nat, rejected : BOOLEAN, gens : Nat,
         status : {"", "scheduled", "sent", "cancelled", "skipped", "failed"},
         kind : Automatic \cup {""}, ticket : Nat]

Tickets == 0 .. Len(scenario.guest) + 1 + scenario.acts  \* enough texts for its course

\* regen: the debounce key is free, its task waits, or it never got into the
\* queue; again: a task of reclassify_waiting_reviews_task waits.
Queue == [due : Nat, regen : {"none", "waits", "lost"}, tasks : [Tickets -> Nat], again : BOOLEAN]

Proc == [pc : {"idle", "store", "classify", "answer", "llm", "plan", "write", "vk", "row", "local"},
         at : Nat, mark : Nat \X Nat, saw : SUBSET Nat,
         kind : Automatic \cup {"", "panel"}, ticket : Nat, was : BOOLEAN]

Resting == [pc |-> "idle", at |-> 0, mark |-> <<0, 0>>, saw |-> {}, kind |-> "",
            ticket |-> 0, was |-> FALSE]

Stored      == {m \in DOMAIN dialog : dialog[m] \in FromGuest /\ rows[m] > 0}
Said(K)     == {m \in DOMAIN dialog : dialog[m] \in K}
Planned     == conv.status = "scheduled"

Be(p, r)    == proc' = [proc EXCEPT ![p] = r]
Goto(p, pc) == proc' = [proc EXCEPT ![p].pc = pc]
Rest(p)     == Be(p, Resting)
At(p, pc)   == proc[p].pc = pc
Free(p)     == At(p, "idle") /\ p \in scenario.procs

Say(k)      == dialog' = Append(dialog, k) /\ rows' = Append(rows, 0)
Keep(m)     == rows' = [rows EXCEPT ![m] = @ + 1]

Fault       == note.faults < scenario.faults
Faulty      == [note EXCEPT !.faults = @ + 1]
Acts(what)  == what \in scenario.staff /\ note.acts < scenario.acts
Acted       == [note EXCEPT !.acts = @ + 1]

\* _set_auto_send writes a status whatever the row says meanwhile.
SetStatus(s) == conv' = [conv EXCEPT !.status = s]

\* cancel_auto_send: nothing if the object read before had no plan, else an
\* UPDATE that asks for the plan again.
Withdrawn(c, was) == IF was /\ c.status = "scheduled" THEN [c EXCEPT !.status = "cancelled"] ELSE c

----------------------------------------------------------------------------
(* VK.                                                                     *)
GuestWrites ==
  /\ LET n == Cardinality(Said(FromGuest))
     IN  n < Len(scenario.guest) /\ Say(scenario.guest[n + 1])
  /\ UNCHANGED <<scenario, conv, queue, proc, note>>

StaffWriteInVk ==
  /\ Acts("vk") /\ Said(FromGuest) # {}
  /\ Say("staff") /\ note' = Acted
  /\ UNCHANGED <<scenario, conv, queue, proc>>

----------------------------------------------------------------------------
(* handle_vk_incoming_message: a message without a row is taken, by the    *)
(* callback or by the poll, and by both if neither has stored it.          *)
TakeGuest(h, m) ==
  /\ Free(h) /\ m \in Said(FromGuest) /\ rows[m] = 0
  /\ Be(h, [Resting EXCEPT !.pc = "store", !.at = m])
  /\ UNCHANGED <<scenario, dialog, rows, conv, queue, note>>

Store(h) ==
  /\ At(h, "store")
  /\ Keep(proc[h].at)
  /\ conv' = [conv EXCEPT !.replied = FALSE]
  /\ IF dialog[proc[h].at] = "text" THEN Goto(h, "classify") ELSE Rest(h)
  /\ UNCHANGED <<scenario, dialog, queue, note>>

(* analyze_and_save: a failed call leaves the old sentiment and ends it;    *)
(* _enqueue_ai_draft after a successful one.                                *)
KeepsPlan(c)   == c
PlanDropped(c) == Withdrawn(c, TRUE)
AnyDraft       == TRUE
HasDraft       == conv.ver > 0
Judged         == {[conv EXCEPT !.mood = s] : s \in scenario.moods}
Heard(h)       == [note EXCEPT !.heard = @ \cup {proc[h].at}]

Classify(h) ==
  /\ At(h, "classify")
  /\ \E c \in Judged :
       IF HasDraft
       THEN /\ conv' = PlanDropped(c)
            /\ queue' = [queue EXCEPT !.regen = IF @ = "none" THEN "waits" ELSE @]
       ELSE /\ conv' = c
            /\ queue' = [queue EXCEPT !.due = @ + 1]
  /\ note' = Heard(h) /\ Rest(h)
  /\ UNCHANGED <<scenario, dialog, rows>>

\* The broker is down after the debounce key was taken.
EnqueueFails(h) ==
  /\ At(h, "classify") /\ Fault
  /\ \E c \in Judged :
       IF HasDraft
       THEN /\ conv' = PlanDropped(c)
            /\ queue' = [queue EXCEPT !.regen = IF @ = "none" THEN "lost" ELSE @]
       ELSE conv' = c /\ UNCHANGED queue
  /\ note' = [Heard(h) EXCEPT !.missed = TRUE, !.faults = @ + 1] /\ Rest(h)
  /\ UNCHANGED <<scenario, dialog, rows>>

ClassifyFails(h) ==
  /\ At(h, "classify")
  /\ Rest(h)
  /\ UNCHANGED <<scenario, dialog, rows, conv, queue, note>>

\* The key lapses when the countdown of its task ends.
DebounceEnds ==
  /\ queue.regen # "none"
  /\ queue' = [queue EXCEPT !.regen = "none", !.due = IF queue.regen = "waits" THEN @ + 1 ELSE @]
  /\ UNCHANGED <<scenario, dialog, rows, conv, proc, note>>

\* reclassify_waiting_reviews_task sends for process_ai_review_task, which reads
\* all texts, whatever happened meanwhile.
Reclassify ==
  /\ conv.mood = "none" /\ ~queue.again /\ \E m \in Stored : dialog[m] = "text"
  /\ queue' = [queue EXCEPT !.again = TRUE]
  /\ UNCHANGED <<scenario, dialog, rows, conv, proc, note>>

Reclassified ==
  /\ queue.again
  /\ \/ conv' \in Judged /\ queue' = [queue EXCEPT !.again = FALSE, !.due = @ + 1]
     \/ queue' = [queue EXCEPT !.again = FALSE] /\ UNCHANGED conv
  /\ UNCHANGED <<scenario, dialog, rows, proc, note>>

(* handle_vk_admin_reply_from_poll: what the community said and has no row, *)
(* by whomever; the thread is answered unless the guest wrote later.        *)
NothingLater(m) == TRUE
IsLast(m)       == \A g \in Stored : g < m

NoteAnswer(h, m) ==
  /\ Free(h) /\ m \in Said({"staff", "panel", "reply", "ack"}) /\ rows[m] = 0 /\ Stored # {}
  /\ Keep(m)
  /\ IF IsLast(m) THEN Be(h, [Resting EXCEPT !.pc = "answer", !.at = m, !.was = Planned])
                  ELSE UNCHANGED proc
  /\ note' = [note EXCEPT !.echoed = @ \/ dialog[m] = "ack"]
  /\ UNCHANGED <<scenario, dialog, conv, queue>>

MarkAnswered(h) ==
  /\ At(h, "answer")
  /\ conv' = Withdrawn([conv EXCEPT !.replied = TRUE], proc[h].was)
  /\ Rest(h)
  /\ UNCHANGED <<scenario, dialog, rows, queue, note>>

----------------------------------------------------------------------------
(* maybe_generate_auto_draft                                               *)
Mark == IF Stored = {} THEN <<0, 0>> ELSE LET m == Max(Stored) IN <<m, rows[m]>>

Stale      == ~HasDraft \/ conv.of # Mark
CapReached == HasDraft /\ conv.gens >= DraftCap
Wanted     == ~conv.replied /\ Stale /\ conv.mood # "none" /\ "draft" \in scenario.modes

\* schedule_auto_ack_if_applicable: without a draft only a negative thread is
\* planned for.
AckInstead(w) == IF ~conv.replied /\ conv.mood = "neg" /\ "ack" \in scenario.modes
                 THEN Be(w, [Resting EXCEPT !.pc = "plan"]) ELSE Rest(w)

DraftStart(w) ==
  /\ Free(w) /\ queue.due > 0
  /\ queue' = [queue EXCEPT !.due = @ - 1]
  /\ IF Wanted /\ ~CapReached
     THEN Be(w, [Resting EXCEPT !.pc = "llm", !.mark = Mark, !.saw = Stored])
     ELSE AckInstead(w)
  /\ note' = [note EXCEPT !.missed = @ \/ (Wanted /\ CapReached), !.moot = @ \/ (conv.replied /\ Stale)]
  /\ UNCHANGED <<scenario, dialog, rows, conv>>

DraftFails(w) ==
  /\ w \in Workers /\ At(w, "llm")
  /\ AckInstead(w) /\ note' = [note EXCEPT !.missed = TRUE]
  /\ UNCHANGED <<scenario, dialog, rows, conv, queue>>

DraftSave(w) ==
  /\ w \in Workers /\ At(w, "llm")
  /\ conv' = [conv EXCEPT !.ver = @ + 1, !.of = proc[w].mark, !.saw = proc[w].saw,
                          !.rejected = FALSE, !.gens = @ + 1]
  /\ Be(w, [Resting EXCEPT !.pc = "plan"])
  /\ UNCHANGED <<scenario, dialog, rows, queue, note>>

(* auto_send_precheck, auto_ack_precheck                                   *)
MayReply == /\ {"draft", "send"} \subseteq scenario.modes /\ conv.mood = "pos"
            /\ ~conv.replied /\ ~conv.rejected /\ conv.ver > 0
MayAck   == "ack" \in scenario.modes /\ conv.mood = "neg" /\ ~conv.replied /\ ~conv.aiRow

(* schedule_auto_send                                                      *)
ReasonShown == \/ {"draft", "send"} \subseteq scenario.modes
               \/ conv.mood = "neg" /\ "ack" \in scenario.modes

Chosen == IF MayReply THEN <<"reply", conv.ver>> ELSE <<"ack", 0>>

PlanRead(p) ==
  /\ At(p, "plan") /\ conv.status \notin {"scheduled", "sent"} /\ (MayReply \/ MayAck)
  /\ proc' = [proc EXCEPT ![p].pc = "write", ![p].kind = Chosen[1], ![p].ticket = Chosen[2]]
  /\ UNCHANGED <<scenario, dialog, rows, conv, queue, note>>

NoPlan(p) ==
  /\ At(p, "plan") /\ (conv.status \in {"scheduled", "sent"} \/ ~(MayReply \/ MayAck))
  /\ IF conv.status \notin {"scheduled", "sent"} /\ ReasonShown
     THEN SetStatus("skipped") ELSE UNCHANGED conv
  /\ Rest(p)
  /\ UNCHANGED <<scenario, dialog, rows, queue, note>>

PlanOf(p)  == [conv EXCEPT !.status = "scheduled", !.kind = proc[p].kind, !.ticket = proc[p].ticket]
MoreTasks(k) == queue' = [queue EXCEPT !.tasks[k] = @ + 1]

PlanWrite(p) ==
  /\ At(p, "write")
  /\ conv' = PlanOf(p) /\ MoreTasks(proc[p].ticket)
  /\ Rest(p)
  /\ UNCHANGED <<scenario, dialog, rows, note>>

\* The broker is down: the plan is taken back.
NoRollback(c) == c
Rollback(c)   == [c EXCEPT !.status = ""]

PlanFails(p) ==
  /\ At(p, "write") /\ Fault
  /\ conv' = Rollback(PlanOf(p))
  /\ note' = Faulty /\ Rest(p)
  /\ UNCHANGED <<scenario, dialog, rows, queue>>

\* The process ends between the plan and its task.
PlanCutOff(p) ==
  /\ At(p, "write") /\ Fault
  /\ conv' = PlanOf(p)
  /\ note' = [Faulty EXCEPT !.lost = TRUE] /\ Rest(p)
  /\ UNCHANGED <<scenario, dialog, rows, queue>>

----------------------------------------------------------------------------
(* perform_auto_send, _perform_auto_ack: a task with its ticket.           *)
TicketOnly(k) == conv.ticket = k
Current(k)    == Planned /\ conv.ticket = k
Allowed       == IF conv.kind = "ack" THEN MayAck ELSE MayReply /\ conv.ver = conv.ticket

Take(w, k)    == Free(w) /\ queue.tasks[k] > 0
OneLess(k)    == queue' = [queue EXCEPT !.tasks[k] = @ - 1]

TaskEnds(w, k) ==
  /\ Take(w, k) /\ ~Current(k)
  /\ OneLess(k)
  /\ UNCHANGED <<scenario, dialog, rows, conv, proc, note>>

TaskRefused(w, k) ==
  /\ Take(w, k) /\ Current(k) /\ ~Allowed
  /\ OneLess(k) /\ SetStatus("skipped")
  /\ UNCHANGED <<scenario, dialog, rows, proc, note>>

\* Quiet hours: the worker came to it too late. The plan stays; when the broker
\* fails, nothing takes it back.
TaskPostponed(w, k) ==
  /\ Take(w, k) /\ Current(k) /\ Allowed /\ Fault
  /\ \/ UNCHANGED queue /\ note' = Faulty
     \/ OneLess(k) /\ note' = [Faulty EXCEPT !.lost = TRUE]
  /\ UNCHANGED <<scenario, dialog, rows, conv, proc>>

TaskSends(w, k) ==
  /\ Take(w, k) /\ Current(k) /\ Allowed
  /\ OneLess(k)
  /\ Be(w, [Resting EXCEPT !.pc = "vk", !.kind = conv.kind])
  /\ UNCHANGED <<scenario, dialog, rows, conv, note>>

\* send_vk_reply up to the answer of VK, by the task or from the panel.
VkAccepts(p) ==
  /\ At(p, "vk")
  /\ Say(proc[p].kind)
  /\ proc' = [proc EXCEPT ![p].pc = "row", ![p].at = Len(dialog) + 1]
  /\ UNCHANGED <<scenario, conv, queue, note>>

NotSent(p) == IF p \in Staff THEN Goto(p, "local") /\ UNCHANGED conv
                             ELSE SetStatus("failed") /\ Rest(p)

VkRefuses(p) ==
  /\ At(p, "vk")
  /\ NotSent(p)
  /\ UNCHANGED <<scenario, dialog, rows, queue, note>>

AnswerLost(p) ==
  /\ At(p, "vk") /\ Fault
  /\ Say(proc[p].kind) /\ NotSent(p)
  /\ note' = [Faulty EXCEPT !.unrecorded = @ + 1]
  /\ UNCHANGED <<scenario, queue>>

Replies(p) == proc[p].kind # "ack"

Row(p) ==
  /\ At(p, "row")
  /\ Keep(proc[p].at)
  /\ LET answered == [conv EXCEPT !.replied = @ \/ Replies(p)]
     IN  conv' = IF p \in Staff THEN Withdrawn(answered, proc[p].was)
                                ELSE [answered EXCEPT !.aiRow = TRUE, !.status = "sent"]
  /\ Rest(p)
  /\ UNCHANGED <<scenario, dialog, queue, note>>

\* A worker is killed, or a query raises outside of the inner try.
Killed(w) ==
  /\ w \in Workers /\ proc[w].pc # "idle" /\ Fault
  /\ note' = [Faulty EXCEPT !.missed = @ \/ At(w, "llm"), !.lost = @ \/ At(w, "vk") \/ At(w, "row"),
                            !.unrecorded = IF At(w, "row") THEN @ + 1 ELSE @]
  /\ Rest(w)
  /\ UNCHANGED <<scenario, dialog, rows, conv, queue>>

\* The broker hands out once more what a worker has held for an hour.
Redelivered(k) ==
  /\ queue.tasks[k] > 0 /\ Fault
  /\ MoreTasks(k) /\ note' = Faulty
  /\ UNCHANGED <<scenario, dialog, rows, conv, proc>>

----------------------------------------------------------------------------
(* The staff: reply, cancel (or resolve), reject, regenerate.              *)
PanelStart(s) ==
  /\ Free(s) /\ Acts("panel") /\ Stored # {}
  /\ Be(s, [Resting EXCEPT !.pc = "vk", !.kind = "panel", !.was = Planned])
  /\ note' = Acted
  /\ UNCHANGED <<scenario, dialog, rows, conv, queue>>

\* The mobile application keeps an answer VK did not take, the panel does not.
KeepLocally(s) ==
  /\ At(s, "local")
  /\ dialog' = Append(dialog, "local") /\ rows' = Append(rows, 1)
  /\ conv' = Withdrawn([conv EXCEPT !.replied = TRUE], proc[s].was)
  /\ Rest(s)
  /\ UNCHANGED <<scenario, queue, note>>

GiveUp(s) ==
  /\ At(s, "local")
  /\ Rest(s)
  /\ UNCHANGED <<scenario, dialog, rows, conv, queue, note>>

CancelPlan(s) ==
  /\ Free(s) /\ Acts("cancel") /\ Planned
  /\ conv' = Withdrawn(conv, TRUE) /\ note' = Acted
  /\ UNCHANGED <<scenario, dialog, rows, queue, proc>>

RejectDraft(s) ==
  /\ Free(s) /\ Acts("reject") /\ HasDraft
  /\ conv' = Withdrawn([conv EXCEPT !.rejected = TRUE], TRUE) /\ note' = Acted
  /\ UNCHANGED <<scenario, dialog, rows, queue, proc>>

RegenStart(s) ==
  /\ Free(s) /\ Acts("regen") /\ HasDraft
  /\ Be(s, [Resting EXCEPT !.pc = "llm", !.saw = Stored, !.was = Planned])
  /\ note' = Acted
  /\ UNCHANGED <<scenario, dialog, rows, conv, queue>>

\* A new text under the old ai_draft_message_id.
RegenSave(s) ==
  /\ s \in Staff /\ At(s, "llm")
  /\ LET renewed == [conv EXCEPT !.ver = @ + 1, !.saw = proc[s].saw, !.rejected = FALSE]
     IN  conv' = Withdrawn(renewed, proc[s].was)
  /\ IF proc[s].was THEN Goto(s, "plan") ELSE Rest(s)
  /\ UNCHANGED <<scenario, dialog, rows, queue, note>>

RegenFails(s) ==
  /\ s \in Staff /\ At(s, "llm")
  /\ Rest(s)
  /\ UNCHANGED <<scenario, dialog, rows, conv, queue, note>>

----------------------------------------------------------------------------
Init ==
  /\ scenario \in Scenarios
  /\ dialog = <<>> /\ rows = <<>>
  /\ conv = [mood |-> "none", replied |-> FALSE, aiRow |-> FALSE, ver |-> 0, of |-> <<0, 0>>,
             saw |-> {}, rejected |-> FALSE, gens |-> 0, status |-> "", kind |-> "", ticket |-> 0]
  /\ queue = [due |-> 0, regen |-> "none", again |-> FALSE,
              tasks |-> [k \in Tickets |-> 0]]
  /\ proc = [p \in Procs |-> Resting]
  /\ note = [heard |-> {}, unrecorded |-> 0, echoed |-> FALSE, missed |-> FALSE, moot |-> FALSE,
             lost |-> FALSE, faults |-> 0, acts |-> 0]
  /\ races = {}

Handle(h) ==
  \/ \E m \in DOMAIN dialog : TakeGuest(h, m) \/ NoteAnswer(h, m)
  \/ Store(h) \/ Classify(h) \/ ClassifyFails(h) \/ MarkAnswered(h)

Plan(p) == PlanRead(p) \/ NoPlan(p) \/ PlanWrite(p)
Send(p) == VkAccepts(p) \/ VkRefuses(p) \/ Row(p)

Work(w) ==
  \/ DraftStart(w) \/ DraftSave(w) \/ DraftFails(w) \/ Plan(w)
  \/ \E k \in Tickets : TaskEnds(w, k) \/ TaskRefused(w, k) \/ TaskSends(w, k)
  \/ Send(w)

Finish(s) == RegenSave(s) \/ RegenFails(s) \/ Plan(s) \/ Send(s) \/ KeepLocally(s) \/ GiveUp(s)

Act(s) == PanelStart(s) \/ CancelPlan(s) \/ RejectDraft(s) \/ RegenStart(s)

Fails ==
  \/ \E h \in Handlers : EnqueueFails(h)
  \/ \E p \in Workers \cup Staff : PlanFails(p) \/ PlanCutOff(p) \/ AnswerLost(p)
  \/ \E w \in Workers : Killed(w) \/ \E k \in Tickets : TaskPostponed(w, k)
  \/ \E k \in Tickets : Redelivered(k)

Steps ==
  \/ GuestWrites \/ StaffWriteInVk \/ DebounceEnds \/ Reclassify \/ Reclassified \/ Fails
  \/ \E h \in Handlers : Handle(h)
  \/ \E w \in Workers : Work(w)
  \/ \E s \in Staff : Act(s) \/ Finish(s)

\* Which unlocked sections meet: two that decide on or send an automatic
\* message, two that write a draft, a message that becomes known while a draft
\* is written, one that is stored while somebody answers, and one that is stored
\* after a later one.
Sends(p)     == proc'[p].pc \in {"write", "vk", "row"} /\ proc'[p].kind # "panel"
Drafts(p)    == proc'[p].pc \in {"llm", "plan", "write"}
Answering(p) == \/ proc[p].pc \in {"answer", "local"}
                \/ proc[p].pc \in {"vk", "row"} /\ proc[p].kind # "ack"
Stores(h)    == At(h, "store") /\ proc'[h].pc # "store"
Meet(Q(_))   == \E p, q \in Procs : p # q /\ Q(p) /\ Q(q)

Watch ==
  races' = races
    \cup {r \in {"sends"}   : Meet(Sends)}
    \cup {r \in {"drafts"}  : Meet(Drafts)}
    \cup {r \in {"news"}    : note'.heard # note.heard /\ \E p \in Procs : Drafts(p) \/ Sends(p)}
    \cup {r \in {"answers"} : (\E h \in Handlers : Stores(h)) /\ \E p \in Procs : Answering(p)}
    \cup {r \in {"late"}    : \E h \in Handlers : Stores(h) /\ \E g \in Stored : g > proc[h].at}

Next == Steps /\ Watch

Spec == Init /\ [][Next]_vars

\* Messages are brought in, tasks are run, requests finish; faults and acts of
\* the staff need not happen.
Fairness ==
  /\ WF_vars(DebounceEnds /\ Watch)
  /\ \A h \in Handlers : WF_vars(Handle(h) /\ Watch)
  /\ \A w \in Workers : WF_vars(Work(w) /\ Watch)
  /\ \A s \in Staff : WF_vars(Finish(s) /\ Watch)

FairSpec == Spec /\ Fairness

----------------------------------------------------------------------------
(* Types of the conversation, of its messages, tasks and processes; only a  *)
(* draft that exists is rejected (reject-draft).                            *)
TypeOK ==
  /\ scenario \in Scenarios
  /\ dialog \in Seq(FromGuest \cup Automatic \cup Answers) /\ rows \in Seq(Nat)
  /\ Len(rows) = Len(dialog)
  /\ conv \in Conv /\ (conv.rejected => conv.ver > 0)
  /\ queue \in Queue
  /\ proc \in [Procs -> Proc]
  /\ note.heard \subseteq Said({"text"}) /\ note.faults \in 0 .. scenario.faults

(* schedule_auto_send, perform_auto_send: a thread gets one automatic       *)
(* message, however often it is replanned, postponed and redelivered,       *)
(* except after one that was sent without a trace, or when two processes    *)
(* decide on it at the same time.                                           *)
OneAutoReply ==
  "sends" \in races \/ Cardinality(Said(Automatic)) =< 1 + note.unrecorded

(* is_replied is what hides a thread from the staff: it says that everything *)
(* stored from the guest was answered, by somebody and by more than the      *)
(* acknowledgement; unless a message was stored while somebody answered, or  *)
(* the acknowledgement came back from VK before it had a row.                *)
AnsweredMeansAnswered ==
  conv.replied /\ "answers" \notin races /\ ~note.echoed =>
    \A m \in Stored : \E n \in Said(Answers) : m < n

Coming == queue.due > 0 \/ queue.regen = "waits" \/ \E p \in Procs : proc[p].pc = "llm"

(* _enqueue_ai_draft: when a task starts to send a drafted answer, the draft *)
(* knows every message that was classified before; unless a generation was   *)
(* refused or lost, two of them met, or the message became known while a     *)
(* draft was written and its own generation is still to come, or came when   *)
(* the staff had answered a thread that the guest or a second row reopened.  *)
RepliesKnowTheNews ==
  [][\A w \in Workers :
       (At(w, "idle") /\ proc'[w].pc = "vk" /\ proc'[w].kind = "reply") =>
         \/ note.heard \subseteq conv.saw
         \/ note.missed \/ {"drafts", "late"} \cap races # {}
         \/ "news" \in races /\ (Coming \/ note.moot)]_vars

(* A plan does not stay for ever: it is sent, cancelled, skipped or fails,  *)
(* although quiet hours postpone it and the broker fails, unless the task   *)
(* itself was lost.                                                         *)
EveryPlanEnds == Planned ~> (~Planned \/ note.lost)
=============================================================================
