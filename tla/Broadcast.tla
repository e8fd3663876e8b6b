----------------------------- MODULE Broadcast -----------------------------
(***************************************************************************)
(* A manual broadcast: run_broadcast of senler/services.py, driven through *)
(* the sends of one request by run_broadcast_task of senler/tasks.py, next *)
(* to the administrators who cancel a send or delete its messages from VK  *)
(* (senler/api/broadcasts.py, senler/admin.py).                            *)
(*                                                                         *)
(* No lock is taken anywhere: a status is read in one statement, acted on  *)
(* later, and written without looking at it again.  A celery soft time     *)
(* limit is an exception that may come between any two steps of the task;  *)
(* a killed worker loses the task, which celery acknowledged when it began.*)
(* The counters of a send are recomputed from its recipients whenever they *)
(* are written and are left out.                                           *)
(***************************************************************************)
EXTENDS Naturals, FiniteSets

CONSTANTS
  NumSends,     \* BroadcastSend rows of the request: 1, 2, ...
  Guests,       \* guests that may be in an audience
  None,         \* no guest in hand
  CheckEvery,   \* CANCEL_CHECK_EVERY
  MaxRequeues,  \* MAX_REQUEUES: continuations of the task
  MaxCancels    \* bound: cancel requests

ASSUME SendsAssumption == NumSends \in Nat \ {0} /\ None \notin Guests
ASSUME LimitAssumption ==
  CheckEvery \in Nat \ {0} /\ MaxRequeues \in Nat /\ MaxCancels \in Nat

VARIABLES
  status,      \* [Sends -> SendStatus]
  recipient,   \* [Sends -> [Guests -> RecipientStatus]]: BroadcastRecipient rows
  task,        \* what the celery task is doing
  cancelling,  \* sends a cancel request has found cancellable
  cancels,     \* history: cancel requests so far
  accepted,    \* history: sends whose cancel was written
  since,       \* history: messages since a send was last marked cancelled
  delivered,   \* history: [Sends -> [Guests -> Nat]]: messages VK delivered
  abandoned    \* history: sends nobody will go on with

vars == <<status, recipient, task, cancelling, cancels, accepted, since, delivered, abandoned>>
admin   == <<cancelling, cancels, accepted>>
history == <<since, delivered>>

----------------------------------------------------------------------------
Sends           == 1..NumSends
SendStatus      == {"pending", "running", "done", "failed", "cancelled"}
Ended           == {"done", "failed", "cancelled"}
RecipientStatus == {"none", "pending", "sent", "skipped", "failed"}

\* at: the send it is at; depth: requeue_depth; todo: recipients still to
\* visit; processed: visited in this run, modulo CheckEvery; guest, outcome:
\* the one in hand.
Task == [pc : {"fetch", "start", "resolve", "loop", "send", "save", "over"},
         at : Sends, depth : 0..MaxRequeues, todo : SUBSET Guests,
         processed : 0..(CheckEvery - 1), guest : Guests \cup {None}, outcome : RecipientStatus]

Begun(s) == [pc |-> "fetch", at |-> s, depth |-> task.depth, todo |-> {},
             processed |-> 0, guest |-> None, outcome |-> "none"]

\* run_broadcast returned: the task goes on with its next send.
NextSend == task' = IF task.at < NumSends THEN Begun(task.at + 1)
                    ELSE [task EXCEPT !.pc = "over"]

InState(s, state) == {g \in Guests : recipient[s][g] = state}
Known(s)          == \E g \in Guests : recipient[s][g] # "none"

\* _cancel_pending_recipients
CancelPending(s) ==
  recipient' = [recipient EXCEPT ![s] =
     [g \in Guests |-> IF @[g] = "pending" THEN "skipped" ELSE @[g]]]

SetStatus(s, new) == status' = [status EXCEPT ![s] = new]

----------------------------------------------------------------------------
(* run_broadcast: a send cancelled before it (re)starts is left at once ... *)
Refresh ==
  /\ task.pc = "fetch"
  /\ IF status[task.at] = "cancelled"
     THEN CancelPending(task.at) /\ NextSend
     ELSE task' = [task EXCEPT !.pc = "start"] /\ UNCHANGED recipient
  /\ UNCHANGED <<status, admin, history, abandoned>>

(* ... any other one is marked running, whatever happened meanwhile.       *)
Start ==
  /\ task.pc = "start"
  /\ SetStatus(task.at, "running")
  /\ task' = [task EXCEPT !.pc = "resolve"]
  /\ UNCHANGED <<recipient, admin, history, abandoned>>

\* No SenlerConfig, or an inactive one.
NotConfigured ==
  /\ task.pc = "resolve"
  /\ SetStatus(task.at, "failed")
  /\ NextSend
  /\ UNCHANGED <<recipient, admin, history, abandoned>>

\* The recipients this run will write to.
EverybodyKnown(rows) == {g \in Guests : rows[g] # "none"}
Unfinished(rows)     == {g \in Guests : rows[g] = "pending"}

(* The audience is resolved by the first run only; a later one goes on     *)
(* with the recipients that are still pending.                             *)
Resolve ==
  /\ task.pc = "resolve"
  /\ \E audience \in IF Known(task.at) THEN {{}} ELSE SUBSET Guests :
       /\ Known(task.at) \/ audience # {}
       /\ recipient' = [recipient EXCEPT ![task.at] =
            [g \in Guests |-> IF g \in audience THEN "pending" ELSE @[g]]]
       /\ task' = [task EXCEPT !.pc = "loop", !.todo = Unfinished(recipient'[task.at])]
  /\ UNCHANGED <<status, admin, history, abandoned>>

EmptyAudience ==
  /\ task.pc = "resolve" /\ ~Known(task.at)
  /\ SetStatus(task.at, "done")
  /\ NextSend
  /\ UNCHANGED <<recipient, admin, history, abandoned>>

NeverLooks == FALSE

\* Before every CheckEvery-th recipient the status is read again.
CancelSeen == task.processed = 0 /\ status[task.at] = "cancelled"

StopCancelled ==
  /\ task.pc = "loop" /\ task.todo # {}
  /\ CancelSeen
  /\ CancelPending(task.at)
  /\ SetStatus(task.at, "cancelled")
  /\ NextSend
  /\ UNCHANGED <<admin, history, abandoned>>

NextRecipient(g) ==
  /\ task.pc = "loop" /\ g \in task.todo
  /\ ~CancelSeen
  /\ task' = [task EXCEPT !.pc = "send", !.guest = g]
  /\ UNCHANGED <<status, recipient, admin, history, abandoned>>

(* send_vk_message: VK delivers or not, and the answer may be lost on the  *)
(* way; guests who allow no messages, or have no vk_id, are skipped.       *)
Deliver(leaves, outcome) ==
  /\ task.pc = "send"
  /\ outcome = "sent" => leaves
  /\ outcome = "skipped" => ~leaves
  /\ task' = [task EXCEPT !.pc = "save", !.outcome = outcome]
  /\ IF leaves
     THEN /\ delivered' = [delivered EXCEPT ![task.at][task.guest] = @ + 1]
          /\ since' = IF task.at \in accepted
                      THEN [since EXCEPT ![task.at] = @ + 1] ELSE since
     ELSE UNCHANGED history
  /\ UNCHANGED <<status, recipient, admin, abandoned>>

Visited == task' = [task EXCEPT !.pc = "loop", !.todo = @ \ {task.guest},
                                !.processed = IF @ + 1 = CheckEvery THEN 0 ELSE @ + 1,
                                !.guest = None, !.outcome = "none"]

SaveAnswered ==
  /\ task.pc = "save"
  /\ recipient' = IF task.outcome = "skipped" THEN recipient
                  ELSE [recipient EXCEPT ![task.at][task.guest] = task.outcome]
  /\ Visited
  /\ UNCHANGED <<status, admin, history, abandoned>>

SaveRecipient ==
  /\ task.pc = "save"
  /\ recipient' = [recipient EXCEPT ![task.at][task.guest] = task.outcome]
  /\ Visited
  /\ UNCHANGED <<status, admin, history, abandoned>>

\* The end of the loop writes done, without reading the status again.
Finish ==
  /\ task.pc = "loop" /\ task.todo = {}
  /\ SetStatus(task.at, "done")
  /\ NextSend
  /\ UNCHANGED <<recipient, admin, history, abandoned>>

----------------------------------------------------------------------------
Running == task.pc # "over"

RequeueUnbounded ==
  /\ Running
  /\ task' = [Begun(task.at) EXCEPT !.depth = task.depth + 1]
  /\ UNCHANGED <<status, recipient, admin, history, abandoned>>

DiesSilently ==
  /\ Running /\ task.depth < MaxRequeues
  /\ task' = [task EXCEPT !.pc = "over"]
  /\ UNCHANGED <<status, recipient, admin, history, abandoned>>

(* SoftTimeLimitExceeded: run_broadcast_task queues a continuation for the *)
(* send it is at and those after it ...                                    *)
TimeLimit ==
  /\ Running /\ task.depth < MaxRequeues
  /\ task' = [Begun(task.at) EXCEPT !.depth = task.depth + 1]
  /\ UNCHANGED <<status, recipient, admin, history, abandoned>>

(* ... until there were too many: that send fails, later ones stay behind. *)
RequeueLimit ==
  /\ Running /\ task.depth = MaxRequeues
  /\ SetStatus(task.at, "failed")
  /\ task' = [task EXCEPT !.pc = "over"]
  /\ abandoned' = abandoned \cup {s \in Sends : s > task.at}
  /\ UNCHANGED <<recipient, admin, history>>

(* Any other exception is logged and the task goes on with the next send.  *)
RunRaises ==
  /\ Running
  /\ abandoned' = abandoned \cup {task.at}
  /\ NextSend
  /\ UNCHANGED <<status, recipient, admin, history>>

WorkerKilled ==
  /\ Running
  /\ task' = [task EXCEPT !.pc = "over"]
  /\ abandoned' = abandoned \cup {s \in Sends : s >= task.at}
  /\ UNCHANGED <<status, recipient, admin, history>>

----------------------------------------------------------------------------
(* A cancel request reads the status ...                                   *)
CancelRead(s) ==
  /\ s \notin cancelling
  /\ cancels < MaxCancels
  /\ status[s] \in {"pending", "running"}
  /\ cancelling' = cancelling \cup {s}
  /\ cancels' = cancels + 1
  /\ UNCHANGED <<status, recipient, task, accepted, history, abandoned>>

(* ... and writes it.                                                      *)
CancelSave(s) ==
  /\ s \in cancelling
  /\ SetStatus(s, "cancelled")
  /\ cancelling' = cancelling \ {s}
  /\ accepted' = accepted \cup {s}
  /\ since' = [since EXCEPT ![s] = 0]
  /\ UNCHANGED <<recipient, task, cancels, delivered, abandoned>>

(* delete_broadcast_send_in_vk: messages older than a day stay, a chunk may*)
(* fail; the send is marked cancelled if some went and none failed.        *)
DeleteInVK(s, deleted, errors) ==
  /\ status[s] = "done"
  /\ deleted # {} /\ deleted \subseteq InState(s, "sent")
  /\ recipient' = [recipient EXCEPT ![s] =
       [g \in Guests |-> IF g \in deleted THEN "skipped" ELSE @[g]]]
  /\ IF errors THEN UNCHANGED status ELSE SetStatus(s, "cancelled")
  /\ since' = [since EXCEPT ![s] = 0]
  /\ UNCHANGED <<task, admin, delivered, abandoned>>

----------------------------------------------------------------------------
Init ==
  /\ status = [s \in Sends |-> "pending"]
  /\ recipient = [s \in Sends |-> [g \in Guests |-> "none"]]
  /\ task = [pc |-> "fetch", at |-> 1, depth |-> 0, todo |-> {}, processed |-> 0,
             guest |-> None, outcome |-> "none"]
  /\ cancelling = {}
  /\ cancels = 0
  /\ accepted = {}
  /\ since = [s \in Sends |-> 0]
  /\ delivered = [s \in Sends |-> [g \in Guests |-> 0]]
  /\ abandoned = {}

Send ==
  \/ Refresh \/ Start \/ NotConfigured \/ Resolve \/ EmptyAudience
  \/ StopCancelled \/ SaveRecipient \/ Finish
  \/ \E g \in Guests : NextRecipient(g)
  \/ \E leaves \in BOOLEAN, outcome \in {"sent", "skipped", "failed"} : Deliver(leaves, outcome)

Interruption == TimeLimit \/ RequeueLimit \/ RunRaises \/ WorkerKilled

Administrator ==
  \E s \in Sends :
    \/ CancelRead(s) \/ CancelSave(s)
    \/ \E deleted \in SUBSET Guests, errors \in BOOLEAN : DeleteInVK(s, deleted, errors)

Next == Send \/ Interruption \/ Administrator

Spec == Init /\ [][Next]_vars

\* A queued task is run, and a running one goes on.
FairSpec == Spec /\ WF_vars(Send)

----------------------------------------------------------------------------
(* Types of the sends, their recipients, the task and the history.         *)
TypeOK ==
  /\ status \in [Sends -> SendStatus]
  /\ recipient \in [Sends -> [Guests -> RecipientStatus]]
  /\ task \in Task
  /\ cancelling \subseteq Sends
  /\ cancels \in Nat
  /\ accepted \subseteq Sends
  /\ since \in [Sends -> Nat]
  /\ delivered \in [Sends -> [Guests -> Nat]]
  /\ abandoned \subseteq Sends

(* While a send is marked cancelled, at most CheckEvery messages leave     *)
(* (cancel API: "up to 10 messages may still leave"), continuations after  *)
(* a time limit included.                                                  *)
CancelledSendStops ==
  \A s \in Sends : status[s] = "cancelled" => since[s] <= CheckEvery

(* The same for every send whose cancel request was answered with success. *)
CancelIsHonoured ==
  \A s \in accepted : since[s] <= CheckEvery

Repeats ==
  {r \in Sends \X Guests \X (2..(MaxRequeues + 2)) : delivered[r[1]][r[2]] >= r[3]}

(* Nobody gets a message twice, except for the one recipient who is in     *)
(* hand when a time limit strikes (run_broadcast: "a repeated run only     *)
(* serves the PENDING recipients").                                        *)
RepeatsNeedTimeLimit == Cardinality(Repeats) <= task.depth

(* A send that is done has decided on all its recipients, and those it     *)
(* calls sent did get the message, through time limits and continuations.  *)
DoneIsComplete ==
  \A s \in Sends : status[s] = "done" =>
    \A g \in Guests : /\ recipient[s][g] # "pending"
                      /\ recipient[s][g] = "sent" => delivered[s][g] > 0

(* Every send of the request ends, through time limits, unless its worker  *)
(* is killed, it raises, or an earlier send used up the continuations (the *)
(* task: "used to kill a broadcast silently ... running for ever").        *)
EverySendEnds ==
  \A s \in Sends : <>[](status[s] \in Ended \/ s \in abandoned)
=============================================================================
