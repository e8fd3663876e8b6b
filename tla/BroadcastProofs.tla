-------------------------- MODULE BroadcastProofs --------------------------
(***************************************************************************)
(* Theorems about Broadcast, for every number of sends, guests, cancel     *)
(* requests and continuations.                                             *)
(***************************************************************************)
EXTENDS Broadcast, TLAPS, FiniteSetTheorems

USE SendsAssumption, LimitAssumption DEF Sends, admin, history

----------------------------------------------------------------------------
(* A run that begins with a send of the request is well typed.             *)
LEMMA BegunType ==
  ASSUME TypeOK, NEW s \in Sends
  PROVE  Begun(s) \in Task
BY DEF TypeOK, Task, Begun, RecipientStatus

LEMMA NextSendType ==
  ASSUME TypeOK, NextSend
  PROVE  task' \in Task
<1>1. task.at \in Sends /\ (task.at < NumSends => task.at + 1 \in Sends)
  BY DEF TypeOK, Task
<1>2. CASE task.at < NumSends
  BY <1>1, <1>2, BegunType DEF NextSend
<1>3. CASE ~(task.at < NumSends)
  BY <1>3 DEF NextSend, TypeOK, Task
<1> QED
  BY <1>2, <1>3

(* A cell of a table of rows changes; outside of the table nothing does.   *)
LEMMA CellType ==
  ASSUME NEW T, NEW f \in [Sends -> [Guests -> T]], NEW s \in Sends, NEW g, NEW v,
         g \in Guests => v \in T
  PROVE  [f EXCEPT ![s] = [@ EXCEPT ![g] = v]] \in [Sends -> [Guests -> T]]
<1>1. [f[s] EXCEPT ![g] = v] \in [Guests -> T]
  <2>1. CASE g \in Guests
    BY <2>1
  <2>2. CASE g \notin Guests
    <3>1. [f[s] EXCEPT ![g] = v] = f[s]
      BY <2>2
    <3> QED
      BY <3>1
  <2> QED
    BY <2>1, <2>2
<1> QED
  BY <1>1

LEMMA CancelPendingType ==
  ASSUME TypeOK, NEW s \in Sends, CancelPending(s)
  PROVE  recipient' \in [Sends -> [Guests -> RecipientStatus]]
<1>1. [g \in Guests |-> IF recipient[s][g] = "pending" THEN "skipped" ELSE recipient[s][g]]
        \in [Guests -> RecipientStatus]
  BY DEF TypeOK, RecipientStatus
<1> QED
  BY <1>1 DEF TypeOK, CancelPending

LEMMA TypePreserved ==
  ASSUME TypeOK, [Next]_vars
  PROVE  TypeOK'
<1> USE DEF TypeOK, SendStatus, RecipientStatus
<1>1. CASE Refresh
  <2>1. task.at \in Sends
    BY DEF Task
  <2>2. recipient' \in [Sends -> [Guests -> RecipientStatus]]
    BY <1>1, <2>1, CancelPendingType DEF Refresh
  <2>3. task' \in Task
    <3>1. CASE status[task.at] = "cancelled"
      <4>1. NextSend
        BY <1>1, <3>1 DEF Refresh
      <4> QED
        BY <4>1, NextSendType
    <3>2. CASE status[task.at] # "cancelled"
      <4>1. task' = [task EXCEPT !.pc = "start"]
        BY <1>1, <3>2 DEF Refresh
      <4> QED
        BY <4>1 DEF Task
    <3> QED
      BY <3>1, <3>2
  <2> QED
    BY <1>1, <2>2, <2>3 DEF Refresh
<1>2. CASE Start
  BY <1>2 DEF Start, SetStatus, Task
<1>3. CASE NotConfigured
  BY <1>3, NextSendType DEF NotConfigured, SetStatus, Task
<1>4. CASE Resolve
  <2> PICK audience \in SUBSET Guests :
        /\ recipient' = [recipient EXCEPT ![task.at] =
             [g \in Guests |-> IF g \in audience THEN "pending" ELSE @[g]]]
        /\ task' = [task EXCEPT !.pc = "loop", !.todo = Unfinished(recipient'[task.at])]
    BY <1>4 DEF Resolve
  <2>1. recipient' \in [Sends -> [Guests -> RecipientStatus]]
    BY DEF Task
  <2>2. task' \in Task
    BY DEF Task, Unfinished
  <2> QED
    BY <1>4, <2>1, <2>2 DEF Resolve
<1>5. CASE EmptyAudience
  BY <1>5, NextSendType DEF EmptyAudience, SetStatus, Task
<1>6. CASE StopCancelled
  <2>1. task.at \in Sends
    BY DEF Task
  <2>2. recipient' \in [Sends -> [Guests -> RecipientStatus]]
    BY <1>6, <2>1, CancelPendingType DEF StopCancelled
  <2> QED
    BY <1>6, <2>2, NextSendType DEF StopCancelled, SetStatus
<1>7. CASE SaveRecipient
  <2>1. task.at \in Sends /\ task.outcome \in RecipientStatus
    BY DEF Task
  <2>2. recipient' = [recipient EXCEPT ![task.at] = [@ EXCEPT ![task.guest] = task.outcome]]
    BY <1>7 DEF SaveRecipient
  <2>3. recipient' \in [Sends -> [Guests -> RecipientStatus]]
    BY <2>1, <2>2, CellType
  <2>4. task' \in Task
    <3> DEFINE next == IF task.processed + 1 = CheckEvery THEN 0 ELSE task.processed + 1
    <3>1. next \in 0..(CheckEvery - 1)
      BY DEF Task
    <3>2. task' = [task EXCEPT !.pc = "loop", !.todo = @ \ {task.guest},
                              !.processed = next, !.guest = None, !.outcome = "none"]
      BY <1>7 DEF SaveRecipient, Visited
    <3> HIDE DEF next
    <3> QED
      BY <3>1, <3>2 DEF Task
  <2> QED
    BY <1>7, <2>3, <2>4 DEF SaveRecipient
<1>8. CASE Finish
  BY <1>8, NextSendType DEF Finish, SetStatus, Task
<1>9. ASSUME NEW g \in Guests, NextRecipient(g)
      PROVE  TypeOK'
  BY <1>9 DEF NextRecipient, Task
<1>10. ASSUME NEW leaves \in BOOLEAN, NEW outcome \in {"sent", "skipped", "failed"},
              Deliver(leaves, outcome)
       PROVE  TypeOK'
  <2>1. task' \in Task
    BY <1>10 DEF Deliver, Task
  <2>2. delivered' \in [Sends -> [Guests -> Nat]]
    <3> DEFINE n == delivered[task.at][task.guest] + 1
    <3>1. task.at \in Sends /\ (task.guest \in Guests => n \in Nat)
      BY DEF Task
    <3>2. \/ delivered' = [delivered EXCEPT ![task.at] = [@ EXCEPT ![task.guest] = n]]
          \/ delivered' = delivered
      BY <1>10 DEF Deliver
    <3> HIDE DEF n
    <3>3. [delivered EXCEPT ![task.at] = [@ EXCEPT ![task.guest] = n]] \in [Sends -> [Guests -> Nat]]
      BY <3>1, CellType
    <3> QED
      BY <3>2, <3>3
  <2>3. since' \in [Sends -> Nat]
    BY <1>10 DEF Deliver, Task
  <2> QED
    BY <1>10, <2>1, <2>2, <2>3 DEF Deliver
<1>11. CASE TimeLimit
  <2> DEFINE start == Begun(task.at)
  <2>1. start \in Task
    <3>1. task.at \in Sends
      BY DEF Task
    <3> QED
      BY <3>1, BegunType
  <2>2. task.depth + 1 \in 0..MaxRequeues
    BY <1>11 DEF TimeLimit, Task
  <2>3. task' = [start EXCEPT !.depth = task.depth + 1]
    BY <1>11 DEF TimeLimit
  <2> HIDE DEF start
  <2>4. task' \in Task
    BY <2>1, <2>2, <2>3 DEF Task
  <2> QED
    BY <1>11, <2>4 DEF TimeLimit
<1>12. CASE RequeueLimit
  BY <1>12 DEF RequeueLimit, SetStatus, Task
<1>13. CASE RunRaises
  BY <1>13, NextSendType DEF RunRaises, Task
<1>14. CASE WorkerKilled
  BY <1>14 DEF WorkerKilled, Task
<1>15. ASSUME NEW s \in Sends, CancelRead(s) PROVE TypeOK'
  BY <1>15 DEF CancelRead
<1>16. ASSUME NEW s \in Sends, CancelSave(s) PROVE TypeOK'
  BY <1>16 DEF CancelSave, SetStatus
<1>17. ASSUME NEW s \in Sends, NEW deleted \in SUBSET Guests, NEW errors \in BOOLEAN,
              DeleteInVK(s, deleted, errors)
       PROVE  TypeOK'
  BY <1>17 DEF DeleteInVK, SetStatus
<1>18. CASE UNCHANGED vars
  BY <1>18 DEF vars
<1> HIDE DEF TypeOK, SendStatus, RecipientStatus
<1> QED
  BY <1>1, <1>2, <1>3, <1>4, <1>5, <1>6, <1>7, <1>8, <1>9, <1>10, <1>11, <1>12, <1>13, <1>14,
     <1>15, <1>16, <1>17, <1>18 DEF Next, Send, Interruption, Administrator

(* Sends, recipients and the task keep their types.                        *)
THEOREM TypeCorrect == Spec => []TypeOK
<1>1. Init => TypeOK
  BY DEF Init, TypeOK, Task, SendStatus, RecipientStatus
<1> QED
  BY <1>1, TypePreserved, PTL DEF Spec

----------------------------------------------------------------------------
\* Between two looks at the status, a cancelled send has written to no more
\* guests than it has visited since the last look.
CheckInv ==
  /\ task.pc \in {"fetch", "start", "resolve"} => task.processed = 0
  /\ \A s \in Sends : status[s] = "cancelled" => since[s] <= CheckEvery
  /\ status[task.at] = "cancelled" =>
       /\ task.pc = "loop" /\ task.processed # 0 => since[task.at] <= task.processed
       /\ task.pc = "send" => since[task.at] <= task.processed
       /\ task.pc = "save" => since[task.at] <= task.processed + 1

(* A run that begins has looked at nobody, and neither has one that is over.*)
LEMMA NextSendUnchecked ==
  ASSUME TypeOK, NextSend
  PROVE  task'.pc \in {"fetch", "over"} /\ (task'.pc = "fetch" => task'.processed = 0)
BY DEF TypeOK, Task, NextSend, Begun

LEMMA CheckPreserved ==
  ASSUME TypeOK, TypeOK', CheckInv, [Next]_vars
  PROVE  CheckInv'
<1> USE DEF CheckInv
<1>a. /\ task.at \in Sends /\ task.processed \in 0..(CheckEvery - 1)
      /\ status \in [Sends -> SendStatus] /\ since \in [Sends -> Nat]
      /\ task \in Task
  BY DEF TypeOK, Task
<1>1. CASE Refresh
  <2>1. UNCHANGED <<status, since>>
    BY <1>1 DEF Refresh
  <2>2. CASE status[task.at] = "cancelled"
    BY <1>1, <2>1, <2>2, NextSendUnchecked DEF Refresh
  <2>3. CASE status[task.at] # "cancelled"
    BY <1>a, <1>1, <2>1, <2>3 DEF Refresh, Task
  <2> QED
    BY <2>2, <2>3
<1>2. CASE Start
  BY <1>a, <1>2 DEF Start, SetStatus, Task
<1>3. CASE NotConfigured \/ EmptyAudience \/ Finish
  <2>1. /\ UNCHANGED since /\ NextSend
        /\ \E new \in {"failed", "done"} : status' = [status EXCEPT ![task.at] = new]
    BY <1>3 DEF NotConfigured, EmptyAudience, Finish, SetStatus
  <2> QED
    BY <1>a, <2>1, NextSendUnchecked
<1>4. CASE Resolve
  <2>1. /\ UNCHANGED <<status, since>> /\ task.pc = "resolve"
        /\ task' = [task EXCEPT !.pc = "loop", !.todo = Unfinished(recipient'[task.at])]
    BY <1>4 DEF Resolve
  <2> QED
    BY <1>a, <2>1 DEF Task
<1>5. CASE StopCancelled
  <2>1. /\ UNCHANGED since /\ NextSend /\ status[task.at] = "cancelled"
        /\ status' = [status EXCEPT ![task.at] = "cancelled"]
    BY <1>5 DEF StopCancelled, SetStatus, CancelSeen
  <2> QED
    BY <1>a, <2>1, NextSendUnchecked
<1>6. CASE SaveRecipient
  BY <1>a, <1>6 DEF SaveRecipient, Visited, Task
<1>7. ASSUME NEW g \in Guests, NextRecipient(g)
      PROVE  CheckInv'
  BY <1>a, <1>7 DEF NextRecipient, CancelSeen, Task
<1>8. ASSUME NEW leaves \in BOOLEAN, NEW outcome \in {"sent", "skipped", "failed"},
             Deliver(leaves, outcome)
      PROVE  CheckInv'
  <2>1. /\ UNCHANGED status /\ task.pc = "send"
        /\ task'.pc = "save" /\ task'.at = task.at /\ task'.processed = task.processed
    BY <1>a, <1>8 DEF Deliver, Task
  <2>2. \/ since' = [since EXCEPT ![task.at] = @ + 1]
        \/ since' = since
    BY <1>8 DEF Deliver
  <2>3. ASSUME status[task.at] = "cancelled"
        PROVE  since'[task.at] <= task.processed + 1
    <3>1. since[task.at] <= task.processed
      BY <2>1, <2>3
    <3> QED
      BY <1>a, <2>2, <3>1
  <2>4. ASSUME NEW s \in Sends, status[s] = "cancelled"
        PROVE  since'[s] <= CheckEvery
    <3>1. CASE s = task.at
      <4>1. since'[s] \in Nat
        BY DEF TypeOK
      <4> QED
        BY <1>a, <2>3, <2>4, <3>1, <4>1
    <3>2. CASE s # task.at
      BY <1>a, <2>2, <2>4, <3>2
    <3> QED
      BY <3>1, <3>2
  <2> QED
    BY <2>1, <2>3, <2>4
<1>9. CASE TimeLimit
  <2>1. /\ UNCHANGED <<status, since>>
        /\ task'.pc = "fetch" /\ task'.processed = 0
    BY <1>9 DEF TimeLimit, Begun
  <2> QED
    BY <2>1
<1>10. CASE RequeueLimit
  BY <1>a, <1>10 DEF RequeueLimit, SetStatus, Task
<1>11. CASE RunRaises
  BY <1>11, NextSendUnchecked DEF RunRaises
<1>12. CASE WorkerKilled
  BY <1>a, <1>12 DEF WorkerKilled, Task
<1>13. ASSUME NEW s \in Sends, CancelRead(s) PROVE CheckInv'
  BY <1>13 DEF CancelRead
<1>14. ASSUME NEW s \in Sends, CancelSave(s) PROVE CheckInv'
  BY <1>a, <1>14 DEF CancelSave, SetStatus
<1>15. ASSUME NEW s \in Sends, NEW deleted \in SUBSET Guests, NEW errors \in BOOLEAN,
              DeleteInVK(s, deleted, errors)
       PROVE  CheckInv'
  BY <1>a, <1>15 DEF DeleteInVK, SetStatus
<1>16. CASE UNCHANGED vars
  BY <1>16 DEF vars
<1> HIDE DEF CheckInv
<1> QED
  BY <1>1, <1>2, <1>3, <1>4, <1>5, <1>6, <1>7, <1>8, <1>9, <1>10, <1>11, <1>12, <1>13, <1>14,
     <1>15, <1>16 DEF Next, Send, Interruption, Administrator

(* While a send is marked cancelled, at most CheckEvery messages leave,    *)
(* wherever the cancel meets the loop and however often it is continued.   *)
THEOREM CancelledStops == Spec => []CancelledSendStops
<1>1. Init => CheckInv
  BY DEF Init, CheckInv
<1>2. TypeOK /\ CheckInv => CancelledSendStops
  BY DEF CheckInv, CancelledSendStops
<1>3. TypeOK /\ TypeOK' /\ CheckInv /\ [Next]_vars => CheckInv'
  BY CheckPreserved
<1> QED
  BY <1>1, <1>2, <1>3, TypeCorrect, PTL DEF Spec

----------------------------------------------------------------------------
\* What the task has in hand: every pending recipient is still to be visited,
\* and the guest whose outcome is about to be saved as sent got the message.
HandInv ==
  /\ task.pc \in {"send", "save"} => task.guest \in Guests
  /\ task.pc = "save" =>
       /\ task.outcome \in {"sent", "skipped", "failed"}
       /\ task.outcome = "sent" => delivered[task.at][task.guest] > 0
  /\ task.pc \in {"loop", "send", "save"} =>
       \A g \in Guests : recipient[task.at][g] = "pending" => g \in task.todo

\* Nothing the task has not passed is done.
AheadInv == task.pc # "over" => \A s \in Sends : s >= task.at => status[s] # "done"

SentInv == \A s \in Sends, g \in Guests : recipient[s][g] = "sent" => delivered[s][g] > 0

DoneInv == \A s \in Sends : status[s] = "done" =>
             \A g \in Guests : recipient[s][g] # "pending"

RowsInv == HandInv /\ AheadInv /\ SentInv /\ DoneInv

(* A send that the task leaves behind may be done; those ahead are not.    *)
LEMMA NextSendAhead ==
  ASSUME TypeOK, NextSend, AheadInv, task.pc # "over",
         \A s \in Sends : s # task.at => status'[s] = status[s]
  PROVE  /\ AheadInv'
         /\ task'.pc \in {"fetch", "over"}
<1>1. task.at \in Sends
  BY DEF TypeOK, Task
<1>2. CASE task.at < NumSends
  <2>1. task'.at = task.at + 1 /\ task'.pc = "fetch"
    BY <1>2 DEF NextSend, Begun
  <2> QED
    BY <1>1, <2>1 DEF AheadInv
<1>3. CASE ~(task.at < NumSends)
  <2>1. task'.pc = "over"
    BY <1>3 DEF NextSend, TypeOK, Task
  <2> QED
    BY <2>1 DEF AheadInv
<1> QED
  BY <1>2, <1>3

(* Cancelling the pending recipients makes nobody pending or sent.         *)
LEMMA CancelPendingRows ==
  ASSUME TypeOK, NEW s \in Sends, CancelPending(s)
  PROVE  \A t \in Sends, g \in Guests :
           /\ recipient'[t][g] = "pending" => recipient[t][g] = "pending"
           /\ recipient'[t][g] = "sent" => recipient[t][g] = "sent"
<1> DEFINE row == [g \in Guests |-> IF recipient[s][g] = "pending" THEN "skipped"
                                    ELSE recipient[s][g]]
<1>1. recipient' = [recipient EXCEPT ![s] = row]
  BY DEF CancelPending
<1>2. \A g \in Guests : row[g] = "pending" => recipient[s][g] = "pending"
  OBVIOUS
<1>3. \A g \in Guests : row[g] = "sent" => recipient[s][g] = "sent"
  OBVIOUS
<1> HIDE DEF row
<1> QED
  BY <1>1, <1>2, <1>3 DEF TypeOK

LEMMA RowsPreserved ==
  ASSUME TypeOK, TypeOK', RowsInv, [Next]_vars
  PROVE  RowsInv'
<1> USE DEF RowsInv
<1>a. /\ task.at \in Sends /\ task \in Task
      /\ status \in [Sends -> SendStatus]
      /\ recipient \in [Sends -> [Guests -> RecipientStatus]]
      /\ delivered \in [Sends -> [Guests -> Nat]]
  BY DEF TypeOK, Task
<1>1. CASE Refresh
  <2>1. UNCHANGED <<status, delivered>> /\ task.pc = "fetch"
    BY <1>1 DEF Refresh
  <2>2. CASE status[task.at] = "cancelled"
    <3>1. CancelPending(task.at) /\ NextSend
      BY <1>1, <2>2 DEF Refresh
    <3>2. AheadInv' /\ task'.pc \in {"fetch", "over"}
      BY <2>1, <3>1, NextSendAhead
    <3> QED
      BY <1>a, <2>1, <3>1, <3>2, CancelPendingRows DEF HandInv, SentInv, DoneInv
  <2>3. CASE status[task.at] # "cancelled"
    BY <1>a, <1>1, <2>1, <2>3 DEF Refresh, Task, HandInv, AheadInv, SentInv, DoneInv
  <2> QED
    BY <2>2, <2>3
<1>2. CASE Start
  BY <1>a, <1>2 DEF Start, SetStatus, Task, HandInv, AheadInv, SentInv, DoneInv
<1>3. CASE NotConfigured \/ EmptyAudience \/ Finish
  <2>1. /\ UNCHANGED <<recipient, delivered>> /\ NextSend /\ task.pc # "over"
        /\ \A s \in Sends : s # task.at => status'[s] = status[s]
    BY <1>a, <1>3 DEF NotConfigured, EmptyAudience, Finish, SetStatus
  <2>2. AheadInv' /\ task'.pc \in {"fetch", "over"}
    BY <2>1, NextSendAhead
  <2>3. HandInv' /\ SentInv'
    BY <2>1, <2>2 DEF HandInv, SentInv
  <2>4. status'[task.at] = "done" => \A g \in Guests : recipient[task.at][g] # "pending"
    <3>1. CASE NotConfigured
      BY <1>a, <3>1 DEF NotConfigured, SetStatus
    <3>2. CASE EmptyAudience
      BY <1>a, <3>2 DEF EmptyAudience, Known
    <3>3. CASE Finish
      BY <1>a, <3>3 DEF Finish, HandInv
    <3> QED
      BY <1>3, <3>1, <3>2, <3>3
  <2> QED
    BY <2>1, <2>2, <2>3, <2>4 DEF DoneInv
<1>4. CASE Resolve
  <2> PICK audience \in SUBSET Guests :
        /\ recipient' = [recipient EXCEPT ![task.at] =
             [g \in Guests |-> IF g \in audience THEN "pending" ELSE @[g]]]
        /\ task' = [task EXCEPT !.pc = "loop", !.todo = Unfinished(recipient'[task.at])]
    BY <1>4 DEF Resolve
  <2>1. UNCHANGED <<status, delivered>> /\ task.pc = "resolve"
    BY <1>4 DEF Resolve
  <2>2. task'.pc = "loop" /\ task'.at = task.at /\ task'.todo = Unfinished(recipient'[task.at])
    BY <1>a DEF Task
  <2>3. HandInv'
    BY <1>a, <2>2 DEF HandInv, Unfinished
  <2>4. AheadInv'
    BY <2>1, <2>2 DEF AheadInv
  <2>5. SentInv'
    BY <1>a, <2>1 DEF SentInv
  <2>6. DoneInv'
    BY <1>a, <2>1 DEF AheadInv, DoneInv
  <2> QED
    BY <2>3, <2>4, <2>5, <2>6
<1>5. CASE StopCancelled
  <2>1. /\ UNCHANGED delivered /\ NextSend /\ CancelPending(task.at) /\ task.pc = "loop"
        /\ status' = [status EXCEPT ![task.at] = "cancelled"]
    BY <1>5 DEF StopCancelled, SetStatus
  <2>2. AheadInv' /\ task'.pc \in {"fetch", "over"}
    BY <1>a, <2>1, NextSendAhead
  <2> QED
    BY <1>a, <2>1, <2>2, CancelPendingRows DEF HandInv, SentInv, DoneInv
<1>6. CASE SaveRecipient
  <2>1. /\ UNCHANGED <<status, delivered>> /\ task.pc = "save"
        /\ recipient' = [recipient EXCEPT ![task.at] = [@ EXCEPT ![task.guest] = task.outcome]]
        /\ task'.pc = "loop" /\ task'.at = task.at /\ task'.todo = task.todo \ {task.guest}
    BY <1>a, <1>6 DEF SaveRecipient, Visited, Task
  <2>2. task.guest \in Guests /\ task.outcome # "pending"
    BY <2>1 DEF HandInv
  <2>3. HandInv'
    BY <1>a, <2>1, <2>2 DEF HandInv
  <2>4. AheadInv'
    BY <2>1 DEF AheadInv
  <2>5. SentInv'
    BY <1>a, <2>1, <2>2 DEF HandInv, SentInv
  <2>6. DoneInv'
    BY <1>a, <2>1, <2>2 DEF DoneInv
  <2> QED
    BY <2>3, <2>4, <2>5, <2>6
<1>7. ASSUME NEW g \in Guests, NextRecipient(g)
      PROVE  RowsInv'
  BY <1>a, <1>7 DEF NextRecipient, Task, HandInv, AheadInv, SentInv, DoneInv
<1>8. ASSUME NEW leaves \in BOOLEAN, NEW outcome \in {"sent", "skipped", "failed"},
             Deliver(leaves, outcome)
      PROVE  RowsInv'
  <2>1. /\ UNCHANGED <<status, recipient>> /\ task.pc = "send"
        /\ task' = [task EXCEPT !.pc = "save", !.outcome = outcome]
        /\ outcome = "sent" => leaves
    BY <1>8 DEF Deliver
  <2>2. /\ task'.pc = "save" /\ task'.outcome = outcome /\ task'.at = task.at
        /\ task'.guest = task.guest /\ task'.todo = task.todo
    BY <1>a, <2>1 DEF Task
  <2>3. task.guest \in Guests
    BY <2>1 DEF HandInv
  <2>4. /\ leaves => delivered'[task.at][task.guest] > 0
        /\ \A s \in Sends, g \in Guests : delivered[s][g] > 0 => delivered'[s][g] > 0
    <3>1. CASE leaves
      <4> DEFINE n == delivered[task.at][task.guest] + 1
      <4>1. delivered' = [delivered EXCEPT ![task.at] = [@ EXCEPT ![task.guest] = n]]
        BY <1>8, <3>1 DEF Deliver
      <4>2. n > 0
        BY <1>a, <2>3
      <4> HIDE DEF n
      <4> QED
        BY <1>a, <2>3, <4>1, <4>2
    <3>2. CASE ~leaves
      BY <1>8, <3>2 DEF Deliver
    <3> QED
      BY <3>1, <3>2
  <2>5. HandInv'
    BY <2>1, <2>2, <2>3, <2>4 DEF HandInv
  <2> QED
    BY <2>1, <2>2, <2>4, <2>5 DEF AheadInv, SentInv, DoneInv
<1>9. CASE TimeLimit
  <2>1. /\ UNCHANGED <<status, recipient, delivered>> /\ task.pc # "over"
        /\ task'.pc = "fetch" /\ task'.at = task.at
    BY <1>9 DEF TimeLimit, Begun, Running
  <2> QED
    BY <2>1 DEF HandInv, AheadInv, SentInv, DoneInv
<1>10. CASE RequeueLimit
  BY <1>a, <1>10 DEF RequeueLimit, SetStatus, Task, HandInv, AheadInv, SentInv, DoneInv
<1>11. CASE RunRaises
  <2>1. UNCHANGED <<status, recipient, delivered>> /\ NextSend /\ task.pc # "over"
    BY <1>11 DEF RunRaises, Running
  <2>2. AheadInv' /\ task'.pc \in {"fetch", "over"}
    BY <2>1, NextSendAhead
  <2> QED
    BY <2>1, <2>2 DEF HandInv, SentInv, DoneInv
<1>12. CASE WorkerKilled
  BY <1>a, <1>12 DEF WorkerKilled, Task, HandInv, AheadInv, SentInv, DoneInv
<1>13. ASSUME NEW s \in Sends, CancelRead(s) PROVE RowsInv'
  BY <1>13 DEF CancelRead, HandInv, AheadInv, SentInv, DoneInv
<1>14. ASSUME NEW s \in Sends, CancelSave(s) PROVE RowsInv'
  BY <1>a, <1>14 DEF CancelSave, SetStatus, HandInv, AheadInv, SentInv, DoneInv
<1>15. ASSUME NEW s \in Sends, NEW deleted \in SUBSET Guests, NEW errors \in BOOLEAN,
              DeleteInVK(s, deleted, errors)
       PROVE  RowsInv'
  <2>1. /\ UNCHANGED <<task, delivered>>
        /\ recipient' = [recipient EXCEPT ![s] =
             [g \in Guests |-> IF g \in deleted THEN "skipped" ELSE @[g]]]
        /\ status' = status \/ status' = [status EXCEPT ![s] = "cancelled"]
    BY <1>15 DEF DeleteInVK, SetStatus
  <2>2. \A t \in Sends, g \in Guests :
           /\ recipient'[t][g] = "pending" => recipient[t][g] = "pending"
           /\ recipient'[t][g] = "sent" => recipient[t][g] = "sent"
    BY <1>a, <2>1
  <2>3. \A t \in Sends : status'[t] = "done" => status[t] = "done"
    BY <1>a, <2>1
  <2> QED
    BY <1>a, <2>1, <2>2, <2>3 DEF HandInv, AheadInv, SentInv, DoneInv
<1>16. CASE UNCHANGED vars
  BY <1>16 DEF vars, HandInv, AheadInv, SentInv, DoneInv
<1> HIDE DEF RowsInv
<1> QED
  BY <1>1, <1>2, <1>3, <1>4, <1>5, <1>6, <1>7, <1>8, <1>9, <1>10, <1>11, <1>12, <1>13, <1>14,
     <1>15, <1>16 DEF Next, Send, Interruption, Administrator

(* A send that is done has decided on every recipient, and whoever it      *)
(* calls sent got the message, however often the task was continued.       *)
THEOREM DoneComplete == Spec => []DoneIsComplete
<1>1. Init => RowsInv
  BY DEF Init, RowsInv, HandInv, AheadInv, SentInv, DoneInv
<1>2. RowsInv => DoneIsComplete
  BY DEF RowsInv, SentInv, DoneInv, DoneIsComplete
<1>3. TypeOK /\ TypeOK' /\ RowsInv /\ [Next]_vars => RowsInv'
  BY RowsPreserved
<1> QED
  BY <1>1, <1>2, <1>3, TypeCorrect, PTL DEF Spec

----------------------------------------------------------------------------
\* Guests a further run would write to again: their message went out, their row
\* is still pending, and their outcome is not just about to be saved.
AtRisk == {g \in Guests : /\ task.pc # "over" /\ recipient[task.at][g] = "pending"
                          /\ delivered[task.at][g] > 0
                          /\ ~(task.pc = "save" /\ g = task.guest)}

TodoInv ==
  /\ task.pc \in {"loop", "send", "save"} =>
       \A g \in task.todo : recipient[task.at][g] = "pending"
  /\ task.pc \in {"send", "save"} => task.guest \in task.todo

\* Sends ahead have no recipients yet, and nobody gets a message before a row.
FreshInv ==
  /\ \A s \in Sends, g \in Guests : recipient[s][g] = "none" => delivered[s][g] = 0
  /\ task.pc # "over" => \A s \in Sends, g \in Guests : s > task.at => recipient[s][g] = "none"

\* Both sets are finite, whatever Guests is: each step adds one element at most.
CountInv == /\ IsFiniteSet(Repeats) /\ IsFiniteSet(AtRisk)
            /\ Cardinality(Repeats) + Cardinality(AtRisk) <= task.depth

RepeatInv == TodoInv /\ FreshInv /\ CountInv

LEMMA OneMore ==
  ASSUME NEW S, IsFiniteSet(S), NEW x, NEW T, T \subseteq S \cup {x}
  PROVE  /\ IsFiniteSet(T) /\ Cardinality(T) <= Cardinality(S) + 1
         /\ Cardinality(T) \in Nat /\ Cardinality(S) \in Nat
<1>1. IsFiniteSet(S \cup {x}) /\ Cardinality(S \cup {x}) <= Cardinality(S) + 1
  <2>1. Cardinality(S) \in Nat
    BY FS_CardinalityType
  <2>2. CASE x \in S
    <3>1. S \cup {x} = S
      BY <2>2
    <3> QED
      BY <2>1, <3>1
  <2>3. CASE x \notin S
    <3>1. IsFiniteSet(S \cup {x}) /\ Cardinality(S \cup {x}) = Cardinality(S) + 1
      BY <2>3, FS_AddElement
    <3> QED
      BY <2>1, <3>1
  <2> QED
    BY <2>2, <2>3
<1>2. IsFiniteSet(T) /\ Cardinality(T) <= Cardinality(S \cup {x})
  BY <1>1, FS_Subset
<1> QED
  BY <1>1, <1>2, FS_CardinalityType

LEMMA NoneMore ==
  ASSUME NEW S, IsFiniteSet(S), NEW T, T \subseteq S
  PROVE  /\ IsFiniteSet(T) /\ Cardinality(T) <= Cardinality(S)
         /\ Cardinality(T) \in Nat /\ Cardinality(S) \in Nat
  BY FS_Subset, FS_CardinalityType

\* A step that delivers nothing and puts nobody at risk.
LEMMA CountKept ==
  ASSUME TypeOK, CountInv, UNCHANGED delivered, task'.depth = task.depth, AtRisk' \subseteq AtRisk
  PROVE  CountInv'
<1>1. Repeats' = Repeats
  BY DEF Repeats
<1>2. task.depth \in Nat
  BY DEF TypeOK, Task
<1>3. /\ IsFiniteSet(AtRisk') /\ Cardinality(AtRisk') <= Cardinality(AtRisk)
      /\ Cardinality(AtRisk') \in Nat /\ Cardinality(AtRisk) \in Nat
  BY NoneMore DEF CountInv
<1>4. Cardinality(Repeats) \in Nat
  BY FS_CardinalityType DEF CountInv
<1> QED
  BY <1>1, <1>2, <1>3, <1>4 DEF CountInv

\* The next send of the request has nobody at risk.
LEMMA NextSendFresh ==
  ASSUME TypeOK, FreshInv, NextSend, task.pc # "over", UNCHANGED delivered,
         \A s \in Sends, g \in Guests : s # task.at => recipient'[s][g] = recipient[s][g],
         \A g \in Guests : recipient'[task.at][g] = "none" => recipient[task.at][g] = "none"
  PROVE  /\ TodoInv' /\ FreshInv' /\ AtRisk' = {} /\ task'.depth = task.depth
<1>1. task.at \in Sends /\ task \in Task
  BY DEF TypeOK, Task
<1>2. CASE task.at < NumSends
  <2>1. /\ task'.at = task.at + 1 /\ task'.pc = "fetch" /\ task'.depth = task.depth
        /\ task.at + 1 \in Sends
    BY <1>1, <1>2 DEF NextSend, Begun
  <2>2. \A s \in Sends, g \in Guests : recipient'[s][g] = "none" => recipient[s][g] = "none"
    OBVIOUS
  <2>3. FreshInv'
    BY <1>1, <2>1, <2>2 DEF FreshInv
  <2>4. \A g \in Guests : delivered[task.at + 1][g] = 0
    BY <1>1, <2>1 DEF FreshInv
  <2> QED
    BY <2>1, <2>3, <2>4 DEF TodoInv, AtRisk
<1>3. CASE ~(task.at < NumSends)
  <2>1. task'.pc = "over" /\ task'.depth = task.depth
    BY <1>1, <1>3 DEF NextSend, Task
  <2> QED
    BY <2>1 DEF TodoInv, AtRisk, FreshInv
<1> QED
  BY <1>2, <1>3

\* What CancelPending leaves of a row.
LEMMA CancelledRows ==
  ASSUME TypeOK, NEW s \in Sends, CancelPending(s)
  PROVE  /\ \A r \in Sends, g \in Guests : r # s => recipient'[r][g] = recipient[r][g]
         /\ \A g \in Guests : recipient'[s][g] = "none" => recipient[s][g] = "none"
<1> DEFINE row == [g \in Guests |-> IF recipient[s][g] = "pending" THEN "skipped"
                                    ELSE recipient[s][g]]
<1>1. recipient' = [recipient EXCEPT ![s] = row]
  BY DEF CancelPending
<1>2. \A g \in Guests : row[g] = "none" => recipient[s][g] = "none"
  OBVIOUS
<1> HIDE DEF row
<1> QED
  BY <1>1, <1>2 DEF TypeOK

LEMMA RepeatPreserved ==
  ASSUME TypeOK, TypeOK', RowsInv, RepeatInv, [Next]_vars
  PROVE  RepeatInv'
<1>a. /\ task.at \in Sends /\ task \in Task
      /\ recipient \in [Sends -> [Guests -> RecipientStatus]]
      /\ delivered \in [Sends -> [Guests -> Nat]]
      /\ TodoInv /\ FreshInv /\ CountInv
  BY DEF TypeOK, Task, RepeatInv
\* The task leaves its send.
<1>n. ASSUME NextSend, task.pc # "over", UNCHANGED delivered,
             UNCHANGED recipient \/ CancelPending(task.at)
      PROVE  RepeatInv'
  <2>1. /\ \A s \in Sends, g \in Guests : s # task.at => recipient'[s][g] = recipient[s][g]
        /\ \A g \in Guests : recipient'[task.at][g] = "none" => recipient[task.at][g] = "none"
    BY <1>a, <1>n, CancelledRows
  <2> QED
    BY <1>a, <1>n, <2>1, NextSendFresh, CountKept DEF RepeatInv
\* The task stays at its send, without a row or a message.
<1>k. ASSUME UNCHANGED <<recipient, delivered>>, task'.depth = task.depth, task'.at = task.at,
             task.pc # "over", task'.pc \in {"over", "start", "resolve"}, task.pc # "save" \/ task'.pc = "over"
      PROVE  RepeatInv'
  <2>1. AtRisk' \subseteq AtRisk
    BY <1>k DEF AtRisk
  <2> QED
    BY <1>a, <1>k, <2>1, CountKept DEF RepeatInv, TodoInv, FreshInv
<1>1. CASE Refresh
  <2>1. CASE status[task.at] = "cancelled"
    BY <1>1, <1>n, <2>1 DEF Refresh, history
  <2>2. CASE status[task.at] # "cancelled"
    <3>1. task.pc = "fetch" /\ task' = [task EXCEPT !.pc = "start"] /\ UNCHANGED <<recipient, delivered>>
      BY <1>1, <2>2 DEF Refresh
    <3> QED
      BY <1>a, <1>k, <3>1 DEF Task
  <2> QED
    BY <2>1, <2>2
<1>2. CASE Start
  <2>1. task.pc = "start" /\ task' = [task EXCEPT !.pc = "resolve"] /\ UNCHANGED <<recipient, delivered>>
    BY <1>2 DEF Start
  <2> QED
    BY <1>a, <1>k, <2>1 DEF Task
<1>3. CASE NotConfigured \/ EmptyAudience \/ Finish \/ RunRaises
  BY <1>3, <1>n DEF NotConfigured, EmptyAudience, Finish, RunRaises, Running
<1>4. CASE Resolve
  <2>1. PICK audience \in SUBSET Guests :
          /\ Known(task.at) => audience = {}
          /\ recipient' = [recipient EXCEPT ![task.at] =
               [g \in Guests |-> IF g \in audience THEN "pending" ELSE @[g]]]
          /\ task' = [task EXCEPT !.pc = "loop", !.todo = Unfinished(recipient'[task.at])]
    BY <1>4 DEF Resolve
  <2>2. UNCHANGED delivered /\ task.pc = "resolve"
    BY <1>4 DEF Resolve
  <2>3. /\ task'.pc = "loop" /\ task'.at = task.at /\ task'.todo = Unfinished(recipient'[task.at])
        /\ task'.depth = task.depth
    BY <1>a, <2>1 DEF Task
  <2>4. /\ \A s \in Sends, g \in Guests : s # task.at => recipient'[s][g] = recipient[s][g]
        /\ \A g \in Guests : recipient'[task.at][g] =
             IF g \in audience THEN "pending" ELSE recipient[task.at][g]
    BY <1>a, <2>1
  <2>5. TodoInv'
    BY <2>3 DEF TodoInv, Unfinished
  <2>6. FreshInv'
    <3>1. \A s \in Sends, g \in Guests : recipient'[s][g] = "none" => recipient[s][g] = "none"
      BY <2>4
    <3>2. \A s \in Sends, g \in Guests : s > task.at => recipient'[s][g] = recipient[s][g]
      <4>1. task.at \in Nat /\ \A s \in Sends : s \in Nat /\ (s > task.at => s # task.at)
        BY <1>a
      <4> QED
        BY <2>4, <4>1
    <3> QED
      BY <1>a, <2>2, <2>3, <3>1, <3>2 DEF FreshInv
  <2>7. \A g \in audience : delivered[task.at][g] = 0
    BY <1>a, <2>1 DEF Known, FreshInv
  <2>8. AtRisk' \subseteq AtRisk
    <3> SUFFICES ASSUME NEW g \in AtRisk'
                 PROVE  g \in AtRisk
      OBVIOUS
    <3>1. g \in Guests /\ recipient'[task.at][g] = "pending" /\ delivered[task.at][g] > 0
      BY <2>2, <2>3 DEF AtRisk
    <3>2. g \notin audience
      BY <2>7, <3>1
    <3>3. recipient[task.at][g] = "pending"
      BY <1>a, <2>4, <3>1, <3>2
    <3> QED
      BY <2>2, <3>1, <3>3 DEF AtRisk
  <2> QED
    BY <1>a, <2>2, <2>3, <2>5, <2>6, <2>8, CountKept DEF RepeatInv
<1>5. CASE StopCancelled
  BY <1>5, <1>n DEF StopCancelled
<1>6. CASE SaveRecipient
  <2>1. /\ UNCHANGED delivered /\ task.pc = "save"
        /\ recipient' = [recipient EXCEPT ![task.at] = [@ EXCEPT ![task.guest] = task.outcome]]
        /\ task'.pc = "loop" /\ task'.at = task.at /\ task'.todo = task.todo \ {task.guest}
        /\ task'.depth = task.depth
    BY <1>a, <1>6 DEF SaveRecipient, Visited, Task
  <2>2. task.guest \in Guests /\ task.outcome \in {"sent", "skipped", "failed"}
    BY <2>1 DEF RowsInv, HandInv
  <2>3. \A s \in Sends, g \in Guests :
          recipient'[s][g] = IF s = task.at /\ g = task.guest THEN task.outcome ELSE recipient[s][g]
    BY <1>a, <2>1, <2>2
  <2>4. TodoInv'
    <3>1. task.todo \subseteq Guests
      BY <1>a DEF Task
    <3> QED
      BY <1>a, <2>1, <2>3, <3>1 DEF TodoInv
  <2>5. FreshInv'
    BY <1>a, <2>1, <2>2, <2>3 DEF FreshInv
  <2>6. AtRisk' \subseteq AtRisk
    BY <1>a, <2>1, <2>2, <2>3 DEF AtRisk
  <2> QED
    BY <1>a, <2>1, <2>4, <2>5, <2>6, CountKept DEF RepeatInv
<1>7. ASSUME NEW g \in Guests, NextRecipient(g)
      PROVE  RepeatInv'
  <2>1. /\ UNCHANGED <<recipient, delivered>> /\ task.pc = "loop" /\ g \in task.todo
        /\ task'.pc = "send" /\ task'.at = task.at /\ task'.todo = task.todo
        /\ task'.depth = task.depth /\ task'.guest = g
    BY <1>a, <1>7 DEF NextRecipient, Task
  <2>2. AtRisk' \subseteq AtRisk
    BY <2>1 DEF AtRisk
  <2> QED
    BY <1>a, <2>1, <2>2, CountKept DEF RepeatInv, TodoInv, FreshInv
<1>8. ASSUME NEW leaves \in BOOLEAN, NEW outcome \in {"sent", "skipped", "failed"},
             Deliver(leaves, outcome)
      PROVE  RepeatInv'
  <2> DEFINE n == delivered[task.at][task.guest] + 1
  <2>1. /\ UNCHANGED recipient /\ task.pc = "send"
        /\ task'.pc = "save" /\ task'.at = task.at /\ task'.todo = task.todo
        /\ task'.depth = task.depth /\ task'.guest = task.guest
    BY <1>a, <1>8 DEF Deliver, Task
  <2>2. /\ task.guest \in Guests /\ recipient[task.at][task.guest] = "pending"
        /\ task.guest \in task.todo /\ n \in Nat
    BY <1>a, <2>1 DEF RowsInv, HandInv, TodoInv
  <2>3. \/ UNCHANGED delivered
        \/ \A s \in Sends, g \in Guests :
             delivered'[s][g] = IF s = task.at /\ g = task.guest THEN n ELSE delivered[s][g]
    <3>1. CASE leaves
      <4>1. delivered' = [delivered EXCEPT ![task.at] = [@ EXCEPT ![task.guest] = n]]
        BY <1>8, <3>1 DEF Deliver
      <4> HIDE DEF n
      <4> QED
        BY <1>a, <2>2, <4>1
    <3>2. CASE ~leaves
      BY <1>8, <3>2 DEF Deliver
    <3> QED
      BY <3>1, <3>2
  <2>4. TodoInv'
    BY <1>a, <2>1, <2>2 DEF TodoInv
  <2>5. FreshInv'
    <3>1. \A s \in Sends, g \in Guests : recipient[s][g] = "none" => delivered'[s][g] = 0
      <4> SUFFICES ASSUME NEW s \in Sends, NEW g \in Guests, recipient[s][g] = "none"
                   PROVE  delivered'[s][g] = 0
        OBVIOUS
      <4>1. delivered[s][g] = 0
        BY <1>a DEF FreshInv
      <4>2. ~(s = task.at /\ g = task.guest)
        BY <2>2
      <4> QED
        BY <2>3, <4>1, <4>2
    <3> QED
      BY <1>a, <2>1, <3>1 DEF FreshInv
  <2>6. AtRisk' = AtRisk \ {task.guest}
    BY <2>1, <2>3, <1>a DEF AtRisk
  <2>7. CASE task.guest \in AtRisk
    <3>1. Repeats' \subseteq Repeats \cup {<<task.at, task.guest, n>>}
      <4>1. CASE UNCHANGED delivered
        BY <4>1 DEF Repeats
      <4>2. CASE ~UNCHANGED delivered
        <5> SUFFICES ASSUME NEW r \in Repeats', r \notin Repeats
                     PROVE  r = <<task.at, task.guest, n>>
          OBVIOUS
        <5>1. r \in Sends \X Guests \X (2..(MaxRequeues + 2)) /\ delivered'[r[1]][r[2]] >= r[3]
              /\ ~(delivered[r[1]][r[2]] >= r[3])
          BY DEF Repeats
        <5>2. r = <<r[1], r[2], r[3]>> /\ r[1] \in Sends /\ r[2] \in Guests /\ r[3] \in Nat
          BY <5>1
        <5>3. r[1] = task.at /\ r[2] = task.guest
          BY <2>3, <4>2, <5>1, <5>2
        <5>4. r[3] = n
          BY <1>a, <2>2, <2>3, <4>2, <5>1, <5>2, <5>3
        <5> QED
          BY <5>2, <5>3, <5>4
      <4> QED
        BY <4>1, <4>2
    <3>2. /\ IsFiniteSet(Repeats') /\ Cardinality(Repeats') <= Cardinality(Repeats) + 1
          /\ Cardinality(Repeats') \in Nat /\ Cardinality(Repeats) \in Nat
      BY <1>a, <3>1, OneMore DEF CountInv
    <3>3. /\ IsFiniteSet(AtRisk') /\ Cardinality(AtRisk') = Cardinality(AtRisk) - 1
          /\ Cardinality(AtRisk) \in Nat
      BY <1>a, <2>6, <2>7, FS_RemoveElement, FS_CardinalityType DEF CountInv
    <3>4. task.depth \in Nat
      BY <1>a DEF Task
    <3> QED
      BY <1>a, <2>1, <2>4, <2>5, <3>2, <3>3, <3>4 DEF RepeatInv, CountInv
  <2>8. CASE task.guest \notin AtRisk
    <3>1. delivered[task.at][task.guest] = 0
      BY <1>a, <2>1, <2>2, <2>8 DEF AtRisk
    <3>2. Repeats' = Repeats
      <4>1. CASE UNCHANGED delivered
        BY <4>1 DEF Repeats
      <4>2. CASE ~UNCHANGED delivered
        <5>1. \A s \in Sends, g \in Guests, m \in 2..(MaxRequeues + 2) :
                delivered'[s][g] >= m <=> delivered[s][g] >= m
          <6> SUFFICES ASSUME NEW s \in Sends, NEW g \in Guests, NEW m \in 2..(MaxRequeues + 2)
                       PROVE  delivered'[s][g] >= m <=> delivered[s][g] >= m
            OBVIOUS
          <6>1. CASE s = task.at /\ g = task.guest
            <7>1. delivered[s][g] = 0 /\ delivered'[s][g] = 1
              BY <2>3, <3>1, <4>2, <6>1
            <7> QED
              BY <7>1
          <6>2. CASE ~(s = task.at /\ g = task.guest)
            <7>1. delivered'[s][g] = delivered[s][g]
              BY <2>3, <4>2, <6>2
            <7> QED
              BY <7>1
          <6> QED
            BY <6>1, <6>2
        <5> QED
          BY <5>1 DEF Repeats
      <4> QED
        BY <4>1, <4>2
    <3>3. AtRisk' = AtRisk
      BY <2>6, <2>8
    <3> QED
      BY <1>a, <2>1, <2>4, <2>5, <3>2, <3>3 DEF RepeatInv, CountInv
  <2> QED
    BY <2>7, <2>8
<1>9. CASE TimeLimit
  <2>1. /\ UNCHANGED <<recipient, delivered>> /\ task.pc # "over"
        /\ task'.pc = "fetch" /\ task'.at = task.at /\ task'.depth = task.depth + 1
    BY <1>9 DEF TimeLimit, Begun, Running
  <2>2. AtRisk' \subseteq AtRisk \cup {task.guest}
    BY <2>1 DEF AtRisk
  <2>3. /\ IsFiniteSet(AtRisk') /\ Cardinality(AtRisk') <= Cardinality(AtRisk) + 1
        /\ Cardinality(AtRisk') \in Nat /\ Cardinality(AtRisk) \in Nat
    BY <1>a, <2>2, OneMore DEF CountInv
  <2>4. Repeats' = Repeats
    BY <2>1 DEF Repeats
  <2>5. Cardinality(Repeats) \in Nat /\ task.depth \in Nat
    BY <1>a, FS_CardinalityType DEF CountInv, Task
  <2> QED
    BY <1>a, <2>1, <2>3, <2>4, <2>5 DEF RepeatInv, TodoInv, FreshInv, CountInv
<1>10. CASE RequeueLimit \/ WorkerKilled
  <2>1. /\ UNCHANGED <<recipient, delivered>> /\ task.pc # "over"
        /\ task' = [task EXCEPT !.pc = "over"]
    BY <1>10 DEF RequeueLimit, WorkerKilled, Running
  <2> QED
    BY <1>a, <1>k, <2>1 DEF Task
<1>11. ASSUME UNCHANGED <<recipient, task, delivered>>
       PROVE  RepeatInv'
  BY <1>11 DEF RepeatInv, TodoInv, FreshInv, CountInv, AtRisk, Repeats
<1>12. ASSUME NEW s \in Sends, NEW deleted \in SUBSET Guests, NEW errors \in BOOLEAN,
              DeleteInVK(s, deleted, errors)
       PROVE  RepeatInv'
  <2>1. /\ UNCHANGED <<task, delivered>>
        /\ deleted \subseteq InState(s, "sent")
        /\ recipient' = [recipient EXCEPT ![s] =
             [g \in Guests |-> IF g \in deleted THEN "skipped" ELSE @[g]]]
    BY <1>12 DEF DeleteInVK
  <2>2. \A t \in Sends, g \in Guests :
           /\ recipient'[t][g] = "pending" <=> recipient[t][g] = "pending"
           /\ recipient'[t][g] = "none" <=> recipient[t][g] = "none"
    BY <1>a, <2>1 DEF InState
  <2>3. AtRisk' \subseteq AtRisk
    BY <1>a, <2>1, <2>2 DEF AtRisk
  <2>4. task.todo \subseteq Guests
    BY <1>a DEF Task
  <2> QED
    BY <1>a, <2>1, <2>2, <2>3, <2>4, CountKept DEF RepeatInv, TodoInv, FreshInv
<1>13. ASSUME NEW s \in Sends, CancelRead(s) \/ CancelSave(s)
       PROVE  RepeatInv'
  BY <1>11, <1>13 DEF CancelRead, CancelSave
<1>14. CASE UNCHANGED vars
  BY <1>11, <1>14 DEF vars
<1> QED
  BY <1>1, <1>2, <1>3, <1>4, <1>5, <1>6, <1>7, <1>8, <1>9, <1>10, <1>12, <1>13, <1>14
     DEF Next, Send, Interruption, Administrator

(* Nobody gets a message of a send twice, except for the one recipient who  *)
(* was in hand each time a time limit struck: the messages that came again  *)
(* are no more than the continuations of the task, for any number of sends, *)
(* guests and continuations, and whatever administrators cancel or delete.  *)
THEOREM RepeatsAreCounted == Spec => []RepeatsNeedTimeLimit
<1>1. Init => RepeatInv
  <2> SUFFICES ASSUME Init
               PROVE  RepeatInv
    OBVIOUS
  <2>1. Repeats = {} /\ AtRisk = {} /\ task.depth = 0
    BY DEF Init, Repeats, AtRisk
  <2> QED
    BY <2>1, FS_EmptySet DEF RepeatInv, TodoInv, FreshInv, CountInv, Init
<1>2. Init => RowsInv
  BY DEF Init, RowsInv, HandInv, AheadInv, SentInv, DoneInv
<1>3. TypeOK /\ TypeOK' /\ RowsInv /\ [Next]_vars => RowsInv'
  BY RowsPreserved
<1>4. TypeOK /\ TypeOK' /\ RowsInv /\ RepeatInv /\ [Next]_vars => RepeatInv'
  BY RepeatPreserved
<1>5. TypeOK /\ RepeatInv => RepeatsNeedTimeLimit
  <2> SUFFICES ASSUME TypeOK, RepeatInv
               PROVE  Cardinality(Repeats) <= task.depth
    BY DEF RepeatsNeedTimeLimit
  <2>1. Cardinality(Repeats) \in Nat /\ Cardinality(AtRisk) \in Nat /\ task.depth \in Nat
    BY FS_CardinalityType DEF RepeatInv, CountInv, TypeOK, Task
  <2> QED
    BY <2>1 DEF RepeatInv, CountInv
<1> QED
  BY <1>1, <1>2, <1>3, <1>4, <1>5, TypeCorrect, PTL DEF Spec
=============================================================================
