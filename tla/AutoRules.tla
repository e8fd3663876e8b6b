----------------------------- MODULE AutoRules -----------------------------
(***************************************************************************)
(* Automatic messages of one tenant within one deduplication period (a     *)
(* year, a day): the rule engine (run_auto_broadcast_rules_for_tenant_task *)
(* -> run_rule of senler/engine.py, guard_pilot of pilot_controls.py) and  *)
(* the older tasks of senler/tasks.py, which beat starts beside it.        *)
(*                                                                         *)
(* Both kinds read AutoBroadcastLog first, send one message after another  *)
(* and write the log after each; nothing holds the log meanwhile, except   *)
(* the advisory lock of a tenant that limits its daily contacts.           *)
(***************************************************************************)
EXTENDS Integers, Sequences, FiniteSets, FiniteSetsExt, Functions

CONSTANTS
  Guests,     \* VK users
  Cands,      \* candidates a resolver finds: profiles of guests, or their gifts
  GuestOf,    \* [Cands -> Guests]
  Events,     \* AutoBroadcastType: what a rule is about
  Birthday,   \* the events about a birthday, which have a circuit of their own
  Engines,    \* celery runs of the tenant's rules
  Legacy,     \* celery runs of the older task of the first event
  None,       \* no candidate in hand, no holder of the lock
  Scenarios   \* tenants to look at, one is chosen in Init

Tasks == Engines \cup Legacy

\* A row of the log and a message carry the key their event is deduplicated
\* by: the guest, or the gift.
Keys == Guests \cup Cands

Scenario == [dedup   : {"guest", "entity"},           \* EventSpec.dedup
             rules   : Seq(Events),                   \* active rules, in order
             legacy  : BOOLEAN,                       \* the older template is active
             tasks   : SUBSET Tasks,                  \* runs that take place
             faults  : Nat,                           \* bound: faults of any kind
             overlap : BOOLEAN,                       \* a tick may meet the last one
             limit   : Nat,                           \* rf_daily_contact_limit, 0: none
             cap     : Nat,                           \* auto_broadcast_weekly_cap, 0: none
             gift    : {"none", "skip", "fallback"},  \* gift_tier, gift_fallback_text
             balance : BOOLEAN,                       \* zero_balance_text is set
             steady  : SUBSET Cands,                  \* every tick finds them for the first rule
             mute    : SUBSET Cands]                  \* their branch has no VK config

ASSUME CandsAssumption == /\ GuestOf \in [Cands -> Guests]
                          /\ Guests \cap Cands = {} /\ None \notin Cands \cup Tasks
                          /\ IsFiniteSet(Keys) /\ IsFiniteSet(Events) /\ Birthday \subseteq Events
ASSUME TasksAssumption == Engines \cap Legacy = {} /\ IsFiniteSet(Tasks)

\* A daily limit concerns the rules of RF events (guard_pilot, _rf_events), and
\* these have no older task; the other rules of such a tenant, which take no lock
\* and are not counted, are left out.
ASSUME ScenariosAssumption ==
  \A s \in Scenarios :
    /\ s \in Scenario /\ s.rules # <<>>
    /\ s.limit > 0 => ~s.legacy /\ \A n \in DOMAIN s.rules : s.rules[n] \notin Birthday

VARIABLES
  scenario,    \* the tenant's settings
  log,         \* [Events -> [Keys -> Nat]]: AutoBroadcastLog rows of the period
  reminded,    \* gifts with reminder_sent_at
  gift,        \* [Guests -> Nat]: RF gifts on hand
  lock,        \* holder of the pilot's advisory lock
  run,         \* [Tasks -> Run]: what each task is doing
  sent,        \* history, [Events -> [Keys -> Nat]]: messages delivered
  promised,    \* history, [Guests -> Nat]: messages that announced a gift
  unrecorded,  \* history: delivered messages whose record is missing
  faults       \* history: faults so far

data == <<log, reminded, gift, sent, promised>>
vars == <<scenario, log, reminded, gift, lock, run, sent, promised, unrecorded, faults>>

----------------------------------------------------------------------------
\* rule: the rule in hand; todo: candidates of its batch still to serve;
\* at: the one in hand; fresh: a gift was issued for it; text: which text it
\* gets; ends: the task stops after what it is doing.
Run == [pc : {"idle", "rule", "next", "issue", "send", "log", "flag", "revoke"},
        rule : Nat, todo : SUBSET Cands, at : Cands \cup {None},
        fresh : BOOLEAN, text : {"main", "fallback"}, ends : BOOLEAN]

Resting == [pc |-> "idle", rule |-> 0, todo |-> {}, at |-> None,
            fresh |-> FALSE, text |-> "main", ends |-> FALSE]

IsEngine(t) == t \in Engines
EventOf(t)  == scenario.rules[run[t].rule]
Key(c)      == IF scenario.dedup = "guest" THEN GuestOf[c] ELSE c
Twins(c)    == {d \in Cands : Key(d) = Key(c)}
KeysOf(g)   == {k \in Keys : k = g \/ (k \in Cands /\ GuestOf[k] = g)}

\* Reminders of gifts from stories are what the older task and the engine share
\* with deduplication by gift: both also keep StoryGiftEntry.reminder_sent_at.
StoryGifts == scenario.dedup = "entity" /\ scenario.legacy

\* The weekly cap neither holds back a birthday message nor counts one.
Counted == Events \ Birthday

CountFor(f, g) == SumFunctionOnSet([e \in Counted |-> SumFunctionOnSet(f[e], KeysOf(g))], Counted)
CountAll(f)    == SumFunctionOnSet([g \in Guests |-> CountFor(f, g)], Guests)

\* One row of the log, one message.
Add(f, e, k) == [f EXCEPT ![e][k] = @ + 1]

----------------------------------------------------------------------------
(* Steps of a task.                                                        *)
Goto(t, pc)   == run' = [run EXCEPT ![t].pc = pc]
Over(t)       == run' = [run EXCEPT ![t] = Resting] /\ lock' = IF lock = t THEN None ELSE lock
TakeNext(t)   == run' = [run EXCEPT ![t] = [Resting EXCEPT !.pc = "next", !.rule = run[t].rule,
                                                           !.todo = run[t].todo]]
NextRule(t)   == /\ lock' = IF lock = t THEN None ELSE lock
                 /\ run' = [run EXCEPT ![t] =
                      IF IsEngine(t) /\ run[t].rule < Len(scenario.rules)
                      THEN [Resting EXCEPT !.pc = "rule", !.rule = run[t].rule + 1]
                      ELSE Resting]
Fault         == faults < scenario.faults /\ faults' = faults + 1

MayStart(t)   == /\ run[t].pc = "idle" /\ t \in scenario.tasks
                 /\ scenario.overlap \/ \A u \in Tasks : run[u].pc = "idle"

StartEngine(t) ==
  /\ IsEngine(t) /\ MayStart(t)
  /\ run' = [run EXCEPT ![t] = [Resting EXCEPT !.pc = "rule", !.rule = 1]]
  /\ UNCHANGED <<scenario, data, lock, unrecorded, faults>>

\* A resolver looks at a window: the day of a birthday or of an absence, a gift
\* until it is claimed, but twenty minutes some hours after a game. Whoever the
\* first rule does not find at every tick may be missed at any.
Found(n) == {F \in SUBSET Cands : n = 1 => scenario.steady \subseteq F}

\* The older task asks its own record: the log of the guest, or the flag of
\* the gift, once, before the first message.
LegacySent(c) == IF scenario.dedup = "guest" THEN log[scenario.rules[1]][Key(c)] > 0
                                             ELSE c \in reminded

StartLegacy(t) ==
  /\ t \in Legacy /\ scenario.legacy /\ MayStart(t)
  /\ \E F \in Found(1) :
       run' = [run EXCEPT ![t] = [Resting EXCEPT !.pc = "next", !.rule = 1,
                                    !.todo = {c \in F : ~LegacySent(c)}]]
  /\ UNCHANGED <<scenario, data, lock, unrecorded, faults>>

(* guard_pilot: with a daily limit, one run of the tenant's rules at a time. *)
LockNotNeeded(t) == TRUE
LockIsFree(t)    == scenario.limit = 0 \/ lock = None

SkipRule(t) ==
  /\ run[t].pc = "rule" /\ ~LockIsFree(t)
  /\ NextRule(t)
  /\ UNCHANGED <<scenario, data, unrecorded, faults>>

(* resolve_recipients: everything is read before the first message.        *)
LogOnly(e, c)     == log[e][Key(c)] > 0
AlreadySent(e, c) == log[e][Key(c)] > 0 \/ (StoryGifts /\ c \in reminded)
UnderCap(e, g)    == scenario.cap = 0 \/ e \in Birthday \/ CountFor(log, g) < scenario.cap
OnePerKey(B)      == \A c, d \in B : Key(c) = Key(d) => c = d
Slots(n)          == IF scenario.limit = 0 THEN n
                     ELSE Min({n, Max({scenario.limit - CountAll(log), 0})})

\* Resolvers do not order their rows: any profile of a guest may come first,
\* any guests may fill the slots that are left.
Batches(e, F) ==
  LET fresh == {c \in F : ~AlreadySent(e, c) /\ UnderCap(e, GuestOf[c])}
      kept  == {B \in SUBSET fresh : OnePerKey(B) /\ \A c \in fresh : Twins(c) \cap B # {}}
  IN  UNION {{A \in SUBSET B : Cardinality(A) = Slots(Cardinality(B))} : B \in kept}

Resolve(t) ==
  /\ run[t].pc = "rule" /\ LockIsFree(t)
  /\ lock' = IF scenario.limit = 0 THEN lock ELSE t
  /\ \E F \in Found(run[t].rule) : \E B \in Batches(EventOf(t), F) :
       run' = [run EXCEPT ![t].pc = "next", ![t].todo = B]
  /\ UNCHANGED <<scenario, data, unrecorded, faults>>

EndRule(t) ==
  /\ run[t].pc = "next" /\ run[t].todo = {}
  /\ NextRule(t)
  /\ UNCHANGED <<scenario, data, unrecorded, faults>>

Takes(t, c) == run[t].pc = "next" /\ c \in run[t].todo

InHand(t, c, pc, text) ==
  run' = [run EXCEPT ![t].pc = pc, ![t].at = c, ![t].todo = @ \ {c}, ![t].text = text]

PassOver(t, c) == run' = [run EXCEPT ![t].todo = @ \ {c}]

NoConfig(t, c) ==
  /\ Takes(t, c) /\ c \in scenario.mute
  /\ PassOver(t, c)
  /\ UNCHANGED <<scenario, data, lock, unrecorded, faults>>

HasGiftStep(t) == IsEngine(t) /\ scenario.gift # "none"

TakePlain(t, c) ==
  /\ Takes(t, c) /\ c \notin scenario.mute /\ ~HasGiftStep(t)
  /\ InHand(t, c, "send", "main")
  /\ UNCHANGED <<scenario, data, lock, unrecorded, faults>>

(* _prepare_rf_gift: a guest with an RF gift on hand gets no second one.   *)
NoGate(c)     == TRUE
GiftGate(c)   == gift[GuestOf[c]] = 0

TakeWithGift(t, c) ==
  /\ Takes(t, c) /\ c \notin scenario.mute /\ HasGiftStep(t) /\ GiftGate(c)
  /\ InHand(t, c, "issue", "main")
  /\ UNCHANGED <<scenario, data, lock, unrecorded, faults>>

\* The gate is closed, or another gate is (balance, 90-day block, birthday,
\* no position left): the fallback text, or nothing.
TakeWithoutGift(t, c) ==
  /\ Takes(t, c) /\ c \notin scenario.mute /\ HasGiftStep(t)
  /\ IF scenario.gift = "fallback" THEN InHand(t, c, "send", "fallback") ELSE PassOver(t, c)
  /\ UNCHANGED <<scenario, data, lock, unrecorded, faults>>

Issue(t) ==
  /\ run[t].pc = "issue"
  /\ gift' = [gift EXCEPT ![GuestOf[run[t].at]] = @ + 1]
  /\ run' = [run EXCEPT ![t].pc = "send", ![t].fresh = TRUE]
  /\ UNCHANGED <<scenario, log, reminded, lock, sent, promised, unrecorded, faults>>

\* The last place of the position went to somebody else meanwhile.
IssueFails(t) ==
  /\ run[t].pc = "issue"
  /\ IF scenario.gift = "fallback"
     THEN run' = [run EXCEPT ![t].pc = "send", ![t].text = "fallback"]
     ELSE TakeNext(t)
  /\ UNCHANGED <<scenario, data, lock, unrecorded, faults>>

\* The balance that chooses between the texts cannot be computed: the guest
\* waits for the next tick, a gift issued just before stays.
BalanceFails(t) ==
  /\ run[t].pc = "send" /\ IsEngine(t) /\ scenario.balance /\ run[t].text = "main"
  /\ Fault
  /\ TakeNext(t)
  /\ UNCHANGED <<scenario, data, lock, unrecorded>>

----------------------------------------------------------------------------
(* send_vk_message and what follows it.                                    *)
Delivered(t) ==
  /\ sent' = Add(sent, EventOf(t), Key(run[t].at))
  /\ promised' = [promised EXCEPT ![GuestOf[run[t].at]] = IF run[t].fresh THEN @ + 1 ELSE @]

\* What comes first on record: the older task flags the gift and then writes a
\* row that names the guest only, the engine writes its row and then the flag.
FirstRecord(t) == IF StoryGifts /\ ~IsEngine(t) THEN "flag" ELSE "log"

SendOk(t) ==
  /\ run[t].pc = "send"
  /\ Delivered(t)
  /\ Goto(t, FirstRecord(t))
  /\ UNCHANGED <<scenario, log, reminded, gift, lock, unrecorded, faults>>

KeepsGift(t)      == TakeNext(t)
RevokesAnyway(t)  == Goto(t, "revoke")
RecordsRefusal(t) == Goto(t, FirstRecord(t))
NotAnswered(t)    == IF run[t].fresh THEN Goto(t, "revoke") ELSE TakeNext(t)

SendRefused(t) ==
  /\ run[t].pc = "send"
  /\ NotAnswered(t)
  /\ UNCHANGED <<scenario, data, lock, unrecorded, faults>>

\* requests gave up on an answer that would have been "sent".
AnswerLost(t) ==
  /\ run[t].pc = "send" /\ Fault
  /\ Delivered(t) /\ unrecorded' = unrecorded + 1
  /\ NotAnswered(t)
  /\ UNCHANGED <<scenario, log, reminded, gift, lock>>

\* SoftTimeLimitExceeded inside the call, before or after VK has the message.
TimeLimit(t) ==
  /\ run[t].pc = "send" /\ Fault
  /\ \/ Delivered(t) /\ unrecorded' = unrecorded + 1
     \/ UNCHANGED <<sent, promised, unrecorded>>
  /\ IF run[t].fresh
     THEN run' = [run EXCEPT ![t].pc = "revoke", ![t].ends = TRUE] /\ UNCHANGED lock
     ELSE Over(t)
  /\ UNCHANGED <<scenario, log, reminded, gift>>

\* revoke_issued_item
Revoke(t) ==
  /\ run[t].pc = "revoke"
  /\ gift' = [gift EXCEPT ![GuestOf[run[t].at]] = @ - 1]
  /\ IF run[t].ends THEN Over(t) ELSE TakeNext(t) /\ UNCHANGED lock
  /\ UNCHANGED <<scenario, log, reminded, sent, promised, unrecorded, faults>>

\* The older task remembers whom it wrote to during this run as well.
Recorded(t) ==
  run' = [run EXCEPT ![t] = [Resting EXCEPT !.pc = "next", !.rule = run[t].rule,
            !.todo = IF IsEngine(t) THEN run[t].todo ELSE run[t].todo \ Twins(run[t].at)]]

RowKey(t) == IF IsEngine(t) THEN Key(run[t].at) ELSE GuestOf[run[t].at]

WriteLog(t) ==
  /\ run[t].pc = "log"
  /\ log' = Add(log, EventOf(t), RowKey(t))
  /\ IF StoryGifts /\ IsEngine(t) THEN Goto(t, "flag") ELSE Recorded(t)
  /\ UNCHANGED <<scenario, reminded, gift, lock, sent, promised, unrecorded, faults>>

WriteFlag(t) ==
  /\ run[t].pc = "flag"
  /\ reminded' = reminded \cup {run[t].at}
  /\ IF IsEngine(t) THEN Recorded(t) ELSE Goto(t, "log")
  /\ UNCHANGED <<scenario, log, gift, lock, sent, promised, unrecorded, faults>>

\* A soft or hard time limit, a crash, a query that raises: the task ends where
\* it is; the lock goes with its connection.
Interrupted(t) ==
  /\ run[t].pc # "idle" /\ Fault
  /\ unrecorded' = IF run[t].pc \in {"log", "flag"} THEN unrecorded + 1 ELSE unrecorded
  /\ Over(t)
  /\ UNCHANGED <<scenario, data>>

----------------------------------------------------------------------------
Init ==
  /\ scenario \in Scenarios
  /\ log = [e \in Events |-> [k \in Keys |-> 0]]
  /\ reminded = {}
  /\ gift = [g \in Guests |-> 0]
  /\ lock = None
  /\ run = [t \in Tasks |-> Resting]
  /\ sent = [e \in Events |-> [k \in Keys |-> 0]]
  /\ promised = [g \in Guests |-> 0]
  /\ unrecorded = 0 /\ faults = 0

Start(t) == StartEngine(t) \/ StartLegacy(t)

Serve(t) ==
  \/ SkipRule(t) \/ Resolve(t) \/ EndRule(t)
  \/ \E c \in Cands : NoConfig(t, c) \/ TakePlain(t, c) \/ TakeWithGift(t, c) \/ TakeWithoutGift(t, c)
  \/ Issue(t) \/ IssueFails(t) \/ SendOk(t) \/ SendRefused(t)
  \/ Revoke(t) \/ WriteLog(t) \/ WriteFlag(t)

Fails(t) == BalanceFails(t) \/ AnswerLost(t) \/ TimeLimit(t) \/ Interrupted(t)

Next == \E t \in Tasks : Start(t) \/ Serve(t) \/ Fails(t)

Spec == Init /\ [][Next]_vars

\* Beat starts the tasks again and again, and a task that runs goes on.
Fairness == \A t \in Tasks : WF_vars(Start(t)) /\ WF_vars(Serve(t))

FairSpec == Spec /\ Fairness

----------------------------------------------------------------------------
TypeOK ==
  /\ scenario \in Scenarios
  /\ log \in [Events -> [Keys -> Nat]] /\ sent \in [Events -> [Keys -> Nat]]
  /\ reminded \subseteq Cands
  /\ gift \in [Guests -> Nat] /\ promised \in [Guests -> Nat]
  /\ lock \in Engines \cup {None}
  /\ run \in [Tasks -> Run]
  /\ unrecorded \in Nat /\ faults \in 0 .. scenario.faults

\* Nothing of the tenant runs beside anything else.
Serial == ~scenario.overlap \/ scenario.limit > 0

(* AutoBroadcastLog: however many rules, profiles and tasks an event has,  *)
(* its key gets one message more than were left unrecorded as long as the  *)
(* tasks do not overlap, and at most one per task when they do: nobody     *)
(* sends twice from one reading of the log.                                *)
RepeatsNeedOverlap ==
  \A e \in Events, k \in Keys :
    sent[e][k] =< (IF Serial THEN 1 ELSE Cardinality(scenario.tasks)) + unrecorded

(* The daily contact limit holds across rules and overlapping tasks, for   *)
(* messages and not only for rows of the log: only a message without a row *)
(* exceeds it.                                                             *)
DailyLimitHolds == scenario.limit > 0 => CountAll(sent) =< scenario.limit + unrecorded

(* The weekly cap counts what the log had before the batch: rules that come *)
(* later see what the earlier ones wrote, and only a batch that holds       *)
(* several gifts of one guest goes beyond the cap. Birthday messages come   *)
(* on top. The older task never reads the cap and sends beyond it, so       *)
(* tenants that keep it are left out.                                       *)
WeeklyCapHolds ==
  scenario.cap > 0 /\ ~scenario.legacy /\ Serial =>
    \A g \in Guests :
      CountFor(sent, g) =< scenario.cap + unrecorded
        + (IF scenario.dedup = "guest" THEN 0 ELSE Cardinality({c \in Cands : GuestOf[c] = g}) - 1)

(* Guests are protected from too many messages by both (guard_pilot and    *)
(* resolve_recipients).                                                    *)
ContactLimitsHold == DailyLimitHolds /\ WeeklyCapHolds

Handles(t, g) == run[t].at # None /\ GuestOf[run[t].at] = g

(* run_rule, 15.6: gifts and the messages that announce them come together: *)
(* when no task has the guest in hand, every gift without a message and     *)
(* every message without a gift is owed to a fault of its own; a refused    *)
(* message is none.                                                         *)
GiftsAreAnnounced ==
  \A g \in Guests : (\A t \in Tasks : ~Handles(t, g)) =>
    gift[g] =< promised[g] + faults /\ promised[g] =< gift[g] + faults

(* _prepare_rf_gift: while tasks do not overlap, or the pilot lock keeps    *)
(* them apart, a guest has one RF gift at a time, whatever rules want.      *)
OneGiftAtATime == Serial => \A g \in Guests : gift[g] =< 1

\* Every profile the batch may keep for this key can be written to.
Writable(c) == Twins(c) \cap scenario.mute = {}

FirstEvent == scenario.rules[1]

\* Nothing but an open window, VK and the faults decides about c: no limit, and a
\* text for those who get no gift.
Owed(c) == /\ c \in scenario.steady /\ Writable(c)
           /\ scenario.limit = 0 /\ scenario.cap = 0 /\ scenario.gift # "skip"
           /\ sent[FirstEvent][Key(c)] = 0

(* A guest whom the first rule finds at every tick is written to in the end *)
(* although runs are cut short and a message is refused now and then: only  *)
(* if VK refuses the guest again and again does nothing arrive.             *)
EverybodyIsWritten ==
  \A c \in Cands : \/ []<>~Owed(c)
                    \/ []<><<\E t \in Tasks : SendRefused(t) /\ Key(run[t].at) = Key(c)>>_vars
=============================================================================
