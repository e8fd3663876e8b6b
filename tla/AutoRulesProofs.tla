-------------------------- MODULE AutoRulesProofs --------------------------
(***************************************************************************)
(* Proofs about AutoRules, for every set of guests, candidates, events,    *)
(* tasks and scenarios.                                                    *)
(***************************************************************************)
EXTENDS AutoRules, Sums, TLAPS, FiniteSetTheorems

Active(t) == run[t].pc \notin {"idle", "rule"}
Holds(t)  == run[t].pc \in {"issue", "send", "log", "flag", "revoke"}

\* What a task of each pc knows.
RowInv(t) ==
  /\ run[t].pc # "idle" => run[t].rule \in DOMAIN scenario.rules /\ t \in scenario.tasks
  /\ t \in Legacy => /\ run[t].pc \notin {"rule", "issue", "revoke"} /\ ~run[t].fresh
                     /\ run[t].pc # "idle" => run[t].rule = 1 /\ scenario.legacy
  /\ run[t].at # None <=> Holds(t)
  /\ run[t].at \notin run[t].todo
  /\ run[t].fresh => run[t].pc \in {"send", "log", "flag", "revoke"}
  /\ run[t].pc = "revoke" => run[t].fresh
  /\ run[t].pc = "flag" => StoryGifts
  /\ StoryGifts /\ t \in Legacy /\ run[t].pc = "log" => run[t].at \in reminded

RunInv == \A t \in Tasks : RowInv(t)

\* Ticks that do not overlap leave one task to run, a daily limit one engine
\* with the lock.
TurnsInv ==
  /\ ~scenario.overlap => \A t, u \in Tasks : run[t].pc # "idle" /\ run[u].pc # "idle" => t = u
  /\ scenario.limit > 0 => \A t \in Engines : Active(t) => lock = t

\* Gifts that were issued and are not announced yet, or are being taken back.
Owing(g) == {t \in Tasks : run[t].fresh /\ run[t].pc \in {"send", "revoke"} /\ GuestOf[run[t].at] = g}

GiftInv ==
  \A g \in Guests :
    /\ Cardinality(Owing(g)) =< gift[g]
    /\ gift[g] =< promised[g] + Cardinality(Owing(g)) + faults
    /\ promised[g] + Cardinality(Owing(g)) =< gift[g] + faults

OneGiftInv ==
  Serial =>
    /\ \A g \in Guests : gift[g] =< 1
    /\ \A t \in Tasks : run[t].pc = "issue" => gift[GuestOf[run[t].at]] = 0

\* The event's key k is on record where every task looks.
Known(e, k) == IF StoryGifts THEN k \in reminded ELSE log[e][k] > 0

\* Tasks that wrote to k and are about to record it; tasks that may still write to k.
On(t, e)          == Active(t) /\ EventOf(t) = e
Records(t, e, k)  == On(t, e) /\ run[t].pc \in {"log", "flag"} /\ Key(run[t].at) = k
MayWrite(t, k)    == \/ \E c \in run[t].todo : Key(c) = k
                     \/ run[t].pc \in {"issue", "send"} /\ Key(run[t].at) = k
Intends(t, e, k)  == On(t, e) /\ MayWrite(t, k) /\ ~Records(t, e, k)
Recording(e, k)   == {t \in Tasks : Records(t, e, k)}
Intending(e, k)   == {t \in Tasks : Intends(t, e, k)}

\* An engine has a key once in its batch.
BatchInv ==
  \A t \in Engines : Active(t) =>
    /\ OnePerKey(run[t].todo)
    /\ Holds(t) => \A c \in run[t].todo : Key(c) # Key(run[t].at)

Bound == IF Serial THEN 1 ELSE Cardinality(scenario.tasks)

RepeatInv ==
  \A e \in Events, k \in Keys :
    /\ ~Known(e, k) => sent[e][k] =< Cardinality(Recording(e, k)) + unrecorded
    /\ sent[e][k] + Cardinality(Intending(e, k)) =< Bound + unrecorded

----------------------------------------------------------------------------
LEMMA ScenarioFacts ==
  ASSUME TypeOK
  PROVE  /\ scenario \in Scenario
         /\ Len(scenario.rules) \in Nat \ {0} /\ DOMAIN scenario.rules = 1 .. Len(scenario.rules)
         /\ \A n \in DOMAIN scenario.rules : scenario.rules[n] \in Events
         /\ scenario.limit > 0 => ~scenario.legacy
         /\ scenario.limit \in Nat /\ scenario.steady \in SUBSET Cands
         /\ \A c \in Cands : Key(c) \in Keys /\ GuestOf[c] \in Guests
<1>1. scenario \in Scenario /\ scenario.rules # <<>> /\ (scenario.limit > 0 => ~scenario.legacy)
  BY ScenariosAssumption DEF TypeOK
<1>2. scenario.rules \in Seq(Events) /\ scenario.limit \in Nat /\ scenario.steady \in SUBSET Cands
  BY <1>1 DEF Scenario
<1>3. \A c \in Cands : Key(c) \in Keys /\ GuestOf[c] \in Guests
  BY CandsAssumption DEF Key, Keys
<1> QED
  BY <1>1, <1>2, <1>3

\* The row of task t afterwards; the text and whether it ends are left open.
Shape(t, pc, rule, todo, at, fresh) ==
  /\ run' \in [Tasks -> Run]
  /\ \A u \in Tasks : u # t => run'[u] = run[u]
  /\ run'[t].pc = pc /\ run'[t].rule = rule /\ run'[t].todo = todo
  /\ run'[t].at = at /\ run'[t].fresh = fresh

LEMMA RowShape ==
  ASSUME TypeOK, NEW t \in Tasks, NEW r \in Run, run' = [run EXCEPT ![t] = r]
  PROVE  Shape(t, r.pc, r.rule, r.todo, r.at, r.fresh)
  BY DEF TypeOK, Shape

LEMMA RestingShape ==
  ASSUME TypeOK, NEW t \in Tasks, run' = [run EXCEPT ![t] = Resting]
  PROVE  Shape(t, "idle", 0, {}, None, FALSE)
<1>1. /\ Resting \in Run /\ Resting.pc = "idle" /\ Resting.rule = 0 /\ Resting.todo = {}
      /\ Resting.at = None /\ Resting.fresh = FALSE
  BY DEF Resting, Run
<1> QED
  BY <1>1, RowShape

LEMMA NextShape ==
  ASSUME TypeOK, NEW t \in Tasks, NEW n \in Nat, NEW todo \in SUBSET Cands,
         run' = [run EXCEPT ![t] = [Resting EXCEPT !.pc = "next", !.rule = n, !.todo = todo]]
  PROVE  Shape(t, "next", n, todo, None, FALSE)
<1> DEFINE r == [Resting EXCEPT !.pc = "next", !.rule = n, !.todo = todo]
<1>1. /\ r \in Run /\ r.pc = "next" /\ r.rule = n /\ r.todo = todo
      /\ r.at = None /\ r.fresh = FALSE
  BY DEF Resting, Run
<1>2. run' = [run EXCEPT ![t] = r]
  OBVIOUS
<1> HIDE DEF r
<1> QED
  BY <1>1, <1>2, RowShape

LEMMA RuleShape ==
  ASSUME TypeOK, NEW t \in Tasks, NEW n \in Nat,
         run' = [run EXCEPT ![t] = [Resting EXCEPT !.pc = "rule", !.rule = n]]
  PROVE  Shape(t, "rule", n, {}, None, FALSE)
<1> DEFINE r == [Resting EXCEPT !.pc = "rule", !.rule = n]
<1>1. /\ r \in Run /\ r.pc = "rule" /\ r.rule = n /\ r.todo = {}
      /\ r.at = None /\ r.fresh = FALSE
  BY DEF Resting, Run
<1>2. run' = [run EXCEPT ![t] = r]
  OBVIOUS
<1> HIDE DEF r
<1> QED
  BY <1>1, <1>2, RowShape

LEMMA Shapes ==
  ASSUME TypeOK, NEW t \in Tasks
  PROVE  /\ TakeNext(t) => Shape(t, "next", run[t].rule, run[t].todo, None, FALSE)
         /\ run' = [run EXCEPT ![t] = Resting] => Shape(t, "idle", 0, {}, None, FALSE)
         /\ \A pc \in {"log", "flag", "revoke"} :
              Goto(t, pc) => Shape(t, pc, run[t].rule, run[t].todo, run[t].at, run[t].fresh)
         /\ \A c \in Cands, pc \in {"issue", "send"}, x \in {"main", "fallback"} :
              InHand(t, c, pc, x) => Shape(t, pc, run[t].rule, run[t].todo \ {c}, c, run[t].fresh)
         /\ \A c \in Cands :
              PassOver(t, c) =>
                Shape(t, run[t].pc, run[t].rule, run[t].todo \ {c}, run[t].at, run[t].fresh)
         /\ Recorded(t) => \E todo \in SUBSET run[t].todo :
              /\ Shape(t, "next", run[t].rule, todo, None, FALSE)
              /\ t \notin Engines => todo = run[t].todo \ Twins(run[t].at)
<1> USE DEF TypeOK
<1>1. run[t] \in Run /\ run[t].rule \in Nat /\ run[t].todo \in SUBSET Cands
  BY DEF Run
<1>2. TakeNext(t) => Shape(t, "next", run[t].rule, run[t].todo, None, FALSE)
  BY <1>1, NextShape DEF TakeNext
<1>3. run' = [run EXCEPT ![t] = Resting] => Shape(t, "idle", 0, {}, None, FALSE)
  BY RestingShape
<1>4. ASSUME NEW pc \in {"log", "flag", "revoke"}, Goto(t, pc)
      PROVE  Shape(t, pc, run[t].rule, run[t].todo, run[t].at, run[t].fresh)
  BY <1>1, <1>4 DEF Goto, Shape, Run
<1>5. ASSUME NEW c \in Cands, NEW pc \in {"issue", "send"}, NEW x \in {"main", "fallback"},
             InHand(t, c, pc, x)
      PROVE  Shape(t, pc, run[t].rule, run[t].todo \ {c}, c, run[t].fresh)
  BY <1>1, <1>5 DEF InHand, Shape, Run
<1>6. ASSUME NEW c \in Cands, PassOver(t, c)
      PROVE  Shape(t, run[t].pc, run[t].rule, run[t].todo \ {c}, run[t].at, run[t].fresh)
  BY <1>1, <1>6 DEF PassOver, Shape, Run
<1>7. ASSUME Recorded(t)
      PROVE  \E todo \in SUBSET run[t].todo :
               /\ Shape(t, "next", run[t].rule, todo, None, FALSE)
               /\ t \notin Engines => todo = run[t].todo \ Twins(run[t].at)
  <2> DEFINE todo == IF IsEngine(t) THEN run[t].todo ELSE run[t].todo \ Twins(run[t].at)
  <2>1. todo \in SUBSET run[t].todo /\ todo \in SUBSET Cands
    BY <1>1
  <2>2. run' = [run EXCEPT ![t] = [Resting EXCEPT !.pc = "next", !.rule = run[t].rule, !.todo = todo]]
    BY <1>7 DEF Recorded
  <2>3. t \notin Engines => todo = run[t].todo \ Twins(run[t].at)
    BY DEF IsEngine
  <2> HIDE DEF todo
  <2>4. Shape(t, "next", run[t].rule, todo, None, FALSE)
    BY <1>1, <2>1, <2>2, NextShape
  <2> QED
    BY <2>1, <2>3, <2>4
<1> QED
  BY <1>2, <1>3, <1>4, <1>5, <1>6, <1>7

\* The next rule of an engine, or the end of the task; the lock is given back.
LEMMA NextRuleShape ==
  ASSUME TypeOK, NEW t \in Tasks, NextRule(t)
  PROVE  /\ \/ Shape(t, "idle", 0, {}, None, FALSE)
            \/ /\ t \in Engines /\ run[t].rule < Len(scenario.rules)
               /\ Shape(t, "rule", run[t].rule + 1, {}, None, FALSE)
         /\ lock' = IF lock = t THEN None ELSE lock
<1>1. run[t].rule \in Nat /\ run[t].rule + 1 \in Nat
  BY DEF TypeOK, Run
<1>2. CASE IsEngine(t) /\ run[t].rule < Len(scenario.rules)
  <2>1. run' = [run EXCEPT ![t] = [Resting EXCEPT !.pc = "rule", !.rule = run[t].rule + 1]]
    BY <1>2 DEF NextRule
  <2> QED
    BY <1>1, <1>2, <2>1, RuleShape DEF NextRule, IsEngine
<1>3. CASE ~(IsEngine(t) /\ run[t].rule < Len(scenario.rules))
  <2>1. run' = [run EXCEPT ![t] = Resting]
    BY <1>3 DEF NextRule
  <2> QED
    BY <2>1, Shapes DEF NextRule
<1> QED
  BY <1>2, <1>3

\* What Resolve puts into a batch: new keys, each once.
LEMMA BatchFacts ==
  ASSUME NEW e, NEW F \in SUBSET Cands, NEW A \in Batches(e, F)
  PROVE  A \subseteq Cands /\ OnePerKey(A) /\ \A c \in A : ~AlreadySent(e, c)
  BY DEF Batches, OnePerKey

\* The rows of the tasks keep what they know, given the row of the one that moves.
LEMMA RowsKept ==
  ASSUME RunInv, NEW t \in Tasks, \A u \in Tasks : u # t => run'[u] = run[u],
         UNCHANGED scenario, reminded \subseteq reminded', RowInv(t)'
  PROVE  RunInv'
  BY DEF RunInv, RowInv, Holds, StoryGifts

\* One more, or one less, of what is there.
LEMMA AddTypes ==
  ASSUME TypeOK, NEW e \in Events, NEW k \in Keys, NEW g \in Guests
  PROVE  /\ Add(log, e, k) \in [Events -> [Keys -> Nat]]
         /\ Add(sent, e, k) \in [Events -> [Keys -> Nat]]
         /\ [gift EXCEPT ![g] = @ + 1] \in [Guests -> Nat]
         /\ gift[g] > 0 => [gift EXCEPT ![g] = @ - 1] \in [Guests -> Nat]
  BY DEF TypeOK, Add

LEMMA DeliveredTypes ==
  ASSUME TypeOK, RunInv, NEW t \in Tasks, run[t].pc = "send"
  PROVE  /\ run[t].at \in Cands /\ EventOf(t) \in Events
         /\ Key(run[t].at) \in Keys /\ GuestOf[run[t].at] \in Guests
         /\ Delivered(t) => sent' \in [Events -> [Keys -> Nat]] /\ promised' \in [Guests -> Nat]
<1>1. run[t].at \in Cands /\ run[t].rule \in DOMAIN scenario.rules
  BY DEF RunInv, RowInv, Holds, TypeOK, Run
<1>2. EventOf(t) \in Events /\ Key(run[t].at) \in Keys /\ GuestOf[run[t].at] \in Guests
  BY <1>1, ScenarioFacts DEF EventOf
<1>3. ASSUME Delivered(t)
      PROVE  sent' \in [Events -> [Keys -> Nat]] /\ promised' \in [Guests -> Nat]
  BY <1>2, <1>3, AddTypes DEF Delivered, TypeOK
<1> QED
  BY <1>1, <1>2, <1>3

\* A task that does something is one of the tenant's, at one of its rules.
LEMMA BusyFacts ==
  ASSUME TypeOK, RunInv, NEW t \in Tasks, run[t].pc # "idle"
  PROVE  /\ run[t] \in Run /\ t \in scenario.tasks
         /\ run[t].rule \in 1 .. Len(scenario.rules) /\ EventOf(t) \in Events
         /\ t \in Legacy => run[t].rule = 1 /\ scenario.legacy
         /\ Holds(t) => run[t].at \in Cands /\ Key(run[t].at) \in Keys /\ GuestOf[run[t].at] \in Guests
<1>1. run[t] \in Run /\ t \in scenario.tasks /\ run[t].rule \in 1 .. Len(scenario.rules)
  BY ScenarioFacts DEF RunInv, RowInv, TypeOK
<1>2. EventOf(t) \in Events
  BY <1>1, ScenarioFacts DEF EventOf
<1>3. Holds(t) => run[t].at \in Cands
  BY <1>1 DEF RunInv, RowInv, Run
<1>4. t \in Legacy => run[t].rule = 1 /\ scenario.legacy
  BY DEF RunInv, RowInv
<1> QED
  BY <1>1, <1>2, <1>3, <1>4, ScenarioFacts

\* TypeOK and what tasks know are preserved.
LEMMA TypePreserved ==
  ASSUME TypeOK, RunInv, GiftInv, [Next]_vars
  PROVE  TypeOK' /\ RunInv'
<1> DEFINE Goal == TypeOK' /\ RunInv'
\* Task t moves; data and faults keep their types.
<1>a. ASSUME NEW t \in Tasks, \A u \in Tasks : u # t => run'[u] = run[u],
             run' \in [Tasks -> Run], UNCHANGED <<scenario, data, unrecorded, faults>>,
             lock' \in Engines \cup {None}, RowInv(t)'
      PROVE  Goal
  BY <1>a, RowsKept DEF TypeOK, data
<1>l. lock \in Engines \cup {None} /\ Engines \subseteq Tasks
  BY DEF TypeOK, Tasks
<1>e. \A t \in Engines : t \notin Legacy
  BY TasksAssumption
<1>1. ASSUME NEW t \in Tasks, StartEngine(t)
      PROVE  Goal
  <2>1. Shape(t, "rule", 1, {}, None, FALSE) /\ t \in scenario.tasks /\ t \in Engines
    BY <1>1, RuleShape DEF StartEngine, MayStart, IsEngine
  <2>2. UNCHANGED <<scenario, data, lock, unrecorded, faults>>
    BY <1>1 DEF StartEngine
  <2>3. RowInv(t)'
    BY <2>1, <2>2, <1>e, ScenarioFacts DEF RowInv, Holds, Shape
  <2> QED
    BY <2>1, <2>2, <2>3, <1>a, <1>l DEF Shape
<1>2. ASSUME NEW t \in Tasks, StartLegacy(t)
      PROVE  Goal
  <2>f. PICK F \in SUBSET Cands :
          run' = [run EXCEPT ![t] = [Resting EXCEPT !.pc = "next", !.rule = 1,
                                       !.todo = {c \in F : ~LegacySent(c)}]]
    BY <1>2 DEF StartLegacy, Found
  <2> DEFINE todo == {c \in F : ~LegacySent(c)}
  <2>1. todo \in SUBSET Cands
    OBVIOUS
  <2>2. /\ t \in scenario.tasks /\ scenario.legacy
        /\ UNCHANGED <<scenario, data, lock, unrecorded, faults>>
        /\ run' = [run EXCEPT ![t] = [Resting EXCEPT !.pc = "next", !.rule = 1, !.todo = todo]]
    BY <1>2, <2>f DEF StartLegacy, MayStart
  <2> HIDE DEF todo
  <2>3. Shape(t, "next", 1, todo, None, FALSE)
    BY <2>1, <2>2, NextShape
  <2>4. RowInv(t)'
    BY <2>1, <2>2, <2>3, ScenarioFacts, CandsAssumption DEF RowInv, Holds, Shape
  <2> QED
    BY <2>2, <2>3, <2>4, <1>a, <1>l DEF Shape
<1>3. ASSUME NEW t \in Tasks, SkipRule(t) \/ EndRule(t)
      PROVE  Goal
  <2>1. NextRule(t) /\ UNCHANGED <<scenario, data, unrecorded, faults>> /\ run[t].pc # "idle"
    BY <1>3 DEF SkipRule, EndRule
  <2>2. lock' \in Engines \cup {None}
    BY <2>1, <1>l, NextRuleShape
  <2>3. CASE Shape(t, "idle", 0, {}, None, FALSE)
    <3>1. RowInv(t)'
      BY <2>1, <2>3 DEF RowInv, Holds, Shape
    <3> QED
      BY <2>1, <2>2, <2>3, <3>1, <1>a DEF Shape
  <2>4. CASE /\ t \in Engines /\ run[t].rule < Len(scenario.rules)
             /\ Shape(t, "rule", run[t].rule + 1, {}, None, FALSE)
    <3>1. run[t].rule + 1 \in DOMAIN scenario.rules /\ t \in scenario.tasks
      BY <2>1, <2>4, BusyFacts, ScenarioFacts
    <3>2. RowInv(t)'
      BY <2>1, <2>4, <3>1, <1>e DEF RowInv, Holds, Shape
    <3> QED
      BY <2>1, <2>2, <2>4, <3>2, <1>a DEF Shape
  <2> QED
    BY <2>1, <2>3, <2>4, NextRuleShape
<1>4. ASSUME NEW t \in Tasks, Resolve(t)
      PROVE  Goal
  <2>1. /\ run[t].pc = "rule" /\ t \in Engines
        /\ UNCHANGED <<scenario, data, unrecorded, faults>> /\ lock' \in Engines \cup {None}
    BY <1>4, <1>l DEF Resolve, RunInv, RowInv, Tasks
  <2>f. PICK F \in SUBSET Cands : \E B \in Batches(EventOf(t), F) :
         run' = [run EXCEPT ![t].pc = "next", ![t].todo = B]
    BY <1>4 DEF Resolve, Found
  <2>2. PICK B \in Batches(EventOf(t), F) : run' = [run EXCEPT ![t].pc = "next", ![t].todo = B]
    BY <2>f
  <2>3. B \subseteq Cands
    BY BatchFacts
  <2>4. Shape(t, "next", run[t].rule, B, run[t].at, run[t].fresh)
    BY <2>2, <2>3 DEF Shape, TypeOK, Run
  <2>5. run[t].at = None /\ ~run[t].fresh
    BY <2>1 DEF RunInv, RowInv, Holds
  <2>6. RowInv(t)'
    BY <2>1, <2>3, <2>4, <2>5, <1>e, CandsAssumption DEF RunInv, RowInv, Holds, Shape
  <2> QED
    BY <2>1, <2>4, <2>6, <1>a DEF Shape
<1>5. ASSUME NEW t \in Tasks, NEW c \in Cands, Takes(t, c), PassOver(t, c),
             UNCHANGED <<scenario, data, lock, unrecorded, faults>>
      PROVE  Goal
  <2>1. Shape(t, "next", run[t].rule, run[t].todo \ {c}, run[t].at, run[t].fresh)
    BY <1>5, Shapes DEF Takes
  <2>2. RowInv(t)'
    BY <1>5, <2>1 DEF RunInv, RowInv, Holds, Shape, Takes
  <2> QED
    BY <1>5, <2>1, <2>2, <1>a, <1>l DEF Shape
<1>6. ASSUME NEW t \in Tasks, NEW c \in Cands, NEW pc \in {"issue", "send"}, NEW x \in {"main", "fallback"},
             Takes(t, c), InHand(t, c, pc, x), pc = "issue" => t \in Engines,
             UNCHANGED <<scenario, data, lock, unrecorded, faults>>
      PROVE  Goal
  <2>1. Shape(t, pc, run[t].rule, run[t].todo \ {c}, c, run[t].fresh) /\ c # None
    BY <1>6, Shapes, CandsAssumption
  <2>2. RowInv(t)'
    BY <1>6, <2>1, <1>e DEF RunInv, RowInv, Holds, Shape, Takes
  <2> QED
    BY <1>6, <2>1, <2>2, <1>a, <1>l DEF Shape
<1>7. ASSUME NEW t \in Tasks, NEW c \in Cands,
             NoConfig(t, c) \/ TakePlain(t, c) \/ TakeWithGift(t, c) \/ TakeWithoutGift(t, c)
      PROVE  Goal
  BY <1>5, <1>6, <1>7 DEF NoConfig, TakePlain, TakeWithGift, TakeWithoutGift, HasGiftStep, IsEngine
\* A task that goes on with its batch, or stops.
<1>8. ASSUME NEW t \in Tasks, run[t].pc # "idle", TakeNext(t) \/ run' = [run EXCEPT ![t] = Resting],
             UNCHANGED scenario, reminded \subseteq reminded'
      PROVE  run' \in [Tasks -> Run] /\ RunInv'
  <2>1. CASE TakeNext(t)
    <3>1. Shape(t, "next", run[t].rule, run[t].todo, None, FALSE) /\ run[t].todo \subseteq Cands
      BY <2>1, Shapes DEF TypeOK, Run
    <3>2. RowInv(t)'
      BY <1>8, <3>1, CandsAssumption DEF RunInv, RowInv, Holds, Shape
    <3> QED
      BY <1>8, <3>1, <3>2, RowsKept DEF Shape
  <2>2. CASE run' = [run EXCEPT ![t] = Resting]
    <3>1. Shape(t, "idle", 0, {}, None, FALSE)
      BY <2>2, Shapes
    <3>2. RowInv(t)'
      BY <1>8, <3>1 DEF RowInv, Holds, Shape
    <3> QED
      BY <1>8, <3>1, <3>2, RowsKept DEF Shape
  <2> QED
    BY <1>8, <2>1, <2>2
<1>9. ASSUME NEW t \in Tasks, Issue(t)
      PROVE  Goal
  <2>1. run[t].pc = "issue" /\ t \in Engines /\ GuestOf[run[t].at] \in Guests
    BY <1>9, BusyFacts DEF Issue, RunInv, RowInv, Holds, Tasks
  <2>2. run' = [run EXCEPT ![t].pc = "send", ![t].fresh = TRUE]
        /\ gift' = [gift EXCEPT ![GuestOf[run[t].at]] = @ + 1]
        /\ UNCHANGED <<scenario, log, reminded, lock, sent, promised, unrecorded, faults>>
    BY <1>9 DEF Issue
  <2>3. Shape(t, "send", run[t].rule, run[t].todo, run[t].at, TRUE)
    BY <2>2 DEF Shape, TypeOK, Run
  <2>4. RowInv(t)'
    BY <2>1, <2>2, <2>3, <1>e DEF RunInv, RowInv, Holds, Shape
  <2>5. gift' \in [Guests -> Nat]
    BY <2>1, <2>2 DEF TypeOK
  <2> QED
    BY <2>2, <2>3, <2>4, <2>5, RowsKept DEF TypeOK, Shape
<1>10. ASSUME NEW t \in Tasks, IssueFails(t)
       PROVE  Goal
  <2>1. run[t].pc = "issue" /\ UNCHANGED <<scenario, data, lock, unrecorded, faults>>
    BY <1>10 DEF IssueFails
  <2>2. CASE TakeNext(t)
    BY <2>1, <2>2, <1>8 DEF TypeOK, data
  <2>3. CASE run' = [run EXCEPT ![t].pc = "send", ![t].text = "fallback"]
    <3>1. Shape(t, "send", run[t].rule, run[t].todo, run[t].at, run[t].fresh)
      BY <2>3 DEF Shape, TypeOK, Run
    <3>2. RowInv(t)'
      BY <2>1, <3>1 DEF RunInv, RowInv, Holds, Shape
    <3> QED
      BY <2>1, <3>1, <3>2, <1>a, <1>l DEF Shape
  <2> QED
    BY <1>10, <2>2, <2>3 DEF IssueFails
\* The message is out of the task's hands: recorded next, or a gift to take back.
<1>11. ASSUME NEW t \in Tasks, NEW pc \in {"log", "flag", "revoke"}, run[t].pc = "send",
              Shape(t, pc, run[t].rule, run[t].todo, run[t].at, run[t].fresh),
              pc = "revoke" => run[t].fresh,
              pc \in {"log", "flag"} => pc = FirstRecord(t), UNCHANGED <<scenario, reminded>>
       PROVE  run' \in [Tasks -> Run] /\ RunInv'
  <2>1. RowInv(t)'
    BY <1>11, <1>e DEF RunInv, RowInv, Holds, Shape, FirstRecord, IsEngine, StoryGifts, Tasks
  <2> QED
    BY <1>11, <2>1, RowsKept DEF Shape
<1>12. ASSUME NEW t \in Tasks, SendOk(t)
       PROVE  Goal
  <2>1. /\ run[t].pc = "send" /\ Goto(t, FirstRecord(t)) /\ FirstRecord(t) \in {"log", "flag"}
        /\ UNCHANGED <<scenario, log, reminded, gift, lock, unrecorded, faults>>
    BY <1>12 DEF SendOk, FirstRecord
  <2>2. run' \in [Tasks -> Run] /\ RunInv'
    BY <2>1, Shapes, <1>11
  <2>3. sent' \in [Events -> [Keys -> Nat]] /\ promised' \in [Guests -> Nat]
    BY <1>12, DeliveredTypes DEF SendOk
  <2> QED
    BY <2>1, <2>2, <2>3 DEF TypeOK
<1>13. ASSUME NEW t \in Tasks, run[t].pc = "send", NotAnswered(t), UNCHANGED <<scenario, reminded>>
       PROVE  run' \in [Tasks -> Run] /\ RunInv'
  BY <1>13, Shapes, <1>11, <1>8 DEF NotAnswered
<1>14. ASSUME NEW t \in Tasks, SendRefused(t)
       PROVE  Goal
  BY <1>14, <1>13 DEF SendRefused, TypeOK, data
<1>f. ASSUME Fault, UNCHANGED scenario
      PROVE  faults' \in 0 .. scenario'.faults
  BY <1>f, ScenarioFacts DEF Fault, TypeOK, Scenario
<1>15. ASSUME NEW t \in Tasks, AnswerLost(t)
       PROVE  Goal
  <2>1. /\ run[t].pc = "send" /\ NotAnswered(t) /\ unrecorded' = unrecorded + 1
        /\ UNCHANGED <<scenario, log, reminded, gift, lock>>
    BY <1>15 DEF AnswerLost
  <2>2. run' \in [Tasks -> Run] /\ RunInv'
    BY <2>1, <1>13
  <2>3. sent' \in [Events -> [Keys -> Nat]] /\ promised' \in [Guests -> Nat]
    BY <1>15, DeliveredTypes DEF AnswerLost
  <2>4. faults' \in 0 .. scenario'.faults
    BY <1>15, <1>f DEF AnswerLost
  <2> QED
    BY <2>1, <2>2, <2>3, <2>4 DEF TypeOK
<1>o. ASSUME NEW t \in Tasks, Over(t)
      PROVE  lock' \in Engines \cup {None} /\ run' = [run EXCEPT ![t] = Resting]
  BY <1>o, <1>l DEF Over
<1>16. ASSUME NEW t \in Tasks, TimeLimit(t)
       PROVE  Goal
  <2>1. run[t].pc = "send" /\ UNCHANGED <<scenario, log, reminded, gift>>
    BY <1>16 DEF TimeLimit
  <2>2. sent' \in [Events -> [Keys -> Nat]] /\ promised' \in [Guests -> Nat] /\ unrecorded' \in Nat
    BY <1>16, DeliveredTypes DEF TimeLimit, TypeOK
  <2>3. faults' \in 0 .. scenario'.faults
    BY <1>16, <2>1, <1>f DEF TimeLimit
  <2>4. run' \in [Tasks -> Run] /\ RunInv' /\ lock' \in Engines \cup {None}
    <3>1. CASE run[t].fresh
      <4>1. run' = [run EXCEPT ![t].pc = "revoke", ![t].ends = TRUE] /\ UNCHANGED lock
        BY <1>16, <3>1 DEF TimeLimit
      <4>2. Shape(t, "revoke", run[t].rule, run[t].todo, run[t].at, run[t].fresh)
        BY <4>1 DEF Shape, TypeOK, Run
      <4> QED
        BY <2>1, <3>1, <4>1, <4>2, <1>11, <1>l
    <3>2. CASE ~run[t].fresh
      <4>1. Over(t)
        BY <1>16, <3>2 DEF TimeLimit
      <4> QED
        BY <2>1, <4>1, <1>o, <1>8
    <3> QED
      BY <3>1, <3>2
  <2> QED
    BY <2>1, <2>2, <2>3, <2>4 DEF TypeOK
<1>17. ASSUME NEW t \in Tasks, Revoke(t)
       PROVE  Goal
  <2> DEFINE g == GuestOf[run[t].at]
  <2>1. /\ run[t].pc = "revoke" /\ gift' = [gift EXCEPT ![g] = @ - 1] /\ g \in Guests
        /\ UNCHANGED <<scenario, log, reminded, sent, promised, unrecorded, faults>>
    BY <1>17, BusyFacts DEF Revoke, Holds
  <2>2. gift[g] > 0
    <3>1. t \in Owing(g) /\ IsFiniteSet(Owing(g))
      BY <2>1, TasksAssumption, FS_Subset DEF Owing, RunInv, RowInv
    <3>2. Cardinality(Owing(g)) \in Nat /\ Cardinality(Owing(g)) # 0
      BY <3>1, FS_CardinalityType, FS_EmptySet
    <3> QED
      BY <2>1, <3>2 DEF GiftInv, TypeOK
  <2>3. gift' \in [Guests -> Nat]
    BY <2>1, <2>2 DEF TypeOK
  <2>4. run' \in [Tasks -> Run] /\ RunInv' /\ lock' \in Engines \cup {None}
    BY <1>17, <2>1, <1>o, <1>8, <1>l DEF Revoke
  <2> QED
    BY <2>1, <2>3, <2>4 DEF TypeOK
<1>18. ASSUME NEW t \in Tasks, run[t].pc # "idle", Recorded(t), UNCHANGED scenario,
              reminded \subseteq reminded'
       PROVE  run' \in [Tasks -> Run] /\ RunInv'
  <2>1. PICK todo \in SUBSET run[t].todo : Shape(t, "next", run[t].rule, todo, None, FALSE)
    BY <1>18, Shapes
  <2>2. None \notin todo
    BY CandsAssumption DEF TypeOK, Run
  <2>3. RowInv(t)'
    BY <1>18, <2>1, <2>2 DEF RunInv, RowInv, Holds, Shape
  <2> QED
    BY <1>18, <2>1, <2>3, RowsKept DEF Shape
<1>19. ASSUME NEW t \in Tasks, WriteLog(t)
       PROVE  Goal
  <2>1. /\ run[t].pc = "log" /\ log' = Add(log, EventOf(t), RowKey(t))
        /\ UNCHANGED <<scenario, reminded, gift, lock, sent, promised, unrecorded, faults>>
    BY <1>19 DEF WriteLog
  <2>2. RowKey(t) \in Keys /\ EventOf(t) \in Events
    BY <2>1, BusyFacts, CandsAssumption DEF RowKey, Holds, Keys
  <2>3. log' \in [Events -> [Keys -> Nat]]
    BY <2>1, <2>2 DEF Add, TypeOK
  <2>4. CASE Recorded(t)
    BY <2>1, <2>3, <2>4, <1>18 DEF TypeOK
  <2>5. CASE StoryGifts /\ IsEngine(t) /\ Goto(t, "flag")
    <3>1. Shape(t, "flag", run[t].rule, run[t].todo, run[t].at, run[t].fresh)
      BY <2>5, Shapes
    <3>2. RowInv(t)'
      BY <2>1, <2>5, <3>1 DEF RunInv, RowInv, Holds, Shape, StoryGifts
    <3> QED
      BY <2>1, <2>3, <3>1, <3>2, RowsKept DEF TypeOK, Shape
  <2> QED
    BY <1>19, <2>4, <2>5 DEF WriteLog
<1>20. ASSUME NEW t \in Tasks, WriteFlag(t)
       PROVE  Goal
  <2>1. /\ run[t].pc = "flag" /\ reminded' = reminded \cup {run[t].at}
        /\ UNCHANGED <<scenario, log, gift, lock, sent, promised, unrecorded, faults>>
    BY <1>20 DEF WriteFlag
  <2>2. reminded' \subseteq Cands /\ reminded \subseteq reminded'
    BY <2>1, BusyFacts DEF Holds, TypeOK
  <2>4. CASE Recorded(t)
    BY <2>1, <2>2, <2>4, <1>18 DEF TypeOK
  <2>5. CASE ~IsEngine(t) /\ Goto(t, "log")
    <3>1. Shape(t, "log", run[t].rule, run[t].todo, run[t].at, run[t].fresh)
      BY <2>5, Shapes
    <3>2. RowInv(t)'
      BY <2>1, <2>5, <3>1 DEF RunInv, RowInv, Holds, Shape, StoryGifts
    <3> QED
      BY <2>1, <2>2, <3>1, <3>2, RowsKept DEF TypeOK, Shape
  <2> QED
    BY <1>20, <2>4, <2>5 DEF WriteFlag
<1>21. ASSUME NEW t \in Tasks, BalanceFails(t)
       PROVE  Goal
  <2>1. /\ run[t].pc = "send" /\ TakeNext(t) /\ UNCHANGED <<scenario, data, lock, unrecorded>>
    BY <1>21 DEF BalanceFails
  <2>2. run' \in [Tasks -> Run] /\ RunInv'
    BY <2>1, <1>8 DEF data
  <2>3. faults' \in 0 .. scenario'.faults
    BY <1>21, <2>1, <1>f DEF BalanceFails
  <2> QED
    BY <2>1, <2>2, <2>3 DEF TypeOK, data
<1>22. ASSUME NEW t \in Tasks, Interrupted(t)
       PROVE  Goal
  <2>1. /\ run[t].pc # "idle" /\ Over(t) /\ UNCHANGED <<scenario, data>>
        /\ unrecorded' \in Nat
    BY <1>22 DEF Interrupted, TypeOK
  <2>2. run' \in [Tasks -> Run] /\ RunInv' /\ lock' \in Engines \cup {None}
    BY <2>1, <1>8, <1>o DEF data
  <2>3. faults' \in 0 .. scenario'.faults
    BY <1>22, <2>1, <1>f DEF Interrupted
  <2> QED
    BY <2>1, <2>2, <2>3 DEF TypeOK, data
<1>23. ASSUME UNCHANGED vars
       PROVE  Goal
  BY <1>23 DEF vars, data, TypeOK, RunInv, RowInv, Holds, StoryGifts
<1>24. ASSUME NEW t \in Tasks, Serve(t)
       PROVE  Goal
  BY <1>24, <1>3, <1>4, <1>7, <1>9, <1>10, <1>12, <1>14, <1>17, <1>19, <1>20 DEF Serve
<1> QED
  BY <1>1, <1>2, <1>15, <1>16, <1>21, <1>22, <1>23, <1>24 DEF Next, Start, Fails

----------------------------------------------------------------------------
\* A step of a task leaves the rows of the others, and the lock unless it is free
\* or its own.
LEMMA LockSteps ==
  ASSUME TypeOK, RunInv, NEW t \in Tasks, Start(t) \/ Serve(t) \/ Fails(t)
  PROVE  /\ UNCHANGED scenario /\ \A u \in Tasks : u # t => run'[u] = run[u]
         /\ run[t].pc # "idle" \/ scenario.overlap \/ \A u \in Tasks : run[u].pc = "idle"
         /\ lock' = lock \/ lock = t \/ lock = None
         /\ scenario.limit > 0 /\ t \in Engines /\ Active(t)' =>
              lock' = t \/ (lock' = lock /\ Active(t))
<1> DEFINE Goal == /\ UNCHANGED scenario /\ \A u \in Tasks : u # t => run'[u] = run[u]
                   /\ run[t].pc # "idle" \/ scenario.overlap \/ \A u \in Tasks : run[u].pc = "idle"
                   /\ lock' = lock \/ lock = t \/ lock = None
                   /\ scenario.limit > 0 /\ t \in Engines /\ Active(t)' =>
                        lock' = t \/ (lock' = lock /\ Active(t))
<1>a. ASSUME UNCHANGED <<scenario, lock>>, Active(t), \A u \in Tasks : u # t => run'[u] = run[u]
      PROVE  Goal
  BY <1>a DEF Active
<1>b. ASSUME UNCHANGED scenario, run[t].pc # "idle", lock' = IF lock = t THEN None ELSE lock,
             run' = [run EXCEPT ![t] = Resting]
      PROVE  Goal
  <2>1. Shape(t, "idle", 0, {}, None, FALSE)
    BY <1>b, RestingShape
  <2> QED
    BY <1>b, <2>1 DEF Active, Shape
<1>e. \A u \in Engines : u \notin Legacy
  BY TasksAssumption
<1>1. CASE StartEngine(t)
  <2>1. Shape(t, "rule", 1, {}, None, FALSE) /\ UNCHANGED <<scenario, lock>> /\ MayStart(t)
    BY <1>1, RuleShape DEF StartEngine
  <2> QED
    BY <2>1 DEF Active, Shape, MayStart
<1>2. CASE StartLegacy(t)
  <2>1. /\ UNCHANGED <<scenario, lock>> /\ MayStart(t) /\ t \in Legacy
        /\ \A u \in Tasks : u # t => run'[u] = run[u]
    BY <1>2 DEF StartLegacy, TypeOK
  <2> QED
    BY <2>1, <1>e DEF MayStart
<1>3. CASE SkipRule(t) \/ EndRule(t)
  <2>1. NextRule(t) /\ run[t].pc # "idle" /\ UNCHANGED scenario
    BY <1>3 DEF SkipRule, EndRule
  <2>2. run'[t].pc \in {"idle", "rule"} /\ \A u \in Tasks : u # t => run'[u] = run[u]
    BY <2>1, NextRuleShape DEF Shape
  <2> QED
    BY <2>1, <2>2, NextRuleShape DEF Active
<1>4. CASE Resolve(t)
  BY <1>4 DEF Resolve, LockIsFree, TypeOK
<1>5. CASE \E c \in Cands : NoConfig(t, c) \/ TakePlain(t, c) \/ TakeWithGift(t, c) \/ TakeWithoutGift(t, c)
  <2>1. \A u \in Tasks : u # t => run'[u] = run[u]
    BY <1>5 DEF NoConfig, TakePlain, TakeWithGift, TakeWithoutGift, InHand, PassOver, TypeOK
  <2>2. Active(t) /\ UNCHANGED <<scenario, lock>>
    BY <1>5 DEF NoConfig, TakePlain, TakeWithGift, TakeWithoutGift, Takes, Active
  <2> QED
    BY <2>1, <2>2, <1>a
<1>6. CASE \/ Issue(t) \/ IssueFails(t) \/ SendOk(t) \/ SendRefused(t) \/ WriteLog(t) \/ WriteFlag(t)
           \/ BalanceFails(t) \/ AnswerLost(t)
  <2>1. \A u \in Tasks : u # t => run'[u] = run[u]
    BY <1>6 DEF Issue, IssueFails, SendOk, SendRefused, WriteLog, WriteFlag, BalanceFails, AnswerLost,
                NotAnswered, Recorded, TakeNext, Goto, TypeOK
  <2>2. Active(t) /\ UNCHANGED <<scenario, lock>>
    BY <1>6 DEF Issue, IssueFails, SendOk, SendRefused, WriteLog, WriteFlag, BalanceFails, AnswerLost, Active
  <2> QED
    BY <2>1, <2>2, <1>a
<1>7. CASE TimeLimit(t)
  <2>1. CASE run[t].fresh
    BY <1>7, <2>1, <1>a DEF TimeLimit, TypeOK, Active
  <2>2. CASE ~run[t].fresh
    BY <1>7, <2>2, <1>b DEF TimeLimit, Over
  <2> QED
    BY <2>1, <2>2
<1>8. CASE Revoke(t)
  <2>1. CASE run[t].ends
    BY <1>8, <2>1, <1>b DEF Revoke, Over
  <2>2. CASE ~run[t].ends
    BY <1>8, <2>2, <1>a DEF Revoke, TakeNext, TypeOK, Active
  <2> QED
    BY <2>1, <2>2
<1>9. CASE Interrupted(t)
  BY <1>9, <1>b DEF Interrupted, Over
<1> QED
  BY <1>1, <1>2, <1>3, <1>4, <1>5, <1>6, <1>7, <1>8, <1>9 DEF Start, Serve, Fails

LEMMA TurnsPreserved ==
  ASSUME TypeOK, RunInv, TurnsInv, [Next]_vars
  PROVE  TurnsInv'
<1>1. ASSUME NEW t \in Tasks, Start(t) \/ Serve(t) \/ Fails(t)
      PROVE  TurnsInv'
  <2>1. /\ UNCHANGED scenario /\ \A u \in Tasks : u # t => run'[u] = run[u]
        /\ run[t].pc # "idle" \/ scenario.overlap \/ \A u \in Tasks : run[u].pc = "idle"
        /\ lock' = lock \/ lock = t \/ lock = None
        /\ scenario.limit > 0 /\ t \in Engines /\ Active(t)' => lock' = t \/ (lock' = lock /\ Active(t))
    BY <1>1, LockSteps
  <2>2. ~scenario.overlap => \A v, u \in Tasks : run'[v].pc # "idle" /\ run'[u].pc # "idle" => v = u
    BY <2>1 DEF TurnsInv
  <2>3. ASSUME scenario.limit > 0, NEW u \in Engines, Active(u)'
        PROVE  lock' = u
    <3>1. u \in Tasks /\ u # None
      BY CandsAssumption DEF Tasks
    <3>2. CASE u = t
      BY <2>1, <2>3, <3>2 DEF TurnsInv
    <3>3. CASE u # t
      BY <2>1, <2>3, <3>1, <3>3 DEF TurnsInv, Active
    <3> QED
      BY <3>2, <3>3
  <2> QED
    BY <2>1, <2>2, <2>3 DEF TurnsInv
<1>2. CASE UNCHANGED vars
  BY <1>2 DEF TurnsInv, Active, vars
<1> QED
  BY <1>1, <1>2 DEF Next

\* Without overlap, or with the lock, one task at a time has a batch.
LEMMA OneActive ==
  ASSUME TypeOK, RunInv, TurnsInv, Serial, NEW t \in Tasks, NEW u \in Tasks, Active(t), Active(u)
  PROVE  t = u
<1>1. CASE ~scenario.overlap
  BY <1>1 DEF TurnsInv, Active
<1>2. CASE scenario.limit > 0
  <2>1. t \in Engines /\ u \in Engines
    BY <1>2, BusyFacts, ScenarioFacts DEF Active, Tasks
  <2> QED
    BY <1>2, <2>1 DEF TurnsInv
<1> QED
  BY <1>1, <1>2 DEF Serial

----------------------------------------------------------------------------
\* Two sets of tasks that differ in t at most.
LEMMA CountMoves ==
  ASSUME NEW S \in SUBSET Tasks, NEW T \in SUBSET Tasks, NEW t \in Tasks, S \ {t} = T \ {t}
  PROVE  \E n \in Nat : /\ Cardinality(S) = n + (IF t \in S THEN 1 ELSE 0)
                        /\ Cardinality(T) = n + (IF t \in T THEN 1 ELSE 0)
<1> DEFINE R == S \ {t}
<1>1. IsFiniteSet(R) /\ t \notin R
  BY TasksAssumption, FS_Subset
<1>2. Cardinality(R) \in Nat /\ Cardinality(R \cup {t}) = Cardinality(R) + 1
  BY <1>1, FS_CardinalityType, FS_AddElement
<1>3. S = (IF t \in S THEN R \cup {t} ELSE R) /\ T = (IF t \in T THEN R \cup {t} ELSE R)
  OBVIOUS
<1> HIDE DEF R
<1> QED
  BY <1>2, <1>3

\* Task t owes guest g a message for a gift.
Owes(t, g) == run[t].fresh /\ run[t].pc \in {"send", "revoke"} /\ GuestOf[run[t].at] = g

LEMMA OwingCounts ==
  ASSUME NEW t \in Tasks, \A u \in Tasks : u # t => run'[u] = run[u], NEW g
  PROVE  \E n \in Nat : /\ Cardinality(Owing(g)) = n + (IF Owes(t, g) THEN 1 ELSE 0)
                        /\ Cardinality(Owing(g)') = n + (IF Owes(t, g)' THEN 1 ELSE 0)
<1>1. Owing(g) \in SUBSET Tasks /\ Owing(g)' \in SUBSET Tasks
  BY DEF Owing
<1>2. Owing(g) \ {t} = Owing(g)' \ {t}
  BY DEF Owing
<1>3. (t \in Owing(g) <=> Owes(t, g)) /\ (t \in Owing(g)' <=> Owes(t, g)')
  BY DEF Owing, Owes
<1> QED
  BY <1>1, <1>2, <1>3, CountMoves

\* What a step of a task does to gifts and their announcements.
Quiet(t) == /\ UNCHANGED <<gift, promised, faults>>
            /\ \A g \in Guests : Owes(t, g)' <=> Owes(t, g)
            /\ run'[t].pc = "issue" => gift[GuestOf[run'[t].at]] = 0
Issues(t, g) == /\ run[t].pc = "issue" /\ run'[t].pc = "send" /\ GuestOf[run[t].at] = g
                /\ gift' = [gift EXCEPT ![g] = @ + 1] /\ UNCHANGED <<promised, faults>>
                /\ \A h \in Guests : ~Owes(t, h) /\ (Owes(t, h)' <=> h = g)
Announces(t, g) == /\ run[t].fresh /\ run'[t].pc # "issue"
                   /\ UNCHANGED <<gift, faults>> /\ promised' = [promised EXCEPT ![g] = @ + 1]
                   /\ \A h \in Guests : ~Owes(t, h)' /\ (Owes(t, h) <=> h = g)
Drops(t) == /\ run'[t].pc # "issue" /\ UNCHANGED <<gift, promised>> /\ faults' = faults + 1
            /\ \A h \in Guests : Owes(t, h)' => Owes(t, h)
Loses(t, g) == /\ run'[t].pc # "issue" /\ UNCHANGED gift /\ faults' = faults + 1
               /\ promised' = [promised EXCEPT ![g] = @ + 1]
               /\ \A h \in Guests : Owes(t, h)' <=> Owes(t, h)
TakesBack(t, g) == /\ run'[t].pc # "issue"
                   /\ gift' = [gift EXCEPT ![g] = @ - 1] /\ UNCHANGED <<promised, faults>>
                   /\ \A h \in Guests : ~Owes(t, h)' /\ (Owes(t, h) <=> h = g)

LEMMA GiftSteps ==
  ASSUME TypeOK, RunInv, NEW t \in Tasks, Start(t) \/ Serve(t) \/ Fails(t)
  PROVE  \/ Quiet(t) \/ Drops(t)
         \/ \E g \in Guests : Issues(t, g) \/ Announces(t, g) \/ Loses(t, g) \/ TakesBack(t, g)
<1> DEFINE at == GuestOf[run[t].at]
           Goal == \/ Quiet(t) \/ Drops(t)
                   \/ \E g \in Guests : Issues(t, g) \/ Announces(t, g) \/ Loses(t, g) \/ TakesBack(t, g)
<1> USE DEF Owes
<1>r. RowInv(t)
  BY DEF RunInv
\* Neither before nor afterwards is a gift owed.
<1>q. ASSUME UNCHANGED <<gift, promised, faults>>, run[t].pc \notin {"send", "revoke"} \/ ~run[t].fresh,
             run'[t].pc \notin {"issue", "send", "revoke"} \/ (run'[t].pc # "issue" /\ ~run'[t].fresh)
      PROVE  Goal
  BY <1>q DEF Quiet
<1>1. CASE StartEngine(t)
  <2>1. Shape(t, "rule", 1, {}, None, FALSE) /\ run[t].pc = "idle"
    BY <1>1, RuleShape DEF StartEngine, MayStart
  <2> QED
    BY <1>1, <2>1, <1>q DEF StartEngine, data, Shape
<1>2. CASE StartLegacy(t)
  <2>f. PICK F \in SUBSET Cands :
          run' = [run EXCEPT ![t] = [Resting EXCEPT !.pc = "next", !.rule = 1,
                                       !.todo = {c \in F : ~LegacySent(c)}]]
    BY <1>2 DEF StartLegacy, Found
  <2> DEFINE todo == {c \in F : ~LegacySent(c)}
  <2>0. todo \in SUBSET Cands
    OBVIOUS
  <2>1. /\ run[t].pc = "idle" /\ UNCHANGED <<gift, promised, faults>>
        /\ run' = [run EXCEPT ![t] = [Resting EXCEPT !.pc = "next", !.rule = 1, !.todo = todo]]
    BY <1>2, <2>f DEF StartLegacy, MayStart, data
  <2> HIDE DEF todo
  <2>2. run'[t].pc = "next"
    BY <2>0, <2>1, NextShape DEF Shape
  <2> QED
    BY <2>1, <2>2, <1>q
<1>3. CASE SkipRule(t) \/ EndRule(t)
  <2>1. run'[t].pc \in {"idle", "rule"}
    BY <1>3, NextRuleShape DEF SkipRule, EndRule, Shape
  <2> QED
    BY <1>3, <2>1, <1>q DEF SkipRule, EndRule, data
<1>4. CASE Resolve(t)
  <2>1. run'[t].pc = "next"
    BY <1>4 DEF Resolve, TypeOK, Run
  <2> QED
    BY <1>4, <2>1, <1>q DEF Resolve, data
<1>5. ASSUME NEW c \in Cands, NoConfig(t, c) \/ TakePlain(t, c) \/ TakeWithGift(t, c) \/ TakeWithoutGift(t, c)
      PROVE  Goal
  <2>1. UNCHANGED <<gift, promised, faults>> /\ run[t].pc = "next" /\ ~run[t].fresh
    BY <1>5, <1>r DEF NoConfig, TakePlain, TakeWithGift, TakeWithoutGift, Takes, data, RowInv
  <2>2. CASE PassOver(t, c)
    <3>1. run'[t].pc = "next"
      BY <2>1, <2>2, Shapes DEF Shape
    <3> QED
      BY <2>1, <3>1, <1>q
  <2>3. CASE \E x \in {"main", "fallback"} : InHand(t, c, "send", x)
    <3>0. PICK x \in {"main", "fallback"} : InHand(t, c, "send", x)
      BY <2>3
    <3>2. Shape(t, "send", run[t].rule, run[t].todo \ {c}, c, run[t].fresh)
      BY <3>0, Shapes
    <3>1. run'[t].pc = "send" /\ ~run'[t].fresh
      BY <2>1, <3>2 DEF Shape
    <3> QED
      BY <2>1, <3>1, <1>q
  <2>4. CASE InHand(t, c, "issue", "main") /\ GiftGate(c)
    <3>1. run'[t].pc = "issue" /\ run'[t].at = c /\ ~run'[t].fresh
      BY <2>1, <2>4, Shapes DEF Shape
    <3> QED
      BY <2>1, <2>4, <3>1 DEF Quiet, GiftGate
  <2> QED
    BY <1>5, <2>2, <2>3, <2>4 DEF NoConfig, TakePlain, TakeWithGift, TakeWithoutGift
<1>6. CASE Issue(t)
  <2>1. run[t].pc = "issue" /\ at \in Guests /\ ~run[t].fresh
    BY <1>6, <1>r, BusyFacts DEF Issue, Holds, RowInv
  <2>2. run'[t].pc = "send" /\ run'[t].fresh = TRUE /\ run'[t].at = run[t].at
    BY <1>6 DEF Issue, TypeOK, Run
  <2> QED
    BY <1>6, <2>1, <2>2 DEF Issue, Issues
<1>7. CASE IssueFails(t)
  <2>1. run[t].pc = "issue" /\ ~run[t].fresh /\ UNCHANGED <<gift, promised, faults>>
    BY <1>7, <1>r DEF IssueFails, RowInv, data
  <2>2. CASE TakeNext(t)
    <3>1. run'[t].pc = "next"
      BY <2>2, Shapes DEF Shape
    <3> QED
      BY <2>1, <3>1, <1>q
  <2>3. CASE run' = [run EXCEPT ![t].pc = "send", ![t].text = "fallback"]
    <3>1. run'[t].pc = "send" /\ ~run'[t].fresh
      BY <2>1, <2>3 DEF TypeOK, Run
    <3> QED
      BY <2>1, <3>1, <1>q
  <2> QED
    BY <1>7, <2>2, <2>3 DEF IssueFails
<1>s. ASSUME run[t].pc = "send"
      PROVE  at \in Guests
  BY <1>s, BusyFacts DEF Holds
<1>d. ASSUME Delivered(t)
      PROVE  /\ run[t].fresh => promised' = [promised EXCEPT ![at] = @ + 1]
             /\ ~run[t].fresh => promised' = [promised EXCEPT ![at] = @]
  BY <1>d DEF Delivered
<1>p. ASSUME Delivered(t), ~run[t].fresh
      PROVE  UNCHANGED promised
  BY <1>d, <1>p DEF TypeOK
<1>n. ASSUME run[t].pc = "send", NotAnswered(t)
      PROVE  /\ run[t].fresh => run'[t].pc = "revoke" /\ run'[t].fresh /\ run'[t].at = run[t].at
             /\ ~run[t].fresh => run'[t].pc = "next"
  BY <1>n, Shapes DEF NotAnswered, Shape
<1>8. CASE SendOk(t)
  <2>1. /\ run[t].pc = "send" /\ Delivered(t) /\ run'[t].pc \in {"log", "flag"}
        /\ UNCHANGED <<gift, faults>>
    BY <1>8, Shapes DEF SendOk, FirstRecord, Shape
  <2>2. CASE run[t].fresh
    BY <2>1, <2>2, <1>s, <1>d DEF Announces
  <2>3. CASE ~run[t].fresh
    BY <2>1, <2>3, <1>p, <1>q
  <2> QED
    BY <2>2, <2>3 DEF TypeOK, Run
<1>9. CASE SendRefused(t)
  <2>1. run[t].pc = "send" /\ UNCHANGED <<gift, promised, faults>>
    BY <1>9 DEF SendRefused, data
  <2>2. CASE run[t].fresh
    BY <1>9, <2>1, <2>2, <1>n DEF SendRefused, Quiet
  <2>3. CASE ~run[t].fresh
    BY <1>9, <2>1, <2>3, <1>n, <1>q DEF SendRefused
  <2> QED
    BY <2>2, <2>3
<1>10. CASE AnswerLost(t)
  <2>1. run[t].pc = "send" /\ Delivered(t) /\ NotAnswered(t) /\ UNCHANGED gift /\ faults' = faults + 1
    BY <1>10 DEF AnswerLost, Fault
  <2>2. CASE run[t].fresh
    BY <2>1, <2>2, <1>s, <1>d, <1>n DEF Drops, Loses
  <2>3. CASE ~run[t].fresh
    BY <2>1, <2>3, <1>s, <1>p, <1>n DEF Drops, Loses
  <2> QED
    BY <2>2, <2>3
<1>11. CASE TimeLimit(t)
  <2>1. /\ run[t].pc = "send" /\ UNCHANGED gift /\ faults' = faults + 1
        /\ Delivered(t) \/ UNCHANGED promised
    BY <1>11 DEF TimeLimit, Fault
  <2>2. CASE run[t].fresh
    <3>1. run'[t].pc = "revoke" /\ run'[t].fresh /\ run'[t].at = run[t].at
      BY <1>11, <2>2 DEF TimeLimit, TypeOK, Run
    <3> QED
      BY <2>1, <2>2, <3>1, <1>s, <1>d DEF Drops, Loses
  <2>3. CASE ~run[t].fresh
    <3>1. run'[t].pc = "idle"
      BY <1>11, <2>3, RestingShape DEF TimeLimit, Over, Shape
    <3> QED
      BY <2>1, <2>3, <3>1, <1>s, <1>p DEF Drops, Loses
  <2> QED
    BY <2>2, <2>3
<1>12. CASE Revoke(t)
  <2>1. run[t].pc = "revoke" /\ run[t].fresh /\ at \in Guests
    BY <1>12, <1>r, BusyFacts DEF Revoke, Holds, RowInv
  <2>2. run'[t].pc \in {"idle", "next"} /\ run'[t].fresh = FALSE
    BY <1>12, RestingShape, Shapes DEF Revoke, Over, Shape
  <2> QED
    BY <1>12, <2>1, <2>2 DEF Revoke, TakesBack
<1>13. CASE WriteLog(t) \/ WriteFlag(t)
  <2>1. UNCHANGED <<gift, promised, faults>> /\ run[t].pc \in {"log", "flag"}
    BY <1>13 DEF WriteLog, WriteFlag
  <2>2. run'[t].pc \in {"next", "log", "flag"}
    BY <1>13, Shapes DEF WriteLog, WriteFlag, Shape
  <2> QED
    BY <2>1, <2>2, <1>q
<1>14. CASE BalanceFails(t)
  <2>1. /\ run[t].pc = "send" /\ UNCHANGED <<gift, promised>> /\ faults' = faults + 1
        /\ run'[t].pc = "next"
    BY <1>14, Shapes DEF BalanceFails, Fault, data, Shape
  <2> QED
    BY <2>1, <1>s DEF Drops, Loses
<1>15. CASE Interrupted(t)
  <2>1. UNCHANGED <<gift, promised>> /\ faults' = faults + 1 /\ run'[t].pc = "idle"
    BY <1>15, RestingShape DEF Interrupted, Over, Fault, data, Shape
  <2> QED
    BY <2>1 DEF Drops, Loses
<1> QED
  BY <1>1, <1>2, <1>3, <1>4, <1>5, <1>6, <1>7, <1>8, <1>9, <1>10, <1>11, <1>12, <1>13, <1>14, <1>15
     DEF Start, Serve, Fails

\* Gifts and announcements come in pairs, but for one per fault.
LEMMA GiftPreserved ==
  ASSUME TypeOK, RunInv, GiftInv, [Next]_vars
  PROVE  GiftInv'
<1>1. ASSUME NEW t \in Tasks, Start(t) \/ Serve(t) \/ Fails(t)
      PROVE  GiftInv'
  <2> SUFFICES ASSUME NEW g \in Guests
               PROVE  /\ Cardinality(Owing(g)') =< gift'[g]
                      /\ gift'[g] =< promised'[g] + Cardinality(Owing(g)') + faults'
                      /\ promised'[g] + Cardinality(Owing(g)') =< gift'[g] + faults'
    BY DEF GiftInv
  <2>1. PICK n \in Nat : /\ Cardinality(Owing(g)) = n + (IF Owes(t, g) THEN 1 ELSE 0)
                         /\ Cardinality(Owing(g)') = n + (IF Owes(t, g)' THEN 1 ELSE 0)
    BY <1>1, LockSteps, OwingCounts
  <2>2. /\ gift[g] \in Nat /\ promised[g] \in Nat /\ faults \in Nat
        /\ Cardinality(Owing(g)) =< gift[g]
        /\ gift[g] =< promised[g] + Cardinality(Owing(g)) + faults
        /\ promised[g] + Cardinality(Owing(g)) =< gift[g] + faults
    BY ScenarioFacts DEF TypeOK, GiftInv, Scenario
  <2>3. CASE Quiet(t)
    BY <2>1, <2>2, <2>3 DEF Quiet
  <2>4. CASE Drops(t)
    BY <2>1, <2>2, <2>4 DEF Drops
  <2>5. ASSUME NEW h \in Guests, Issues(t, h)
        PROVE  /\ gift'[g] = gift[g] + (IF g = h THEN 1 ELSE 0) /\ UNCHANGED <<promised, faults>>
               /\ ~Owes(t, g) /\ (Owes(t, g)' <=> g = h)
    BY <2>5 DEF Issues, TypeOK
  <2>6. ASSUME NEW h \in Guests, Announces(t, h)
        PROVE  /\ promised'[g] = promised[g] + (IF g = h THEN 1 ELSE 0) /\ UNCHANGED <<gift, faults>>
               /\ ~Owes(t, g)' /\ (Owes(t, g) <=> g = h)
    BY <2>6 DEF Announces, TypeOK
  <2>7. ASSUME NEW h \in Guests, Loses(t, h)
        PROVE  /\ promised'[g] = promised[g] + (IF g = h THEN 1 ELSE 0)
               /\ UNCHANGED gift /\ faults' = faults + 1
               /\ Owes(t, g)' <=> Owes(t, g)
    BY <2>7 DEF Loses, TypeOK
  <2>8. ASSUME NEW h \in Guests, TakesBack(t, h)
        PROVE  /\ gift'[g] = gift[g] - (IF g = h THEN 1 ELSE 0) /\ UNCHANGED <<promised, faults>>
               /\ ~Owes(t, g)' /\ (Owes(t, g) <=> g = h)
    BY <2>8 DEF TakesBack, TypeOK
  <2>9. ASSUME NEW h \in Guests, Issues(t, h) \/ Announces(t, h)
        PROVE  /\ Cardinality(Owing(g)') =< gift'[g]
               /\ gift'[g] =< promised'[g] + Cardinality(Owing(g)') + faults'
               /\ promised'[g] + Cardinality(Owing(g)') =< gift'[g] + faults'
    BY <2>1, <2>2, <2>5, <2>6, <2>9
  <2>10. ASSUME NEW h \in Guests, Loses(t, h) \/ TakesBack(t, h)
         PROVE  /\ Cardinality(Owing(g)') =< gift'[g]
                /\ gift'[g] =< promised'[g] + Cardinality(Owing(g)') + faults'
                /\ promised'[g] + Cardinality(Owing(g)') =< gift'[g] + faults'
    BY <2>1, <2>2, <2>7, <2>8, <2>10
  <2> QED
    BY <1>1, <2>3, <2>4, <2>9, <2>10, GiftSteps
<1>2. CASE UNCHANGED vars
  <2>1. \A g \in Guests : Owing(g)' = Owing(g)
    BY <1>2 DEF Owing, vars
  <2> QED
    BY <1>2, <2>1 DEF GiftInv, vars, data
<1> QED
  BY <1>1, <1>2 DEF Next

\* A gift is only issued where there was none, and by one task at a time.
LEMMA OneGiftPreserved ==
  ASSUME TypeOK, RunInv, TurnsInv, GiftInv, OneGiftInv, [Next]_vars
  PROVE  OneGiftInv'
<1> SUFFICES ASSUME Serial'
             PROVE  /\ \A g \in Guests : gift'[g] =< 1
                    /\ \A u \in Tasks : run'[u].pc = "issue" => gift'[GuestOf[run'[u].at]] = 0
  BY DEF OneGiftInv
<1>1. ASSUME NEW t \in Tasks, Start(t) \/ Serve(t) \/ Fails(t)
      PROVE  /\ \A g \in Guests : gift'[g] =< 1
             /\ \A u \in Tasks : run'[u].pc = "issue" => gift'[GuestOf[run'[u].at]] = 0
  <2>1. Serial /\ \A u \in Tasks : u # t => run'[u] = run[u]
    BY <1>1, LockSteps DEF Serial
  <2>2. /\ \A g \in Guests : gift[g] =< 1 /\ gift[g] \in Nat
        /\ \A u \in Tasks : run[u].pc = "issue" => gift[GuestOf[run[u].at]] = 0
    BY <2>1 DEF OneGiftInv, TypeOK
  <2>3. \A u \in Tasks : run[u].pc = "issue" => GuestOf[run[u].at] \in Guests
    BY BusyFacts DEF Holds
  <2>4. \A u \in Tasks : u # t /\ run'[u].pc = "issue" =>
          run[u].pc = "issue" /\ run'[u].at = run[u].at
    BY <2>1
  <2>5. CASE Quiet(t) \/ Drops(t) \/ \E g \in Guests : Announces(t, g) \/ Loses(t, g)
    <3>1. UNCHANGED gift /\ (run'[t].pc = "issue" => gift[GuestOf[run'[t].at]] = 0)
      BY <2>5 DEF Quiet, Drops, Announces, Loses
    <3> QED
      BY <2>2, <2>4, <3>1
  <2>6. ASSUME NEW g \in Guests, Issues(t, g)
        PROVE  /\ \A h \in Guests : gift'[h] =< 1
               /\ \A u \in Tasks : run'[u].pc = "issue" => gift'[GuestOf[run'[u].at]] = 0
    <3>1. /\ run[t].pc = "issue" /\ run'[t].pc = "send" /\ GuestOf[run[t].at] = g
          /\ gift' = [gift EXCEPT ![g] = @ + 1]
      BY <2>6 DEF Issues
    <3>2. \A u \in Tasks : run[u].pc = "issue" => u = t
      BY <2>1, <3>1, OneActive DEF Active
    <3>3. \A h \in Guests : gift'[h] = IF h = g THEN gift[h] + 1 ELSE gift[h]
      BY <3>1 DEF TypeOK
    <3>4. \A u \in Tasks : run'[u].pc # "issue"
      BY <2>4, <3>1, <3>2
    <3> QED
      BY <2>2, <3>1, <3>3, <3>4
  <2>7. ASSUME NEW g \in Guests, TakesBack(t, g)
        PROVE  /\ \A h \in Guests : gift'[h] =< 1
               /\ \A u \in Tasks : run'[u].pc = "issue" => gift'[GuestOf[run'[u].at]] = 0
    <3>1. run'[t].pc # "issue" /\ gift' = [gift EXCEPT ![g] = @ - 1] /\ Owes(t, g)
      BY <2>7 DEF TakesBack
    <3>2. \A h \in Guests : gift'[h] = IF h = g THEN gift[h] - 1 ELSE gift[h]
      BY <3>1 DEF TypeOK
    <3>3. Active(t)
      BY <3>1 DEF Owes, Active
    <3>4. \A u \in Tasks : run'[u].pc # "issue"
      BY <2>1, <2>4, <3>1, <3>3, OneActive DEF Active
    <3> QED
      BY <2>2, <3>2, <3>4
  <2> QED
    BY <1>1, <2>5, <2>6, <2>7, GiftSteps
<1>2. CASE UNCHANGED vars
  BY <1>2 DEF OneGiftInv, Serial, vars, data
<1> QED
  BY <1>1, <1>2 DEF Next

----------------------------------------------------------------------------
\* Batches only shrink after Resolve, which puts a key into them once.
LEMMA BatchPreserved ==
  ASSUME TypeOK, RunInv, BatchInv, [Next]_vars
  PROVE  BatchInv'
<1>1. ASSUME NEW t \in Engines, Start(t) \/ Serve(t) \/ Fails(t), Active(t)'
      PROVE  /\ OnePerKey(run[t].todo)'
             /\ Holds(t)' => \A c \in run'[t].todo : Key(c)' # Key(run[t].at)'
  <2>t. t \in Tasks /\ t \notin Legacy /\ UNCHANGED scenario
    BY <1>1, TasksAssumption, LockSteps DEF Tasks
  <2>a. ASSUME Active(t), run'[t].todo \subseteq run[t].todo,
               Holds(t)' => Holds(t) /\ run'[t].at = run[t].at
        PROVE  /\ OnePerKey(run[t].todo)'
               /\ Holds(t)' => \A c \in run'[t].todo : Key(c)' # Key(run[t].at)'
    BY <2>a, <2>t DEF BatchInv, OnePerKey, Key
  <2>1. CASE StartEngine(t)
    BY <2>1, <2>t, <1>1, RuleShape DEF StartEngine, Shape, Active
  <2>2. CASE SkipRule(t) \/ EndRule(t)
    BY <2>2, <2>t, <1>1, NextRuleShape DEF SkipRule, EndRule, Shape, Active
  <2>3. CASE Resolve(t)
    <3>f. PICK F \in SUBSET Cands : \E B \in Batches(EventOf(t), F) :
           run' = [run EXCEPT ![t].pc = "next", ![t].todo = B]
      BY <2>3 DEF Resolve, Found
    <3>1. PICK B \in Batches(EventOf(t), F) : run' = [run EXCEPT ![t].pc = "next", ![t].todo = B]
      BY <3>f
    <3>2. run'[t].pc = "next" /\ run'[t].todo = B
      BY <2>t, <3>1 DEF TypeOK, Run
    <3> QED
      BY <2>t, <3>2, BatchFacts DEF Holds, OnePerKey, Key
  <2>4. ASSUME NEW c \in Cands, NoConfig(t, c) \/ TakePlain(t, c) \/ TakeWithGift(t, c) \/ TakeWithoutGift(t, c)
        PROVE  /\ OnePerKey(run[t].todo)'
               /\ Holds(t)' => \A d \in run'[t].todo : Key(d)' # Key(run[t].at)'
    <3>1. run[t].pc = "next" /\ c \in run[t].todo
      BY <2>4 DEF NoConfig, TakePlain, TakeWithGift, TakeWithoutGift, Takes
    <3>2. CASE PassOver(t, c)
      BY <2>t, <3>1, <3>2, <2>a, Shapes DEF Shape, Active, Holds
    <3>3. ASSUME NEW pc \in {"issue", "send"}, NEW x \in {"main", "fallback"}, InHand(t, c, pc, x)
          PROVE  /\ OnePerKey(run[t].todo)'
                 /\ Holds(t)' => \A d \in run'[t].todo : Key(d)' # Key(run[t].at)'
      <4>0. Shape(t, pc, run[t].rule, run[t].todo \ {c}, c, run[t].fresh)
        BY <2>t, <3>3, Shapes
      <4>1. run'[t].todo = run[t].todo \ {c} /\ run'[t].at = c
        BY <4>0 DEF Shape
      <4> QED
        BY <2>t, <3>1, <4>1 DEF BatchInv, Active, OnePerKey, Key
    <3> QED
      BY <2>4, <3>2, <3>3 DEF NoConfig, TakePlain, TakeWithGift, TakeWithoutGift
  <2>5. CASE Issue(t)
    <3>1. run[t].pc = "issue" /\ run'[t].todo = run[t].todo /\ run'[t].at = run[t].at
      BY <2>5, <2>t DEF Issue, TypeOK, Run
    <3> QED
      BY <3>1, <2>a DEF Active, Holds
  <2>6. CASE IssueFails(t)
    <3>1. CASE TakeNext(t)
      BY <2>6, <2>t, <3>1, <2>a, Shapes DEF IssueFails, Shape, Active, Holds
    <3>2. CASE run' = [run EXCEPT ![t].pc = "send", ![t].text = "fallback"]
      <4>1. run[t].pc = "issue" /\ run'[t].todo = run[t].todo /\ run'[t].at = run[t].at
        BY <2>6, <2>t, <3>2 DEF IssueFails, TypeOK, Run
      <4> QED
        BY <4>1, <2>a DEF Active, Holds
    <3> QED
      BY <2>6, <3>1, <3>2 DEF IssueFails
  <2>7. CASE SendOk(t) \/ SendRefused(t) \/ AnswerLost(t)
    <3>1. run[t].pc = "send"
          /\ (TakeNext(t) \/ \E pc \in {"log", "flag", "revoke"} : Goto(t, pc))
      BY <2>7 DEF SendOk, SendRefused, AnswerLost, NotAnswered, FirstRecord
    <3> QED
      BY <2>t, <3>1, <2>a, Shapes DEF Shape, Active, Holds
  <2>8. CASE TimeLimit(t)
    <3>1. CASE run[t].fresh
      <4>1. run[t].pc = "send" /\ run'[t].todo = run[t].todo /\ run'[t].at = run[t].at
        BY <2>8, <2>t, <3>1 DEF TimeLimit, TypeOK, Run
      <4> QED
        BY <4>1, <2>a DEF Active, Holds
    <3>2. CASE ~run[t].fresh
      BY <2>8, <2>t, <3>2, <1>1, RestingShape DEF TimeLimit, Over, Shape, Active
    <3> QED
      BY <3>1, <3>2
  <2>9. CASE Revoke(t) \/ BalanceFails(t) \/ Interrupted(t)
    <3>1. run[t].pc # "idle" /\ (TakeNext(t) \/ run' = [run EXCEPT ![t] = Resting])
          /\ (TakeNext(t) => run[t].pc \in {"revoke", "send"} \/ run' = [run EXCEPT ![t] = Resting])
      BY <2>9 DEF Revoke, BalanceFails, Interrupted, Over
    <3>2. CASE run' = [run EXCEPT ![t] = Resting]
      BY <2>t, <3>2, <1>1, RestingShape DEF Shape, Active
    <3>3. CASE TakeNext(t) /\ run[t].pc \in {"revoke", "send"}
      BY <2>t, <3>3, <2>a, Shapes DEF Shape, Active, Holds
    <3> QED
      BY <3>1, <3>2, <3>3
  <2>10. CASE WriteLog(t) \/ WriteFlag(t)
    <3>1. run[t].pc \in {"log", "flag"} /\ (Recorded(t) \/ \E pc \in {"log", "flag"} : Goto(t, pc))
      BY <2>10 DEF WriteLog, WriteFlag
    <3>2. CASE Recorded(t)
      <4>1. PICK todo \in SUBSET run[t].todo : Shape(t, "next", run[t].rule, todo, None, FALSE)
        BY <2>t, <3>2, Shapes
      <4>2. run'[t].pc = "next" /\ run'[t].todo \subseteq run[t].todo
        BY <4>1 DEF Shape
      <4> QED
        BY <3>1, <4>2, <2>a DEF Active, Holds
    <3>3. CASE \E pc \in {"log", "flag"} : Goto(t, pc)
      BY <2>t, <3>1, <3>3, <2>a, Shapes DEF Shape, Active, Holds
    <3> QED
      BY <3>1, <3>2, <3>3
  <2> QED
    BY <1>1, <2>t, <2>1, <2>2, <2>3, <2>4, <2>5, <2>6, <2>7, <2>8, <2>9, <2>10
       DEF Start, StartLegacy, Serve, Fails
<1>2. ASSUME NEW t \in Tasks, Start(t) \/ Serve(t) \/ Fails(t)
      PROVE  BatchInv'
  <2>1. UNCHANGED scenario /\ \A u \in Tasks : u # t => run'[u] = run[u]
    BY <1>2, LockSteps
  <2>2. \A u \in Engines : u # t /\ Active(u)' =>
          /\ OnePerKey(run[u].todo)'
          /\ Holds(u)' => \A c \in run'[u].todo : Key(c)' # Key(run[u].at)'
    BY <2>1 DEF BatchInv, Active, Holds, OnePerKey, Key, Tasks
  <2> QED
    BY <1>1, <1>2, <2>2 DEF BatchInv
<1>3. CASE UNCHANGED vars
  BY <1>3 DEF BatchInv, Active, Holds, OnePerKey, Key, vars
<1> QED
  BY <1>2, <1>3 DEF Next

----------------------------------------------------------------------------
\* What a step of task t does to the messages and the record of a key.
Stays(t, e, k)    == sent'[e][k] = sent[e][k] /\ UNCHANGED unrecorded
Calm(t, e, k)     == /\ Stays(t, e, k)
                     /\ Intends(t, e, k)' => Intends(t, e, k)
                     /\ Known(e, k) => Known(e, k)'
                     /\ Records(t, e, k) /\ ~Known(e, k)' => Records(t, e, k)'
Plans(t, e, k)    == /\ Stays(t, e, k)
                     /\ ~Known(e, k) /\ ~Records(t, e, k) /\ ~Records(t, e, k)'
Delivers(t, e, k) == /\ sent'[e][k] = sent[e][k] + 1 /\ UNCHANGED unrecorded
                     /\ ~Records(t, e, k) /\ Records(t, e, k)'
                     /\ Intends(t, e, k) /\ ~Intends(t, e, k)'
                     /\ Known(e, k) => Known(e, k)'
Misses(t, e, k)   == /\ unrecorded' = unrecorded + 1
                     /\ \/ sent'[e][k] = sent[e][k]
                        \/ sent'[e][k] = sent[e][k] + 1 /\ ~Records(t, e, k)
                     /\ Intends(t, e, k)' => Intends(t, e, k)
                     /\ Known(e, k) => Known(e, k)'

LEMMA RepeatSteps ==
  ASSUME TypeOK, RunInv, BatchInv, NEW t \in Tasks, Start(t) \/ Serve(t) \/ Fails(t),
         NEW e \in Events, NEW k \in Keys
  PROVE  Calm(t, e, k) \/ Plans(t, e, k) \/ Delivers(t, e, k) \/ Misses(t, e, k)
<1> DEFINE Goal == Calm(t, e, k) \/ Plans(t, e, k) \/ Delivers(t, e, k) \/ Misses(t, e, k)
<1>t. UNCHANGED scenario /\ RowInv(t) /\ (t \in Engines \/ t \in Legacy) /\ (t \in Engines => t \notin Legacy)
  BY LockSteps, TasksAssumption DEF RunInv, Tasks
<1>k. \A c \in Cands : Key(c)' = Key(c)
  BY <1>t DEF Key
\* Nothing is said, nothing written.
<1>n. ASSUME UNCHANGED <<log, reminded>>
      PROVE  Known(e, k) <=> Known(e, k)'
  BY <1>t, <1>n DEF Known, StoryGifts
\* The batch shrinks, the task keeps its candidate or drops it.
<1>i. ASSUME Active(t), run'[t].rule = run[t].rule, run'[t].todo \subseteq run[t].todo,
             ~Records(t, e, k),
             run'[t].pc \in {"issue", "send"} =>
               \/ run[t].pc \in {"issue", "send"} /\ run'[t].at = run[t].at
               \/ run'[t].at \in run[t].todo
      PROVE  Intends(t, e, k)' => Intends(t, e, k)
  BY <1>i, <1>t DEF Intends, Records, On, MayWrite, EventOf, Active, Key
\* The task stops, or takes another rule.
<1>o. ASSUME run'[t].pc \in {"idle", "rule"}
      PROVE  ~Intends(t, e, k)' /\ ~Records(t, e, k)'
  BY <1>o DEF Intends, Records, On, Active
<1>c. ASSUME UNCHANGED <<log, reminded, sent, unrecorded>>, run[t].pc \notin {"log", "flag"},
             Intends(t, e, k)' => Intends(t, e, k)
      PROVE  Goal
  BY <1>c, <1>n DEF Calm, Stays, Records
<1>1. CASE StartEngine(t)
  <2>1. run'[t].pc = "rule" /\ run[t].pc = "idle"
    BY <1>1, RuleShape DEF StartEngine, MayStart, Shape
  <2> QED
    BY <1>1, <2>1, <1>o, <1>c DEF StartEngine, data
<1>2. CASE StartLegacy(t)
  <2>f. PICK F \in SUBSET Cands :
          run' = [run EXCEPT ![t] = [Resting EXCEPT !.pc = "next", !.rule = 1,
                                       !.todo = {c \in F : ~LegacySent(c)}]]
    BY <1>2 DEF StartLegacy, Found
  <2> DEFINE todo == {c \in F : ~LegacySent(c)}
  <2>1. todo \in SUBSET Cands
    OBVIOUS
  <2>2. /\ run[t].pc = "idle" /\ scenario.legacy /\ UNCHANGED <<log, reminded, sent, unrecorded>>
        /\ run' = [run EXCEPT ![t] = [Resting EXCEPT !.pc = "next", !.rule = 1, !.todo = todo]]
    BY <1>2, <2>f DEF StartLegacy, MayStart, data
  <2>3. \A c \in todo : scenario.rules[1] = e /\ Key(c) = k => ~Known(e, k)
    <3>1. \A c \in todo : ~LegacySent(c)
      OBVIOUS
    <3>2. CASE scenario.dedup = "guest"
      BY <3>1, <3>2 DEF LegacySent, Known, StoryGifts
    <3>3. CASE scenario.dedup # "guest"
      <4>1. StoryGifts
        BY <2>2, <3>3, ScenarioFacts DEF StoryGifts, Scenario
      <4>2. \A c \in todo : Key(c) = c
        BY <3>3 DEF Key
      <4> QED
        BY <3>1, <3>3, <4>1, <4>2 DEF LegacySent, Known
    <3> QED
      BY <3>2, <3>3
  <2> HIDE DEF todo
  <2>4. Shape(t, "next", 1, todo, None, FALSE)
    BY <2>1, <2>2, NextShape
  <2>5. run'[t].pc = "next" /\ run'[t].rule = 1 /\ run'[t].todo = todo
    BY <2>4 DEF Shape
  <2>6. CASE Intends(t, e, k)'
    <3>1. scenario.rules[1] = e /\ \E c \in todo : Key(c) = k
      BY <1>t, <2>1, <2>5, <2>6, <1>k DEF Intends, On, MayWrite, EventOf
    <3>2. ~Known(e, k)
      BY <2>3, <3>1
    <3> QED
      BY <2>2, <2>5, <3>2 DEF Plans, Stays, Records, On, Active
  <2>7. CASE ~Intends(t, e, k)'
    BY <2>2, <2>7, <1>c
  <2> QED
    BY <2>6, <2>7
<1>3. CASE SkipRule(t) \/ EndRule(t)
  <2>1. run'[t].pc \in {"idle", "rule"}
    BY <1>3, NextRuleShape DEF SkipRule, EndRule, Shape
  <2> QED
    BY <1>3, <2>1, <1>o, <1>c DEF SkipRule, EndRule, data
<1>4. CASE Resolve(t)
  <2>f. PICK F \in SUBSET Cands : \E B \in Batches(EventOf(t), F) :
         run' = [run EXCEPT ![t].pc = "next", ![t].todo = B]
    BY <1>4 DEF Resolve, Found
  <2>1. PICK B \in Batches(EventOf(t), F) : run' = [run EXCEPT ![t].pc = "next", ![t].todo = B]
    BY <2>f
  <2>2. run'[t].pc = "next" /\ run'[t].todo = B /\ run'[t].rule = run[t].rule
    BY <2>1 DEF TypeOK, Run
  <2>3. run[t].pc = "rule" /\ UNCHANGED <<log, reminded, sent, unrecorded>>
    BY <1>4 DEF Resolve, data
  <2>4. CASE Intends(t, e, k)'
    <3>1. EventOf(t) = e
      BY <1>t, <2>2, <2>4 DEF Intends, On, EventOf
    <3>2. PICK c \in B : Key(c) = k /\ c \in Cands
      BY <2>2, <2>4, <1>k, BatchFacts DEF Intends, MayWrite
    <3>3. ~AlreadySent(e, c)
      BY <3>1, <3>2, BatchFacts
    <3>4. ~Known(e, k)
      BY <3>2, <3>3, ScenarioFacts DEF AlreadySent, Known, StoryGifts, Key, TypeOK
    <3> QED
      BY <2>2, <2>3, <3>4 DEF Plans, Stays, Records, On, Active
  <2>5. CASE ~Intends(t, e, k)'
    BY <2>3, <2>5, <1>c
  <2> QED
    BY <2>4, <2>5
<1>5. ASSUME NEW c \in Cands, NoConfig(t, c) \/ TakePlain(t, c) \/ TakeWithGift(t, c) \/ TakeWithoutGift(t, c)
      PROVE  Goal
  <2>1. /\ run[t].pc = "next" /\ c \in run[t].todo
        /\ UNCHANGED <<log, reminded, sent, unrecorded>>
    BY <1>5 DEF NoConfig, TakePlain, TakeWithGift, TakeWithoutGift, Takes, data
  <2>2. ~Records(t, e, k) /\ Active(t)
    BY <2>1 DEF Records, Active
  <2>3. CASE PassOver(t, c)
    <3>1. run'[t].pc = "next" /\ run'[t].rule = run[t].rule /\ run'[t].todo \subseteq run[t].todo
      BY <2>1, <2>3, Shapes DEF Shape
    <3> QED
      BY <2>1, <2>2, <3>1, <1>i, <1>c
  <2>4. ASSUME NEW pc \in {"issue", "send"}, NEW x \in {"main", "fallback"}, InHand(t, c, pc, x)
        PROVE  Goal
    <3>1. Shape(t, pc, run[t].rule, run[t].todo \ {c}, c, run[t].fresh)
      BY <2>4, Shapes
    <3>2. run'[t].rule = run[t].rule /\ run'[t].todo \subseteq run[t].todo /\ run'[t].at \in run[t].todo
      BY <2>1, <3>1 DEF Shape
    <3> QED
      BY <2>1, <2>2, <3>2, <1>i, <1>c
  <2> QED
    BY <1>5, <2>3, <2>4 DEF NoConfig, TakePlain, TakeWithGift, TakeWithoutGift
\* The task goes on with its batch: candidate and what it owes are dropped.
<1>d. ASSUME Active(t), TakeNext(t) \/ run' = [run EXCEPT ![t] = Resting], ~Records(t, e, k)
      PROVE  Intends(t, e, k)' => Intends(t, e, k)
  <2>1. CASE TakeNext(t)
    <3>1. run'[t].pc = "next" /\ run'[t].rule = run[t].rule /\ run'[t].todo = run[t].todo
      BY <2>1, Shapes DEF Shape
    <3> QED
      BY <1>d, <3>1, <1>i
  <2>2. CASE run' = [run EXCEPT ![t] = Resting]
    <3>1. run'[t].pc = "idle"
      BY <2>2, RestingShape DEF Shape
    <3> QED
      BY <3>1, <1>o
  <2> QED
    BY <1>d, <2>1, <2>2
<1>6. CASE Issue(t) \/ IssueFails(t)
  <2>1. run[t].pc = "issue" /\ UNCHANGED <<log, reminded, sent, unrecorded>>
    BY <1>6 DEF Issue, IssueFails, data
  <2>2. ~Records(t, e, k) /\ Active(t)
    BY <2>1 DEF Records, Active
  <2>3. CASE TakeNext(t)
    BY <2>1, <2>2, <2>3, <1>d, <1>c
  <2>4. CASE ~TakeNext(t)
    <3>1. run'[t].rule = run[t].rule /\ run'[t].todo = run[t].todo /\ run'[t].at = run[t].at
      BY <1>6, <2>4 DEF Issue, IssueFails, TypeOK, Run
    <3> QED
      BY <2>1, <2>2, <3>1, <1>i, <1>c
  <2> QED
    BY <2>3, <2>4
\* A message goes out.
<1>s. ASSUME run[t].pc = "send"
      PROVE  /\ ~Records(t, e, k) /\ Active(t)
             /\ Delivered(t) => sent'[e][k] = IF EventOf(t) = e /\ Key(run[t].at) = k
                                              THEN sent[e][k] + 1 ELSE sent[e][k]
  <2>1. ~Records(t, e, k) /\ Active(t)
    BY <1>s DEF Records, Active
  <2>2. EventOf(t) \in Events /\ Key(run[t].at) \in Keys
    BY <1>s, DeliveredTypes
  <2>3. ASSUME Delivered(t)
        PROVE  sent'[e][k] = IF EventOf(t) = e /\ Key(run[t].at) = k THEN sent[e][k] + 1 ELSE sent[e][k]
    BY <2>2, <2>3 DEF Delivered, Add, TypeOK
  <2> QED
    BY <2>1, <2>3
<1>a. ASSUME run[t].pc = "send", NotAnswered(t)
      PROVE  Intends(t, e, k)' => Intends(t, e, k)
  <2>1. CASE TakeNext(t)
    BY <1>a, <1>s, <2>1, <1>d
  <2>2. CASE Goto(t, "revoke")
    <3>1. run'[t].pc = "revoke" /\ run'[t].rule = run[t].rule /\ run'[t].todo = run[t].todo
      BY <2>2, Shapes DEF Shape
    <3> QED
      BY <1>a, <1>s, <3>1, <1>i
  <2> QED
    BY <1>a, <2>1, <2>2 DEF NotAnswered
<1>7. CASE SendOk(t)
  <2>1. run[t].pc = "send" /\ Delivered(t) /\ UNCHANGED <<log, reminded, unrecorded>>
    BY <1>7 DEF SendOk
  <2>2. /\ run'[t].pc \in {"log", "flag"} /\ run'[t].rule = run[t].rule
        /\ run'[t].todo = run[t].todo /\ run'[t].at = run[t].at
    BY <1>7, Shapes DEF SendOk, FirstRecord, Shape
  <2>3. run[t].at \in Cands
    BY <2>1, DeliveredTypes
  <2>4. CASE EventOf(t) = e /\ Key(run[t].at) = k
    <3>1. Intends(t, e, k)
      BY <2>1, <2>4, <1>s DEF Intends, On, MayWrite
    <3>2. Records(t, e, k)'
      BY <1>t, <2>2, <2>3, <2>4, <1>k DEF Records, On, Active, EventOf
    <3> QED
      BY <2>1, <2>4, <3>1, <3>2, <1>s, <1>n DEF Delivers, Intends
  <2>5. CASE ~(EventOf(t) = e /\ Key(run[t].at) = k)
    <3>1. Intends(t, e, k)' => Intends(t, e, k)
      BY <2>1, <2>2, <1>s, <1>i
    <3> QED
      BY <2>1, <2>5, <3>1, <1>s, <1>n DEF Calm, Stays
  <2> QED
    BY <2>4, <2>5
<1>8. CASE SendRefused(t)
  BY <1>8, <1>a, <1>c DEF SendRefused, data
<1>9. CASE AnswerLost(t)
  <2>1. /\ run[t].pc = "send" /\ Delivered(t) /\ NotAnswered(t) /\ unrecorded' = unrecorded + 1
        /\ UNCHANGED <<log, reminded>>
    BY <1>9 DEF AnswerLost
  <2> QED
    BY <2>1, <1>a, <1>s, <1>n DEF Misses
<1>10. CASE TimeLimit(t)
  <2>1. run[t].pc = "send" /\ UNCHANGED <<log, reminded>>
    BY <1>10 DEF TimeLimit
  <2>2. Intends(t, e, k)' => Intends(t, e, k)
    <3>1. CASE run[t].fresh
      <4>1. run'[t].pc = "revoke" /\ run'[t].rule = run[t].rule /\ run'[t].todo = run[t].todo
        BY <1>10, <3>1 DEF TimeLimit, TypeOK, Run
      <4> QED
        BY <2>1, <4>1, <1>s, <1>i
    <3>2. CASE ~run[t].fresh
      BY <1>10, <2>1, <3>2, <1>s, <1>d DEF TimeLimit, Over
    <3> QED
      BY <3>1, <3>2
  <2>3. CASE Delivered(t) /\ unrecorded' = unrecorded + 1
    BY <2>1, <2>2, <2>3, <1>s, <1>n DEF Misses
  <2>4. CASE UNCHANGED <<sent, promised, unrecorded>>
    BY <2>1, <2>2, <2>4, <1>c
  <2> QED
    BY <1>10, <2>3, <2>4 DEF TimeLimit
<1>11. CASE Revoke(t)
  <2>1. run[t].pc = "revoke" /\ UNCHANGED <<log, reminded, sent, unrecorded>> /\ Active(t) /\ ~Records(t, e, k)
    BY <1>11 DEF Revoke, Active, Records
  <2> QED
    BY <1>11, <2>1, <1>c, <1>d DEF Revoke, Over
<1>12. CASE BalanceFails(t)
  BY <1>12, <1>s, <1>c, <1>d DEF BalanceFails, data
<1>13. CASE Interrupted(t)
  <2>1. /\ UNCHANGED <<log, reminded, sent>> /\ run'[t].pc = "idle"
        /\ unrecorded' = IF run[t].pc \in {"log", "flag"} THEN unrecorded + 1 ELSE unrecorded
    BY <1>13, RestingShape DEF Interrupted, Over, data, Shape
  <2> QED
    BY <2>1, <1>o, <1>n, <1>c DEF Misses
\* Going on after a record: the batch has no candidate of this key any more.
<1>r. ASSUME run[t].pc \in {"log", "flag"}, Recorded(t)
      PROVE  Intends(t, e, k)' => Intends(t, e, k)
  <2>1. PICK todo \in SUBSET run[t].todo :
          /\ Shape(t, "next", run[t].rule, todo, None, FALSE)
          /\ t \notin Engines => todo = run[t].todo \ Twins(run[t].at)
    BY <1>r, Shapes
  <2>2. run'[t].pc = "next" /\ run'[t].rule = run[t].rule /\ run'[t].todo = todo
    BY <2>1 DEF Shape
  <2>3. CASE ~Records(t, e, k)
    BY <1>r, <2>2, <2>3, <1>i DEF Active
  <2>4. CASE Records(t, e, k)
    <3>1. \A c \in todo : c \in Cands /\ Key(c) # k
      <4>1. todo \subseteq Cands
        BY DEF TypeOK, Run
      <4>2. CASE t \in Engines
        BY <1>r, <2>4, <4>1, <4>2 DEF BatchInv, Active, Holds, Records
      <4>3. CASE t \notin Engines
        BY <2>1, <2>4, <4>1, <4>3 DEF Twins, Records
      <4> QED
        BY <4>2, <4>3
    <3> QED
      BY <2>2, <3>1, <1>k DEF Intends, MayWrite
  <2> QED
    BY <2>3, <2>4
<1>u. ASSUME run[t].pc \in {"log", "flag"}, NEW pc \in {"log", "flag"}, Goto(t, pc)
      PROVE  (Intends(t, e, k)' => Intends(t, e, k)) /\ (Records(t, e, k) => Records(t, e, k)')
  <2>1. /\ run'[t].pc = pc /\ run'[t].rule = run[t].rule /\ run'[t].todo = run[t].todo
        /\ run'[t].at = run[t].at
    BY <1>u, Shapes DEF Shape
  <2> QED
    BY <1>u, <1>t, <2>1 DEF Intends, Records, On, MayWrite, EventOf, Active, Key
<1>14. CASE WriteLog(t)
  <2>1. /\ run[t].pc = "log" /\ log' = Add(log, EventOf(t), RowKey(t))
        /\ UNCHANGED <<reminded, sent, unrecorded>>
    BY <1>14 DEF WriteLog
  <2>2. EventOf(t) \in Events /\ RowKey(t) \in Keys /\ run[t].at \in Cands /\ Key(run[t].at) \in Keys
    BY <2>1, BusyFacts, CandsAssumption DEF RowKey, Holds, Keys
  <2>3. \A f \in Events, j \in Keys :
          log[f][j] \in Nat /\ (log'[f][j] = log[f][j] \/ log'[f][j] = log[f][j] + 1)
    BY <2>1, <2>2 DEF Add, TypeOK
  <2>4. Known(e, k) => Known(e, k)'
    <3>1. log[e][k] \in Nat /\ (log'[e][k] = log[e][k] \/ log'[e][k] = log[e][k] + 1)
      BY <2>3
    <3>2. log[e][k] > 0 => log'[e][k] > 0
      BY <3>1
    <3> QED
      BY <1>t, <2>1, <3>2 DEF Known, StoryGifts
  <2>5. CASE StoryGifts /\ IsEngine(t)
    BY <1>14, <2>1, <2>4, <2>5, <1>u DEF WriteLog, Calm, Stays
  <2>6. CASE ~(StoryGifts /\ IsEngine(t))
    <3>1. Recorded(t)
      BY <1>14, <2>6 DEF WriteLog
    <3>2. ASSUME Records(t, e, k)
          PROVE  Known(e, k)'
      <4>1. EventOf(t) = e /\ Key(run[t].at) = k
        BY <3>2 DEF Records, On
      <4>2. CASE StoryGifts
        <5>1. run[t].at \in reminded /\ Key(run[t].at) = run[t].at
          BY <1>t, <2>1, <2>6, <4>2 DEF IsEngine, RowInv, StoryGifts, Key
        <5> QED
          BY <1>t, <2>1, <4>1, <4>2, <5>1 DEF Known, StoryGifts
      <4>3. CASE ~StoryGifts
        <5>1. RowKey(t) = k
          <6>1. t \in Legacy => scenario.legacy
            BY <1>t, <2>1 DEF RowInv
          <6>2. scenario.dedup \in {"guest", "entity"}
            BY ScenarioFacts DEF Scenario
          <6> QED
            BY <1>t, <4>1, <4>3, <6>1, <6>2 DEF RowKey, IsEngine, StoryGifts, Key
        <5>2. log'[e][k] = log[e][k] + 1
          BY <2>1, <4>1, <5>1 DEF Add, TypeOK
        <5> QED
          BY <1>t, <2>3, <4>3, <5>2 DEF Known, StoryGifts
      <4> QED
        BY <4>2, <4>3
    <3> QED
      BY <2>1, <2>4, <3>1, <3>2, <1>r DEF Calm, Stays
  <2> QED
    BY <2>5, <2>6
<1>15. CASE WriteFlag(t)
  <2>1. /\ run[t].pc = "flag" /\ reminded' = reminded \cup {run[t].at}
        /\ UNCHANGED <<log, sent, unrecorded>>
    BY <1>15 DEF WriteFlag
  <2>2. Known(e, k) => Known(e, k)'
    BY <1>t, <2>1 DEF Known, StoryGifts
  <2>3. Records(t, e, k) => Known(e, k)'
    <3>1. StoryGifts /\ Key(run[t].at) = run[t].at
      BY <1>t, <2>1 DEF RowInv, StoryGifts, Key
    <3> QED
      BY <1>t, <2>1, <3>1 DEF Records, StoryGifts, Known
  <2>4. Intends(t, e, k)' => Intends(t, e, k)
    BY <1>15, <2>1, <1>r, <1>u DEF WriteFlag
  <2> QED
    BY <2>1, <2>2, <2>3, <2>4 DEF Calm, Stays
<1> QED
  BY <1>1, <1>2, <1>3, <1>4, <1>5, <1>6, <1>7, <1>8, <1>9, <1>10, <1>11, <1>12, <1>13, <1>14, <1>15
     DEF Start, Serve, Fails

----------------------------------------------------------------------------
\* How many tasks of a set T that are in R or S, when only one may be.
LEMMA OneOrAll ==
  ASSUME NEW T \in SUBSET Tasks, NEW R \in SUBSET T, NEW S \in SUBSET T, R \cap S = {},
         NEW one \in BOOLEAN, one => \A t, u \in R \cup S : t = u
  PROVE  /\ Cardinality(R) \in Nat /\ Cardinality(S) \in Nat /\ Cardinality(T) \in Nat
         /\ Cardinality(R) + Cardinality(S) =< IF one THEN 1 ELSE Cardinality(T)
<1>1. IsFiniteSet(T) /\ IsFiniteSet(R) /\ IsFiniteSet(S) /\ IsFiniteSet(R \cup S)
  BY TasksAssumption, FS_Subset
<1>2. Cardinality(R) \in Nat /\ Cardinality(S) \in Nat /\ Cardinality(T) \in Nat
  BY <1>1, FS_CardinalityType
<1>3. Cardinality(R \cup S) = Cardinality(R) + Cardinality(S)
  BY <1>1, <1>2, FS_Union, FS_EmptySet
<1>4. Cardinality(R \cup S) =< Cardinality(T)
  BY <1>1, FS_Subset
<1>5. ASSUME one
      PROVE  Cardinality(R \cup S) =< 1
  <2>1. CASE R \cup S = {}
    BY <2>1, FS_EmptySet
  <2>2. CASE R \cup S # {}
    <3>1. PICK t \in R \cup S : R \cup S = {t}
      BY <1>5, <2>2
    <3> QED
      BY <3>1, FS_Singleton
  <2> QED
    BY <2>1, <2>2
<1> QED
  BY <1>2, <1>3, <1>4, <1>5

\* Those who record a key and those who may still write to it.
LEMMA BusyWithKey ==
  ASSUME TypeOK, RunInv, TurnsInv, NEW e \in Events, NEW k \in Keys
  PROVE  /\ Cardinality(Recording(e, k)) \in Nat /\ Cardinality(Intending(e, k)) \in Nat
         /\ Cardinality(scenario.tasks) \in Nat
         /\ Cardinality(Recording(e, k)) + Cardinality(Intending(e, k)) =< Bound
<1> DEFINE R == Recording(e, k)
           I == Intending(e, k)
<1>1. scenario.tasks \in SUBSET Tasks
  BY ScenarioFacts DEF Scenario
<1>2. \A t \in R \cup I : t \in Tasks /\ Active(t)
  BY DEF Recording, Intending, Records, Intends, On
<1>3. R \in SUBSET scenario.tasks /\ I \in SUBSET scenario.tasks
  BY <1>2, BusyFacts DEF Active
<1>4. R \cap I = {}
  BY DEF Recording, Intending, Intends
<1>5. Serial => \A t, u \in R \cup I : t = u
  BY <1>2, OneActive
<1>6. Serial \in BOOLEAN
  BY DEF Serial
<1> HIDE DEF R, I
<1>7. /\ Cardinality(R) \in Nat /\ Cardinality(I) \in Nat /\ Cardinality(scenario.tasks) \in Nat
      /\ Cardinality(R) + Cardinality(I) =< IF Serial THEN 1 ELSE Cardinality(scenario.tasks)
  BY <1>1, <1>3, <1>4, <1>5, <1>6, OneOrAll
<1> QED
  BY <1>7 DEF R, I, Bound

KeysBounded == \A e \in Events, k \in Keys :
                 Cardinality(Recording(e, k)) + Cardinality(Intending(e, k)) =< Bound

LEMMA KeysAreBounded == TypeOK /\ RunInv /\ TurnsInv => KeysBounded
  BY BusyWithKey DEF KeysBounded

\* Those tasks, before and after a step of task t.
LEMMA KeyCounts ==
  ASSUME NEW t \in Tasks, \A u \in Tasks : u # t => run'[u] = run[u], UNCHANGED scenario,
         NEW e, NEW k
  PROVE  \E a \in Nat, b \in Nat :
           /\ Cardinality(Recording(e, k)) = a + (IF Records(t, e, k) THEN 1 ELSE 0)
           /\ Cardinality(Recording(e, k)') = a + (IF Records(t, e, k)' THEN 1 ELSE 0)
           /\ Cardinality(Intending(e, k)) = b + (IF Intends(t, e, k) THEN 1 ELSE 0)
           /\ Cardinality(Intending(e, k)') = b + (IF Intends(t, e, k)' THEN 1 ELSE 0)
<1>1. \A u \in Tasks : u # t => /\ Records(u, e, k)' <=> Records(u, e, k)
                                /\ Intends(u, e, k)' <=> Intends(u, e, k)
  BY DEF Records, Intends, On, MayWrite, Active, EventOf, Key
<1>2. /\ Recording(e, k) \in SUBSET Tasks /\ Recording(e, k)' \in SUBSET Tasks
      /\ Recording(e, k) \ {t} = Recording(e, k)' \ {t}
      /\ t \in Recording(e, k) <=> Records(t, e, k)
      /\ t \in Recording(e, k)' <=> Records(t, e, k)'
  BY <1>1 DEF Recording
<1>3. /\ Intending(e, k) \in SUBSET Tasks /\ Intending(e, k)' \in SUBSET Tasks
      /\ Intending(e, k) \ {t} = Intending(e, k)' \ {t}
      /\ t \in Intending(e, k) <=> Intends(t, e, k)
      /\ t \in Intending(e, k)' <=> Intends(t, e, k)'
  BY <1>1 DEF Intending
<1>4. PICK a \in Nat : /\ Cardinality(Recording(e, k)) = a + (IF Records(t, e, k) THEN 1 ELSE 0)
                       /\ Cardinality(Recording(e, k)') = a + (IF Records(t, e, k)' THEN 1 ELSE 0)
  BY <1>2, CountMoves
<1>5. PICK b \in Nat : /\ Cardinality(Intending(e, k)) = b + (IF Intends(t, e, k) THEN 1 ELSE 0)
                       /\ Cardinality(Intending(e, k)') = b + (IF Intends(t, e, k)' THEN 1 ELSE 0)
  BY <1>3, CountMoves
<1> QED
  BY <1>4, <1>5

\* The messages of a key never exceed those on record, those about to be and
\* those left unrecorded; nor, with those still to come, the tasks that run.
LEMMA RepeatPreserved ==
  ASSUME TypeOK, RunInv, TurnsInv, BatchInv, RepeatInv, TypeOK', RunInv', TurnsInv', [Next]_vars
  PROVE  RepeatInv'
<1>1. ASSUME NEW t \in Tasks, Start(t) \/ Serve(t) \/ Fails(t)
      PROVE  RepeatInv'
  <2> SUFFICES ASSUME NEW e \in Events, NEW k \in Keys
               PROVE  /\ ~Known(e, k)' => sent'[e][k] =< Cardinality(Recording(e, k)') + unrecorded'
                      /\ sent'[e][k] + Cardinality(Intending(e, k)') =< Bound' + unrecorded'
    BY DEF RepeatInv
  <2>1. UNCHANGED scenario /\ \A u \in Tasks : u # t => run'[u] = run[u]
    BY <1>1, LockSteps
  <2>2. Bound' = Bound
    BY <2>1 DEF Bound, Serial
  <2>3. /\ Bound \in Int
        /\ Cardinality(Recording(e, k)') + Cardinality(Intending(e, k)') =< Bound
    <3>1. Bound \in Int
      BY BusyWithKey DEF Bound
    <3>2. KeysBounded'
      BY KeysAreBounded, PTL
    <3>3. Cardinality(Recording(e, k)') + Cardinality(Intending(e, k)') =< Bound'
      BY <3>2 DEF KeysBounded
    <3> QED
      BY <2>2, <3>1, <3>3
  <2>4. /\ sent[e][k] \in Nat /\ unrecorded \in Nat
        /\ ~Known(e, k) => sent[e][k] =< Cardinality(Recording(e, k)) + unrecorded
        /\ sent[e][k] + Cardinality(Intending(e, k)) =< Bound + unrecorded
    BY DEF RepeatInv, TypeOK
  <2>5. PICK a \in Nat, b \in Nat :
           /\ Cardinality(Recording(e, k)) = a + (IF Records(t, e, k) THEN 1 ELSE 0)
           /\ Cardinality(Recording(e, k)') = a + (IF Records(t, e, k)' THEN 1 ELSE 0)
           /\ Cardinality(Intending(e, k)) = b + (IF Intends(t, e, k) THEN 1 ELSE 0)
           /\ Cardinality(Intending(e, k)') = b + (IF Intends(t, e, k)' THEN 1 ELSE 0)
    BY <2>1, KeyCounts
  <2>6. CASE Calm(t, e, k)
    BY <2>2, <2>3, <2>4, <2>5, <2>6 DEF Calm, Stays
  <2>7. CASE Plans(t, e, k)
    BY <2>2, <2>3, <2>4, <2>5, <2>7 DEF Plans, Stays
  <2>8. CASE Delivers(t, e, k)
    BY <2>2, <2>3, <2>4, <2>5, <2>8 DEF Delivers
  <2>9. CASE Misses(t, e, k)
    BY <2>2, <2>3, <2>4, <2>5, <2>9 DEF Misses
  <2> QED
    BY <1>1, <2>6, <2>7, <2>8, <2>9, RepeatSteps
<1>2. CASE UNCHANGED vars
  <2>1. \A e \in Events, k \in Keys : /\ Known(e, k)' <=> Known(e, k)
                                      /\ Recording(e, k)' = Recording(e, k)
                                      /\ Intending(e, k)' = Intending(e, k)
    BY <1>2 DEF Known, StoryGifts, Recording, Intending, Records, Intends, On, MayWrite,
                Active, EventOf, Key, vars, data
  <2>2. Bound' = Bound /\ sent' = sent /\ unrecorded' = unrecorded
    BY <1>2 DEF Bound, Serial, vars, data
  <2> QED
    BY <2>1, <2>2 DEF RepeatInv
<1> QED
  BY <1>1, <1>2 DEF Next

----------------------------------------------------------------------------
IInv == TypeOK /\ RunInv /\ TurnsInv /\ GiftInv /\ OneGiftInv /\ BatchInv /\ RepeatInv

LEMMA InitInv == Init => IInv
<1> SUFFICES ASSUME Init
             PROVE  IInv
  OBVIOUS
<1>1. /\ Resting \in Run /\ Resting.pc = "idle" /\ Resting.todo = {} /\ Resting.at = None
      /\ ~Resting.fresh
  BY DEF Resting, Run
<1>2. \A t \in Tasks : run[t] = Resting
  BY DEF Init
<1>3. scenario \in Scenario /\ scenario.faults \in Nat
  BY ScenariosAssumption DEF Init, Scenario
<1>4. TypeOK
  BY <1>1, <1>3 DEF Init, TypeOK
<1>5. RunInv
  BY <1>1, <1>2 DEF RunInv, RowInv, Holds
<1>6. TurnsInv /\ BatchInv
  BY <1>1, <1>2 DEF TurnsInv, BatchInv, Active, Tasks
<1>7. \A g \in Guests : Owing(g) = {}
  BY <1>1, <1>2 DEF Owing
<1>8. GiftInv
  BY <1>7, FS_EmptySet DEF GiftInv, Init
<1>9. OneGiftInv
  BY <1>1, <1>2 DEF OneGiftInv, Init
<1>10. \A e \in Events, k \in Keys : Recording(e, k) = {} /\ Intending(e, k) = {}
  BY <1>1, <1>2 DEF Recording, Intending, Records, Intends, On, Active
<1>11. RepeatInv
  <2> SUFFICES ASSUME NEW e \in Events, NEW k \in Keys
               PROVE  /\ sent[e][k] =< Cardinality(Recording(e, k)) + unrecorded
                      /\ sent[e][k] + Cardinality(Intending(e, k)) =< Bound + unrecorded
    BY DEF RepeatInv
  <2>1. sent[e][k] = 0 /\ unrecorded = 0
    BY DEF Init
  <2>2. Cardinality(Recording(e, k)) = 0 /\ Cardinality(Intending(e, k)) = 0
    BY <1>10, FS_EmptySet
  <2>3. Bound \in Nat
    BY <1>4, <1>5, <1>6, BusyWithKey DEF Bound
  <2> QED
    BY <2>1, <2>2, <2>3
<1> QED
  BY <1>4, <1>5, <1>6, <1>8, <1>9, <1>11 DEF IInv

LEMMA Inductive == Spec => []IInv
<1>1. IInv /\ [Next]_vars => IInv'
  <2> SUFFICES ASSUME IInv, [Next]_vars
               PROVE  IInv'
    OBVIOUS
  <2>1. TypeOK' /\ RunInv'
    BY TypePreserved DEF IInv
  <2>2. TurnsInv'
    BY TurnsPreserved DEF IInv
  <2>3. GiftInv' /\ OneGiftInv'
    BY GiftPreserved, OneGiftPreserved DEF IInv
  <2>4. BatchInv'
    BY BatchPreserved DEF IInv
  <2>5. RepeatInv'
    BY <2>1, <2>2, RepeatPreserved DEF IInv
  <2> QED
    BY <2>1, <2>2, <2>3, <2>4, <2>5 DEF IInv
<1> QED
  BY <1>1, InitInv, PTL DEF Spec

\* The log, the messages, the gifts and what each task is doing keep their types,
\* whatever tasks overlap, fail or are cut short: revoke_issued_item never takes
\* a gift that is not there.
THEOREM TypeCorrect == Spec => []TypeOK
<1>1. IInv => TypeOK
  BY DEF IInv
<1> QED
  BY <1>1, Inductive, PTL

\* AutoBroadcastLog: for any rules, profiles, gifts and tasks, a key of an event
\* gets at most one message more than were left unrecorded, or one per task where
\* tasks overlap without the pilot's lock. The reading of the log in
\* resolve_recipients and the row after the message are all that stands against it.
THEOREM RepeatsNeedOverlapHolds == Spec => []RepeatsNeedOverlap
<1>1. IInv => RepeatsNeedOverlap
  <2> SUFFICES ASSUME IInv, NEW e \in Events, NEW k \in Keys
               PROVE  sent[e][k] =< (IF Serial THEN 1 ELSE Cardinality(scenario.tasks)) + unrecorded
    BY DEF RepeatsNeedOverlap
  <2>1. /\ sent[e][k] \in Nat /\ unrecorded \in Nat
        /\ sent[e][k] + Cardinality(Intending(e, k)) =< Bound + unrecorded
    BY DEF IInv, TypeOK, RepeatInv
  <2>2. Cardinality(Intending(e, k)) \in Nat /\ Bound \in Nat
    BY BusyWithKey DEF IInv, Bound
  <2>3. sent[e][k] =< Bound + unrecorded
    BY <2>1, <2>2
  <2> QED
    BY <2>3 DEF Bound
<1> QED
  BY <1>1, Inductive, PTL

\* run_rule, 15.6: when no task has the guest in hand, every RF gift without a
\* message and every message without a gift is owed to a fault of its own, for
\* any number of tasks, gifts and faults; refused messages cost nothing.
THEOREM GiftsAnnounced == Spec => []GiftsAreAnnounced
<1>1. IInv => GiftsAreAnnounced
  <2> SUFFICES ASSUME IInv, NEW g \in Guests, \A t \in Tasks : ~Handles(t, g)
               PROVE  gift[g] =< promised[g] + faults /\ promised[g] =< gift[g] + faults
    BY DEF GiftsAreAnnounced
  <2>1. Owing(g) = {}
    <3> SUFFICES ASSUME NEW t \in Owing(g)
                 PROVE  FALSE
      OBVIOUS
    <3>1. t \in Tasks /\ run[t].pc \in {"send", "revoke"} /\ GuestOf[run[t].at] = g
      BY DEF Owing
    <3>2. run[t].at # None
      BY <3>1 DEF IInv, RunInv, RowInv, Holds
    <3> QED
      BY <3>1, <3>2 DEF Handles
  <2>2. Cardinality(Owing(g)) = 0
    BY <2>1, FS_EmptySet
  <2>3. gift[g] \in Nat /\ promised[g] \in Nat /\ faults \in Nat
    BY ScenarioFacts DEF IInv, TypeOK, Scenario
  <2> QED
    BY <2>2, <2>3 DEF IInv, GiftInv
<1> QED
  BY <1>1, Inductive, PTL

\* _prepare_rf_gift: where tasks do not overlap, or the pilot's lock keeps them
\* apart, no guest has two RF gifts, whatever the rules and however they fail.
THEOREM OneGift == Spec => []OneGiftAtATime
<1>1. IInv => OneGiftAtATime
  BY DEF IInv, OneGiftInv, OneGiftAtATime
<1> QED
  BY <1>1, Inductive, PTL

----------------------------------------------------------------------------
(* The daily limit and the weekly cap.                                     *)

\* Messages, or rows, of the guests in G.
Tally(f, G) == Total([g \in Guests |-> CountFor(f, g)], G)

\* What an engine has read the log for and not sent yet, and a message it is about
\* to record, if its event counts.
Counts(t)    == EventOf(t) \in Counted
ToSend(t, G) == IF Counts(t)
                THEN Cardinality({c \in run[t].todo : GuestOf[c] \in G})
                       + (IF run[t].pc \in {"issue", "send"} /\ GuestOf[run[t].at] \in G THEN 1 ELSE 0)
                ELSE 0
ToLog(t, G)  == Counts(t) /\ run[t].pc = "log" /\ GuestOf[run[t].at] \in G

\* The engine that works keeps to the n messages that G may get, those it still
\* has to send included; the log has all of them but one in hand and the lost ones.
Quota(G, n) ==
  /\ Tally(sent, G) =< n + unrecorded
  /\ \A t \in Engines : Active(t) => Tally(sent, G) + ToSend(t, G) =< n + unrecorded
  /\ Tally(sent, G) =< Tally(log, G) + unrecorded + (IF \E t \in Engines : ToLog(t, G) THEN 1 ELSE 0)

CandsOf(g) == {c \in Cands : GuestOf[c] = g}
Cap(g)     == scenario.cap + (IF scenario.dedup = "guest" THEN 0 ELSE Cardinality(CandsOf(g)) - 1)

LimitInv ==
  /\ scenario.limit > 0 => Quota(Guests, scenario.limit)
  /\ scenario.cap > 0 /\ ~scenario.legacy /\ Serial => \A g \in Guests : Quota({g}, Cap(g))

LEMMA FiniteData ==
  /\ IsFiniteSet(Guests) /\ IsFiniteSet(Cands) /\ Counted \subseteq Events /\ IsFiniteSet(Counted)
  /\ \A g : KeysOf(g) \subseteq Keys /\ IsFiniteSet(KeysOf(g))
<1>1. Guests \subseteq Keys /\ Cands \subseteq Keys /\ IsFiniteSet(Keys) /\ IsFiniteSet(Events)
  BY CandsAssumption DEF Keys
<1>2. \A g : KeysOf(g) \subseteq Keys
  BY DEF KeysOf
<1>3. Counted \subseteq Events
  BY DEF Counted
<1> QED
  BY <1>1, <1>2, <1>3, FS_Subset

\* The counts of the model as sums.
LEMMA CountIsTotal ==
  ASSUME NEW f \in [Events -> [Keys -> Nat]]
  PROVE  /\ \A g : CountFor(f, g) = Total([e \in Counted |-> Total(f[e], KeysOf(g))], Counted)
         /\ \A g : CountFor(f, g) \in Nat
         /\ CountAll(f) = Tally(f, Guests)
         /\ \A g \in Guests : Tally(f, {g}) = CountFor(f, g)
         /\ \A G \in SUBSET Guests : Tally(f, G) \in Nat
<1>1. \A g : CountFor(f, g) = Total([e \in Counted |-> Total(f[e], KeysOf(g))], Counted)
  BY SumIsTotal DEF CountFor
<1>2. ASSUME NEW g
      PROVE  CountFor(f, g) \in Nat
  <2> DEFINE h == [e \in Counted |-> Total(f[e], KeysOf(g))]
  <2>1. ASSUME NEW e \in Counted
        PROVE  h[e] \in Nat
    <3>1. \A k \in KeysOf(g) : f[e][k] \in Nat
      BY FiniteData
    <3>2. Total(f[e], KeysOf(g)) \in Nat
      BY <3>1, FiniteData, TotalNat
    <3> QED
      BY <3>2
  <2> HIDE DEF h
  <2>2. Total(h, Counted) \in Nat
    BY <2>1, FiniteData, TotalNat
  <2> QED
    BY <1>1, <2>2 DEF h
<1>3. CountAll(f) = Tally(f, Guests)
  BY SumIsTotal DEF CountAll, Tally
<1> DEFINE F == [g \in Guests |-> CountFor(f, g)]
<1>4. \A g \in Guests : F[g] = CountFor(f, g) /\ F[g] \in Nat
  BY <1>2
<1>5. \A G : Tally(f, G) = Total(F, G)
  BY DEF Tally
<1> HIDE DEF F
<1>6. ASSUME NEW g \in Guests
      PROVE  Tally(f, {g}) = CountFor(f, g)
  <2>1. Total(F, {g}) = F[First({g})] + Total(F, {g} \ {First({g})}) /\ IsFiniteSet({g})
    <3>1. IsFiniteSet({g}) /\ {g} # {}
      BY FS_Singleton
    <3> QED
      BY <3>1, TotalStep
  <2>2. First({g}) = g /\ {g} \ {First({g})} = {}
    BY FirstIn
  <2>3. Total(F, {}) = 0
    BY FS_EmptySet, TotalZero
  <2> QED
    BY <1>4, <1>5, <2>1, <2>2, <2>3
<1>7. ASSUME NEW G \in SUBSET Guests
      PROVE  Tally(f, G) \in Nat
  <2>1. IsFiniteSet(G) /\ \A g \in G : F[g] \in Nat
    BY <1>4, FiniteData, FS_Subset
  <2> QED
    BY <1>5, <2>1, TotalNat
<1> QED
  BY <1>1, <1>2, <1>3, <1>6, <1>7

LEMMA TotalOneMore ==
  ASSUME NEW S, IsFiniteSet(S), NEW f, \A y \in S : f[y] \in Int, NEW g, NEW x,
         \A y \in S : g[y] = IF y = x THEN f[y] + 1 ELSE f[y]
  PROVE  Total(g, S) = Total(f, S) + (IF x \in S THEN 1 ELSE 0)
<1> DEFINE d == 1
<1>1. d \in Int /\ \A y \in S : g[y] = IF y = x THEN f[y] + d ELSE f[y]
  OBVIOUS
<1> HIDE DEF d
<1>2. Total(g, S) = Total(f, S) + (IF x \in S THEN d ELSE 0)
  BY <1>1, TotalChange
<1> QED
  BY <1>2 DEF d

\* One more message, or row, counts for its guest.
LEMMA TallyAdd ==
  ASSUME NEW f \in [Events -> [Keys -> Nat]], NEW e \in Events, NEW c \in Cands,
         NEW G \in SUBSET Guests
  PROVE  Tally(Add(f, e, Key(c)), G) = Tally(f, G) + (IF e \in Counted /\ GuestOf[c] \in G THEN 1 ELSE 0)
<1> DEFINE h == Add(f, e, Key(c))
<1>1. Key(c) \in Keys /\ GuestOf[c] \in Guests
  BY CandsAssumption DEF Key, Keys
<1>2. h \in [Events -> [Keys -> Nat]]
  BY <1>1 DEF Add
<1>3. \A x \in Events : x # e => h[x] = f[x]
  BY DEF Add
<1>4. \A k \in Keys : h[e][k] = IF k = Key(c) THEN f[e][k] + 1 ELSE f[e][k]
  BY <1>1 DEF Add
<1> HIDE DEF h
<1>5. ASSUME NEW g \in Guests
      PROVE  CountFor(h, g) = IF e \in Counted /\ g = GuestOf[c] THEN CountFor(f, g) + 1 ELSE CountFor(f, g)
  <2> DEFINE A == [x \in Counted |-> Total(f[x], KeysOf(g))]
             B == [x \in Counted |-> Total(h[x], KeysOf(g))]
             d == IF Key(c) \in KeysOf(g) THEN 1 ELSE 0
  <2>1. Key(c) \in KeysOf(g) <=> g = GuestOf[c]
    BY <1>1, CandsAssumption DEF Key, KeysOf
  <2>2. Total(h[e], KeysOf(g)) = Total(f[e], KeysOf(g)) + d
    <3>1. \A k \in KeysOf(g) : f[e][k] \in Int
      BY FiniteData
    <3>2. \A k \in KeysOf(g) : h[e][k] = IF k = Key(c) THEN f[e][k] + 1 ELSE f[e][k]
      BY <1>4, FiniteData
    <3> QED
      BY <3>1, <3>2, FiniteData, TotalOneMore
  <2>3. \A x \in Counted : A[x] \in Int
    <3> SUFFICES ASSUME NEW x \in Counted
                 PROVE  Total(f[x], KeysOf(g)) \in Int
      OBVIOUS
    <3>1. \A k \in KeysOf(g) : f[x][k] \in Int
      BY FiniteData
    <3> QED
      BY <3>1, FiniteData, TotalType
  <2>4. d \in Int
    OBVIOUS
  <2>5. \A x \in Counted : B[x] = IF x = e THEN A[x] + d ELSE A[x]
    BY <1>3, <2>2, FiniteData
  <2>6. CountFor(f, g) = Total(A, Counted) /\ CountFor(h, g) = Total(B, Counted) /\ CountFor(f, g) \in Nat
    BY <1>2, CountIsTotal
  <2> HIDE DEF A, B, d
  <2>7. Total(B, Counted) = Total(A, Counted) + (IF e \in Counted THEN d ELSE 0)
    BY <2>3, <2>4, <2>5, FiniteData, TotalChange
  <2> QED
    BY <2>1, <2>6, <2>7 DEF d
<1> DEFINE C == [g \in Guests |-> CountFor(f, g)]
           D == [g \in Guests |-> CountFor(h, g)]
<1>6. \A g \in Guests : C[g] \in Int /\ D[g] = IF e \in Counted /\ g = GuestOf[c] THEN C[g] + 1 ELSE C[g]
  BY <1>5, CountIsTotal
<1>7. Tally(f, G) = Total(C, G) /\ Tally(h, G) = Total(D, G)
  BY DEF Tally
<1> HIDE DEF C, D
<1>8. Total(D, G) = Total(C, G) + (IF e \in Counted /\ GuestOf[c] \in G THEN 1 ELSE 0)
  <2>1. IsFiniteSet(G) /\ \A g \in G : C[g] \in Int
    BY <1>6, FiniteData, FS_Subset
  <2>2. CASE e \in Counted
    <3>1. \A g \in G : D[g] = IF g = GuestOf[c] THEN C[g] + 1 ELSE C[g]
      BY <1>6, <2>2
    <3>2. Total(D, G) = Total(C, G) + (IF GuestOf[c] \in G THEN 1 ELSE 0)
      BY <2>1, <3>1, TotalOneMore
    <3> QED
      BY <2>2, <3>2
  <2>3. CASE e \notin Counted
    <3>1. \A g \in Guests : D[g] = C[g]
      BY <1>6, <2>3
    <3>3. Total(D, G) = Total(C, G)
      BY <2>1, <3>1, TotalSame
    <3>4. Total(C, G) \in Int
      BY <2>1, TotalType
    <3> QED
      BY <2>3, <3>3, <3>4
  <2> QED
    BY <2>2, <2>3
<1> QED
  BY <1>7, <1>8 DEF h

LEMMA TallyZero ==
  ASSUME NEW f, \A e \in Events : f[e] = [k \in Keys |-> 0], f \in [Events -> [Keys -> Nat]],
         NEW G \in SUBSET Guests
  PROVE  Tally(f, G) = 0
<1>1. ASSUME NEW g \in Guests
      PROVE  CountFor(f, g) = 0
  <2> DEFINE h == [e \in Counted |-> Total(f[e], KeysOf(g))]
  <2>1. ASSUME NEW e \in Counted
        PROVE  h[e] = 0
    <3>1. \A k \in KeysOf(g) : f[e][k] = 0
      BY FiniteData
    <3>2. Total(f[e], KeysOf(g)) = 0
      BY <3>1, FiniteData, TotalZero
    <3> QED
      BY <3>2
  <2>2. CountFor(f, g) = Total(h, Counted)
    BY CountIsTotal
  <2> HIDE DEF h
  <2> QED
    BY <2>1, <2>2, FiniteData, TotalZero
<1> DEFINE F == [g \in Guests |-> CountFor(f, g)]
<1>2. IsFiniteSet(G) /\ \A g \in G : F[g] = 0
  BY <1>1, FiniteData, FS_Subset
<1> HIDE DEF F
<1>3. Total(F, G) = 0
  BY <1>2, TotalZero
<1> QED
  BY <1>3 DEF Tally, F

----------------------------------------------------------------------------
\* What a step of engine t does to the messages of G.
Keeps(t, G) ==
  /\ Active(t)' => Active(t) /\ Tally(sent', G) + ToSend(t, G)' + unrecorded
                                  =< Tally(sent, G) + ToSend(t, G) + unrecorded'
  /\ Tally(sent', G) + unrecorded =< Tally(sent, G) + unrecorded' \/ Active(t)'
  /\ Tally(sent', G) + Tally(log, G) + unrecorded + (IF ToLog(t, G) THEN 1 ELSE 0)
       =< Tally(sent, G) + Tally(log', G) + unrecorded' + (IF ToLog(t, G)' THEN 1 ELSE 0)

\* Those of G in a batch.
Waiting(B, G) == {c \in B : GuestOf[c] \in G}

LEMMA WaitingFacts ==
  ASSUME NEW B \in SUBSET Cands, NEW G
  PROVE  /\ Cardinality(Waiting(B, G)) \in Nat
         /\ \A A \in SUBSET B : /\ Cardinality(Waiting(A, G)) \in Nat
                                /\ Cardinality(Waiting(A, G)) =< Cardinality(Waiting(B, G))
         /\ \A c \in B : Cardinality(Waiting(B \ {c}, G)) + (IF GuestOf[c] \in G THEN 1 ELSE 0)
                           = Cardinality(Waiting(B, G))
<1>1. \A A \in SUBSET B : IsFiniteSet(Waiting(A, G)) /\ Waiting(A, G) \subseteq Waiting(B, G)
  BY FiniteData, FS_Subset DEF Waiting
<1>2. \A A \in SUBSET B : Cardinality(Waiting(A, G)) \in Nat
  BY <1>1, FS_CardinalityType
<1>3. IsFiniteSet(Waiting(B, G)) /\ Cardinality(Waiting(B, G)) \in Nat
  BY <1>1, <1>2
<1>4. ASSUME NEW c \in B
      PROVE  Cardinality(Waiting(B \ {c}, G)) + (IF GuestOf[c] \in G THEN 1 ELSE 0)
               = Cardinality(Waiting(B, G))
  <2>1. CASE GuestOf[c] \in G
    <3>1. Waiting(B \ {c}, G) = Waiting(B, G) \ {c} /\ c \in Waiting(B, G)
      BY <2>1 DEF Waiting
    <3>2. Cardinality(Waiting(B, G) \ {c}) = Cardinality(Waiting(B, G)) - 1
      BY <1>3, <3>1, FS_RemoveElement
    <3>3. Cardinality(Waiting(B \ {c}, G)) = Cardinality(Waiting(B, G)) - 1
      BY <3>1, <3>2
    <3>4. (IF GuestOf[c] \in G THEN 1 ELSE 0) = 1
      BY <2>1
    <3> QED
      BY <1>3, <3>3, <3>4
  <2>2. CASE GuestOf[c] \notin G
    <3>1. Waiting(B \ {c}, G) = Waiting(B, G)
      BY <2>2 DEF Waiting
    <3> QED
      BY <1>2, <2>2, <3>1
  <2> QED
    BY <2>1, <2>2
<1> QED
  BY <1>1, <1>2, <1>3, <1>4, FS_Subset

\* What is left to send, by pc.
LEMMA ToSendFacts ==
  ASSUME TypeOK, NEW t \in Tasks, NEW G
  PROVE  /\ ToSend(t, G) \in Nat
         /\ Cardinality(Waiting(run[t].todo, G)) \in Nat
         /\ Counts(t) => ToSend(t, G) = Cardinality(Waiting(run[t].todo, G))
              + (IF run[t].pc \in {"issue", "send"} /\ GuestOf[run[t].at] \in G THEN 1 ELSE 0)
         /\ ~Counts(t) => ToSend(t, G) = 0
<1>1. run[t].todo \in SUBSET Cands
  BY DEF TypeOK, Run
<1>2. Cardinality(Waiting(run[t].todo, G)) \in Nat
  BY <1>1, WaitingFacts
<1> QED
  BY <1>2 DEF ToSend, Waiting

\* Fewer of the batch, and nobody in hand who was not.
LEMMA Sending ==
  ASSUME TypeOK, TypeOK', NEW t \in Tasks, NEW G, run'[t].todo \subseteq run[t].todo,
         UNCHANGED scenario, run'[t].rule = run[t].rule,
         run'[t].pc \in {"issue", "send"} => run[t].pc \in {"issue", "send"} /\ run'[t].at = run[t].at
  PROVE  /\ ToSend(t, G) \in Nat /\ ToSend(t, G)' \in Nat /\ (Counts(t)' <=> Counts(t))
         /\ ToSend(t, G)' =< ToSend(t, G)
         /\ run[t].pc \in {"issue", "send"} /\ run'[t].pc \notin {"issue", "send"} =>
              ToSend(t, G)' + (IF Counts(t) /\ GuestOf[run[t].at] \in G THEN 1 ELSE 0) =< ToSend(t, G)
<1> DEFINE w == Cardinality(Waiting(run[t].todo, G))
           v == Cardinality(Waiting(run'[t].todo, G))
           held(r) == IF r.pc \in {"issue", "send"} /\ GuestOf[r.at] \in G THEN 1 ELSE 0
<1>1. run[t].todo \in SUBSET Cands /\ run'[t].todo \in SUBSET run[t].todo
  BY DEF TypeOK, Run
<1>2. w \in Nat /\ v \in Nat /\ v =< w
  BY <1>1, WaitingFacts
<1>c. Counts(t)' <=> Counts(t)
  BY DEF Counts, EventOf
<1>3. /\ ToSend(t, G) = IF Counts(t) THEN w + held(run[t]) ELSE 0
      /\ ToSend(t, G)' = IF Counts(t) THEN v + held(run'[t]) ELSE 0
  BY <1>c DEF ToSend, Waiting
<1>4. held(run[t]) \in {0, 1} /\ held(run'[t]) \in {0, 1} /\ held(run'[t]) =< held(run[t])
  OBVIOUS
<1>5. run[t].pc \in {"issue", "send"} /\ run'[t].pc \notin {"issue", "send"} =>
        held(run'[t]) = 0 /\ held(run[t]) = IF GuestOf[run[t].at] \in G THEN 1 ELSE 0
  OBVIOUS
<1> HIDE DEF w, v, held
<1> QED
  BY <1>c, <1>2, <1>3, <1>4, <1>5

\* One of the batch is taken in hand.
LEMMA TakingOne ==
  ASSUME TypeOK, TypeOK', NEW t \in Tasks, NEW G, NEW c \in run[t].todo, run[t].pc = "next",
         UNCHANGED scenario, run'[t].rule = run[t].rule,
         run'[t].todo = run[t].todo \ {c}, run'[t].at = c, run'[t].pc \in {"issue", "send"}
  PROVE  ToSend(t, G)' = ToSend(t, G) /\ ToSend(t, G) \in Nat
<1> DEFINE w == Cardinality(Waiting(run[t].todo, G))
           v == Cardinality(Waiting(run[t].todo \ {c}, G))
<1>1. run[t].todo \in SUBSET Cands
  BY DEF TypeOK, Run
<1>2. w \in Nat /\ v + (IF GuestOf[c] \in G THEN 1 ELSE 0) = w
  BY <1>1, WaitingFacts
<1>c. Counts(t)' <=> Counts(t)
  BY DEF Counts, EventOf
<1>3. Counts(t) => /\ ToSend(t, G) = w + 0
                   /\ ToSend(t, G)' = v + (IF GuestOf[c] \in G THEN 1 ELSE 0)
  BY <1>c DEF ToSend, Waiting
<1>4. ~Counts(t) => ToSend(t, G) = 0 /\ ToSend(t, G)' = 0
  BY <1>c DEF ToSend
<1> QED
  BY <1>2, <1>3, <1>4

LEMMA TallyTypes ==
  ASSUME TypeOK, TypeOK', NEW G \in SUBSET Guests
  PROVE  /\ Tally(sent, G) \in Nat /\ Tally(sent', G) \in Nat
         /\ Tally(log, G) \in Nat /\ Tally(log', G) \in Nat
         /\ unrecorded \in Nat /\ unrecorded' \in Nat
  BY CountIsTotal DEF TypeOK

\* Nothing is sent and nothing recorded; perhaps the record of nobody in G is missed.
LEMMA QuietKeeps ==
  ASSUME TypeOK, TypeOK', NEW t \in Tasks, NEW G \in SUBSET Guests,
         UNCHANGED <<sent, log, scenario>>, unrecorded' >= unrecorded, ~ToLog(t, G),
         Active(t)' => /\ Active(t) /\ run'[t].todo \subseteq run[t].todo
                       /\ run'[t].rule = run[t].rule
                       /\ run'[t].pc \in {"issue", "send"} =>
                            run[t].pc \in {"issue", "send"} /\ run'[t].at = run[t].at
  PROVE  Keeps(t, G)
<1>1. Active(t)' => /\ ToSend(t, G) \in Nat /\ ToSend(t, G)' \in Nat
                    /\ ToSend(t, G)' =< ToSend(t, G)
  BY Sending
<1>2. Tally(sent', G) = Tally(sent, G) /\ Tally(log', G) = Tally(log, G)
  OBVIOUS
<1>3. Active(t)' => Tally(sent', G) + ToSend(t, G)' + unrecorded
                      =< Tally(sent, G) + ToSend(t, G) + unrecorded'
  BY <1>1, <1>2, TallyTypes
<1>4. /\ Tally(sent', G) + unrecorded =< Tally(sent, G) + unrecorded'
      /\ Tally(sent', G) + Tally(log, G) + unrecorded
           =< Tally(sent, G) + Tally(log', G) + unrecorded'
  BY <1>2, TallyTypes
<1>5. Tally(sent, G) + Tally(log', G) + unrecorded' + 1 >= Tally(sent, G) + Tally(log', G) + unrecorded'
      /\ Tally(sent', G) + Tally(log, G) + unrecorded \in Int
  BY TallyTypes
<1> QED
  BY <1>3, <1>4, <1>5, TallyTypes DEF Keeps

\* Every step of an engine but Resolve, where nothing of the older task runs.
LEMMA LimitSteps ==
  ASSUME TypeOK, RunInv, TypeOK', RunInv', ~scenario.legacy, NEW t \in Engines,
         Start(t) \/ Serve(t) \/ Fails(t), ~Resolve(t), NEW G \in SUBSET Guests
  PROVE  Keeps(t, G)
<1>t. t \in Tasks /\ t \notin Legacy /\ ~StoryGifts /\ IsEngine(t) /\ unrecorded \in Nat
  BY TasksAssumption DEF Tasks, StoryGifts, IsEngine, TypeOK
<1>s. UNCHANGED scenario
  BY <1>t, LockSteps
<1>f. FirstRecord(t) = "log"
  BY <1>t DEF FirstRecord
<1>q. ASSUME UNCHANGED <<sent, log, unrecorded>>, run[t].pc # "log",
             Active(t)' => /\ Active(t) /\ run'[t].todo \subseteq run[t].todo
                           /\ run'[t].rule = run[t].rule
                           /\ run'[t].pc \in {"issue", "send"} =>
                                run[t].pc \in {"issue", "send"} /\ run'[t].at = run[t].at
      PROVE  Keeps(t, G)
  BY <1>q, <1>s, <1>t, QuietKeeps DEF ToLog
<1>1. CASE StartEngine(t)
  BY <1>1, <1>t, <1>q, RuleShape DEF StartEngine, MayStart, Shape, Active, data
<1>2. CASE SkipRule(t) \/ EndRule(t)
  <2>1. run[t].pc # "log" /\ NextRule(t) /\ UNCHANGED <<sent, log, unrecorded>>
    BY <1>2 DEF SkipRule, EndRule, data
  <2>2. ~Active(t)'
    BY <1>t, <2>1, NextRuleShape DEF Shape, Active
  <2> QED
    BY <2>1, <2>2, <1>q
<1>3. ASSUME NEW c \in Cands,
             NoConfig(t, c) \/ TakePlain(t, c) \/ TakeWithGift(t, c) \/ TakeWithoutGift(t, c)
      PROVE  Keeps(t, G)
  <2>1. run[t].pc = "next" /\ c \in run[t].todo /\ UNCHANGED <<sent, log, unrecorded>>
    BY <1>3 DEF NoConfig, TakePlain, TakeWithGift, TakeWithoutGift, Takes, data
  <2>2. CASE PassOver(t, c)
    BY <1>t, <2>1, <2>2, <1>q, Shapes DEF Shape, Active
  <2>3. ASSUME NEW pc \in {"issue", "send"}, NEW x \in {"main", "fallback"}, InHand(t, c, pc, x)
        PROVE  Keeps(t, G)
    <3>0. Shape(t, pc, run[t].rule, run[t].todo \ {c}, c, run[t].fresh)
      BY <1>t, <2>3, Shapes
    <3>1. /\ run'[t].pc = pc /\ run'[t].todo = run[t].todo \ {c} /\ run'[t].at = c
          /\ run'[t].rule = run[t].rule
      BY <3>0 DEF Shape
    <3>2. ToSend(t, G)' = ToSend(t, G) /\ ToSend(t, G) \in Nat
      BY <1>s, <1>t, <2>1, <3>1, TakingOne
    <3>3. Active(t) /\ ~ToLog(t, G) /\ ~ToLog(t, G)'
      BY <2>1, <3>1 DEF Active, ToLog
    <3>4. Tally(sent', G) = Tally(sent, G) /\ Tally(log', G) = Tally(log, G) /\ unrecorded' = unrecorded
      BY <2>1
    <3>5. Tally(sent, G) \in Nat /\ Tally(log, G) \in Nat
      BY TallyTypes
    <3> QED
      BY <1>t, <3>2, <3>3, <3>4, <3>5 DEF Keeps
  <2> QED
    BY <1>3, <2>2, <2>3 DEF NoConfig, TakePlain, TakeWithGift, TakeWithoutGift
<1>4. CASE Issue(t)
  <2>1. /\ run[t].pc = "issue" /\ run'[t].pc = "send" /\ run'[t].todo = run[t].todo
        /\ run'[t].at = run[t].at /\ run'[t].rule = run[t].rule /\ UNCHANGED <<sent, log, unrecorded>>
    BY <1>4, <1>t DEF Issue, TypeOK, Run
  <2> QED
    BY <2>1, <1>q DEF Active
<1>5. CASE IssueFails(t)
  <2>1. run[t].pc = "issue" /\ UNCHANGED <<sent, log, unrecorded>>
    BY <1>5 DEF IssueFails, data
  <2>2. CASE TakeNext(t)
    BY <2>1, <2>2, <1>t, <1>q, Shapes DEF Shape, Active
  <2>3. CASE run' = [run EXCEPT ![t].pc = "send", ![t].text = "fallback"]
    <3>1. run'[t].todo = run[t].todo /\ run'[t].at = run[t].at /\ run'[t].rule = run[t].rule
      BY <1>t, <2>3 DEF TypeOK, Run
    <3> QED
      BY <2>1, <3>1, <1>q DEF Active
  <2> QED
    BY <1>5, <2>2, <2>3 DEF IssueFails
<1>6. CASE BalanceFails(t) \/ SendRefused(t) \/ Revoke(t)
  <2>1. run[t].pc \in {"send", "revoke"} /\ UNCHANGED <<sent, log, unrecorded>>
    BY <1>6 DEF BalanceFails, SendRefused, Revoke, data
  <2>2. TakeNext(t) \/ Goto(t, "revoke") \/ run' = [run EXCEPT ![t] = Resting]
    BY <1>6 DEF BalanceFails, SendRefused, NotAnswered, Revoke, Over
  <2>3. CASE TakeNext(t)
    BY <2>1, <2>3, <1>t, <1>q, Shapes DEF Shape, Active
  <2>4. CASE Goto(t, "revoke")
    BY <2>1, <2>4, <1>t, <1>q, Shapes DEF Shape, Active
  <2>5. CASE run' = [run EXCEPT ![t] = Resting]
    BY <2>1, <2>5, <1>t, <1>q, Shapes DEF Shape, Active
  <2> QED
    BY <2>2, <2>3, <2>4, <2>5
\* The message reaches the guest, with a row to follow or without.
<1>d. ASSUME run[t].pc = "send", Delivered(t), UNCHANGED log,
             \/ run'[t].pc = "log" /\ run'[t].at = run[t].at /\ unrecorded' = unrecorded
             \/ run'[t].pc \notin {"issue", "send"} /\ unrecorded' = unrecorded + 1,
             Active(t)' => run'[t].todo \subseteq run[t].todo /\ run'[t].rule = run[t].rule
      PROVE  Keeps(t, G)
  <2> DEFINE d == IF Counts(t) /\ GuestOf[run[t].at] \in G THEN 1 ELSE 0
  <2>1. run[t].at \in Cands /\ EventOf(t) \in Events
    BY <1>t, <1>d, DeliveredTypes
  <2>2. Tally(sent', G) = Tally(sent, G) + d
    <3>1. sent \in [Events -> [Keys -> Nat]] /\ sent' = Add(sent, EventOf(t), Key(run[t].at))
      BY <1>d DEF TypeOK, Delivered
    <3> QED
      BY <2>1, <3>1, TallyAdd DEF Counts
  <2>3. Active(t)' => /\ ToSend(t, G) \in Nat /\ ToSend(t, G)' \in Nat
                      /\ ToSend(t, G)' + d =< ToSend(t, G) /\ (Counts(t)' <=> Counts(t))
    BY <1>s, <1>t, <1>d, Sending
  <2>4. Active(t) /\ ~ToLog(t, G) /\ Tally(log', G) = Tally(log, G)
    BY <1>d DEF Active, ToLog
  <2>5. \/ Active(t)' /\ unrecorded' = unrecorded /\ (ToLog(t, G)' <=> d = 1)
        \/ unrecorded' = unrecorded + 1
    BY <1>d, <2>3 DEF Active, ToLog
  <2>6. d \in {0, 1} /\ Tally(sent, G) \in Nat /\ Tally(log, G) \in Nat
    BY TallyTypes
  <2> HIDE DEF d
  <2>7. CASE Active(t)' /\ unrecorded' = unrecorded /\ (ToLog(t, G)' <=> d = 1)
    BY <1>t, <2>2, <2>3, <2>4, <2>6, <2>7 DEF Keeps
  <2>8. CASE unrecorded' = unrecorded + 1
    BY <1>t, <2>2, <2>3, <2>4, <2>6, <2>8 DEF Keeps
  <2> QED
    BY <2>5, <2>7, <2>8
<1>7. CASE SendOk(t)
  <2>1. run[t].pc = "send" /\ Delivered(t) /\ Goto(t, "log") /\ UNCHANGED <<log, unrecorded>>
    BY <1>7, <1>f DEF SendOk
  <2>2. Shape(t, "log", run[t].rule, run[t].todo, run[t].at, run[t].fresh)
    BY <1>t, <2>1, Shapes
  <2> QED
    BY <2>1, <2>2, <1>d DEF Shape
<1>8. CASE AnswerLost(t)
  <2>1. /\ run[t].pc = "send" /\ Delivered(t) /\ UNCHANGED log /\ unrecorded' = unrecorded + 1
        /\ (TakeNext(t) \/ Goto(t, "revoke"))
    BY <1>8 DEF AnswerLost, NotAnswered
  <2>2. /\ run'[t].pc \in {"next", "revoke"} /\ run'[t].todo = run[t].todo
        /\ run'[t].rule = run[t].rule
    BY <1>t, <2>1, Shapes DEF Shape
  <2> QED
    BY <2>1, <2>2, <1>d
<1>9. CASE TimeLimit(t)
  <2>1. /\ run[t].pc = "send" /\ UNCHANGED log
        /\ \/ Delivered(t) /\ unrecorded' = unrecorded + 1
           \/ UNCHANGED <<sent, unrecorded>>
    BY <1>9 DEF TimeLimit
  <2>2. \/ run'[t].pc = "revoke" /\ run'[t].todo = run[t].todo /\ run'[t].rule = run[t].rule
        \/ run'[t].pc = "idle"
    <3>1. CASE run[t].fresh
      BY <1>9, <1>t, <3>1 DEF TimeLimit, TypeOK, Run
    <3>2. CASE ~run[t].fresh
      BY <1>9, <1>t, <3>2, Shapes DEF TimeLimit, Over, Shape
    <3> QED
      BY <3>1, <3>2
  <2>3. CASE Delivered(t) /\ unrecorded' = unrecorded + 1
    BY <2>1, <2>2, <2>3, <1>d DEF Active
  <2>4. CASE UNCHANGED <<sent, unrecorded>>
    BY <2>1, <2>2, <2>4, <1>q DEF Active
  <2> QED
    BY <2>1, <2>3, <2>4
<1>10. CASE WriteLog(t)
  <2> DEFINE d == IF Counts(t) /\ GuestOf[run[t].at] \in G THEN 1 ELSE 0
  <2>1. /\ run[t].pc = "log" /\ log' = Add(log, EventOf(t), Key(run[t].at)) /\ Recorded(t)
        /\ UNCHANGED <<sent, unrecorded>>
    BY <1>10, <1>t DEF WriteLog, RowKey
  <2>2. run[t].at \in Cands /\ EventOf(t) \in Events /\ log \in [Events -> [Keys -> Nat]]
    BY <1>t, <2>1, BusyFacts DEF Holds, TypeOK
  <2>3. Tally(log', G) = Tally(log, G) + d
    BY <2>1, <2>2, TallyAdd DEF Counts
  <2>4. PICK todo \in SUBSET run[t].todo : Shape(t, "next", run[t].rule, todo, None, FALSE)
    BY <1>t, <2>1, Shapes
  <2>5. run'[t].pc = "next" /\ run'[t].todo \subseteq run[t].todo /\ run'[t].rule = run[t].rule
    BY <2>4 DEF Shape
  <2>6. ToSend(t, G) \in Nat /\ ToSend(t, G)' \in Nat /\ ToSend(t, G)' =< ToSend(t, G)
    BY <1>s, <1>t, <2>5, Sending
  <2>7. Active(t) /\ ~ToLog(t, G)' /\ (ToLog(t, G) <=> d = 1) /\ Tally(sent', G) = Tally(sent, G)
    BY <2>1, <2>5 DEF Active, ToLog
  <2>8. d \in {0, 1} /\ Tally(sent, G) \in Nat /\ Tally(log, G) \in Nat /\ unrecorded' = unrecorded
    BY <2>1, TallyTypes
  <2> HIDE DEF d
  <2> QED
    BY <1>t, <2>3, <2>6, <2>7, <2>8 DEF Keeps
<1>11. ~WriteFlag(t)
  BY <1>t DEF WriteFlag, RunInv, RowInv
<1>12. CASE Interrupted(t)
  <2>1. ~Active(t)' /\ ~ToLog(t, G)'
    BY <1>12, <1>t, Shapes DEF Interrupted, Over, Shape, Active, ToLog
  <2>2. Tally(sent', G) = Tally(sent, G) /\ Tally(log', G) = Tally(log, G)
    BY <1>12 DEF Interrupted, data
  <2>3. \/ unrecorded' = unrecorded + 1
        \/ unrecorded' = unrecorded /\ ~ToLog(t, G)
    BY <1>12 DEF Interrupted, ToLog
  <2>4. Tally(sent, G) \in Nat /\ Tally(log, G) \in Nat
    BY TallyTypes
  <2> QED
    BY <1>t, <2>1, <2>2, <2>3, <2>4 DEF Keeps
<1> QED
  BY <1>t, <1>1, <1>2, <1>3, <1>4, <1>5, <1>6, <1>7, <1>8, <1>9, <1>10, <1>11, <1>12
     DEF Start, StartLegacy, Serve, Fails

\* A batch leaves room for what it sends: resolve_recipients and guard_pilot
\* count the log before they fill it.
Fits(A, G, n) == Waiting(A, G) = {} \/ Tally(log, G) + Cardinality(Waiting(A, G)) =< n

LEMMA BatchFits ==
  ASSUME TypeOK, NEW e \in Counted, NEW F \in SUBSET Cands, NEW A \in Batches(e, F)
  PROVE  /\ scenario.limit > 0 => Fits(A, Guests, scenario.limit)
         /\ scenario.cap > 0 => \A g \in Guests : Fits(A, {g}, Cap(g))
<1>1. PICK B \in SUBSET Cands : /\ \A c \in B : UnderCap(e, GuestOf[c])
                                /\ OnePerKey(B) /\ A \subseteq B
                                /\ Cardinality(A) = Slots(Cardinality(B))
  BY DEF Batches
<1>2. IsFiniteSet(A) /\ IsFiniteSet(B) /\ Cardinality(A) \in Nat /\ Cardinality(B) \in Nat
  BY <1>1, FiniteData, FS_Subset, FS_CardinalityType
<1>3. log \in [Events -> [Keys -> Nat]] /\ scenario.limit \in Nat /\ scenario.cap \in Nat
  BY ScenarioFacts DEF TypeOK, Scenario
<1>4. ASSUME scenario.limit > 0, Waiting(A, Guests) # {}
      PROVE  Tally(log, Guests) + Cardinality(Waiting(A, Guests)) =< scenario.limit
  <2> DEFINE left == scenario.limit - CountAll(log)
             room == {left, 0}
             slots == {Cardinality(B), Max(room)}
  <2>1. Tally(log, Guests) = CountAll(log) /\ CountAll(log) \in Nat
    BY <1>3, CountIsTotal
  <2>2. Waiting(A, Guests) = A
    BY <1>1, ScenarioFacts DEF Waiting
  <2>3. Cardinality(A) > 0
    BY <1>2, <1>4, <2>2, FS_EmptySet
  <2>4. Cardinality(A) = Min(slots)
    BY <1>1, <1>4 DEF Slots
  <2>5. left \in Int
    BY <1>3, <2>1
  <2>6. \E x \in room : \A y \in room : x >= y
    <3> HIDE DEF left
    <3> QED
      BY <2>5
  <2>7. Max(room) \in room
    BY <2>6 DEF Max
  <2>8. Max(room) \in Int
    BY <2>5, <2>7
  <2>9. \E x \in slots : \A y \in slots : x =< y
    <3> HIDE DEF room
    <3> QED
      BY <1>2, <2>8
  <2>10. Min(slots) \in slots /\ \A y \in slots : Min(slots) =< y
    BY <2>9 DEF Min
  <2>11. Cardinality(A) =< Max(room)
    BY <2>4, <2>10
  <2>12. Max(room) = left \/ Max(room) = 0
    BY <2>7
  <2> HIDE DEF room, slots
  <2>13. Cardinality(A) =< left
    BY <1>2, <2>3, <2>5, <2>8, <2>11, <2>12
  <2> QED
    BY <1>2, <1>3, <2>1, <2>2, <2>13
<1>5. ASSUME scenario.cap > 0, NEW g \in Guests, Waiting(A, {g}) # {}
      PROVE  Tally(log, {g}) + Cardinality(Waiting(A, {g})) =< Cap(g)
  <2> DEFINE W == Waiting(A, {g})
  <2>1. W \subseteq CandsOf(g) /\ W \subseteq A
    BY <1>1 DEF Waiting, CandsOf
  <2>2. IsFiniteSet(CandsOf(g)) /\ IsFiniteSet(W)
    BY <1>2, <2>1, FiniteData, FS_Subset DEF CandsOf
  <2>3. Cardinality(CandsOf(g)) \in Nat /\ Cardinality(W) \in Nat /\ Cardinality(W) =< Cardinality(CandsOf(g))
    BY <2>1, <2>2, FS_CardinalityType, FS_Subset
  <2>4. PICK c \in W : GuestOf[c] = g /\ c \in B
    BY <1>1, <1>5 DEF Waiting
  <2>5. Tally(log, {g}) = CountFor(log, g) /\ CountFor(log, g) \in Nat
    BY <1>3, CountIsTotal
  <2>6. CountFor(log, g) < scenario.cap
    BY <1>1, <1>5, <2>4 DEF UnderCap, Counted
  <2>7. CASE scenario.dedup = "guest"
    <3>1. \A d \in W : Key(d) = Key(c)
      BY <2>4, <2>7 DEF Key, Waiting
    <3>2. W = {c}
      BY <1>1, <2>1, <2>4, <3>1 DEF OnePerKey
    <3>3. Cardinality(W) = 1
      BY <3>2, FS_Singleton
    <3>4. Cap(g) = scenario.cap
      BY <1>3, <2>7 DEF Cap
    <3> HIDE DEF W
    <3> QED
      BY <1>3, <2>5, <2>6, <3>3, <3>4 DEF W
  <2>8. CASE scenario.dedup # "guest"
    <3>1. Cap(g) = scenario.cap + (Cardinality(CandsOf(g)) - 1)
      BY <2>8 DEF Cap
    <3> HIDE DEF W
    <3>2. Tally(log, {g}) + Cardinality(W) =< Cap(g)
      BY <1>3, <2>3, <2>5, <2>6, <3>1
    <3> QED
      BY <3>2 DEF W
  <2> QED
    BY <2>7, <2>8
<1> QED
  BY <1>4, <1>5 DEF Fits

\* The quota of G survives the steps of all tasks.
LEMMA QuotaPreserved ==
  ASSUME TypeOK, RunInv, TurnsInv, TypeOK', RunInv', TurnsInv', Serial, ~scenario.legacy,
         NEW G \in SUBSET Guests, NEW n \in Int, Quota(G, n), [Next]_vars,
         \A e \in Counted, F \in SUBSET Cands : \A A \in Batches(e, F) : Fits(A, G, n)
  PROVE  /\ Tally(sent', G) =< n + unrecorded'
         /\ \A t \in Engines : Active(t)' => Tally(sent', G) + ToSend(t, G)' =< n + unrecorded'
         /\ Tally(sent', G) =< Tally(log', G) + unrecorded'
              + (IF \E t \in Engines : ToLog(t, G)' THEN 1 ELSE 0)
<1> DEFINE Some  == \E t \in Engines : ToLog(t, G)
           Some1 == \E t \in Engines : ToLog(t, G)'
           Goal  == /\ Tally(sent', G) =< n + unrecorded'
                    /\ \A t \in Engines : Active(t)' =>
                         Tally(sent', G) + ToSend(t, G)' =< n + unrecorded'
                    /\ Tally(sent', G) =< Tally(log', G) + unrecorded' + (IF Some1 THEN 1 ELSE 0)
<1>n. /\ Tally(sent, G) \in Nat /\ Tally(sent', G) \in Nat
      /\ Tally(log, G) \in Nat /\ Tally(log', G) \in Nat
      /\ unrecorded \in Nat /\ unrecorded' \in Nat
  BY TallyTypes
<1>e. Engines \subseteq Tasks
  BY DEF Tasks
<1>w. \A t \in Engines : ToSend(t, G) \in Nat /\ ToSend(t, G)' \in Nat
  <2>1. \A t \in Tasks : Cardinality(Waiting(run'[t].todo, G)) \in Nat
    BY WaitingFacts DEF TypeOK, Run
  <2>2. \A t \in Tasks : ToSend(t, G) \in Nat
    BY ToSendFacts
  <2>3. ASSUME NEW t \in Tasks
        PROVE  ToSend(t, G)' \in Nat
    <3> DEFINE d == IF run'[t].pc \in {"issue", "send"} /\ GuestOf[run'[t].at] \in G THEN 1 ELSE 0
    <3>1. ToSend(t, G)' = IF Counts(t)' THEN Cardinality(Waiting(run'[t].todo, G)) + d ELSE 0
      BY DEF ToSend, Waiting
    <3>2. d \in Nat
      OBVIOUS
    <3> HIDE DEF d
    <3> QED
      BY <2>1, <3>1, <3>2
  <2> QED
    BY <1>e, <2>2, <2>3
<1>q. /\ Tally(sent, G) =< n + unrecorded
      /\ \A t \in Engines : Active(t) => Tally(sent, G) + ToSend(t, G) =< n + unrecorded
      /\ Tally(sent, G) =< Tally(log, G) + unrecorded + (IF Some THEN 1 ELSE 0)
  BY DEF Quota
<1>l. \A t : (ToLog(t, G) => Active(t)) /\ (ToLog(t, G)' => Active(t)')
  BY DEF ToLog, Active
<1>1. ASSUME NEW t \in Tasks, Start(t) \/ Serve(t) \/ Fails(t)
      PROVE  Goal
  <2>1. UNCHANGED scenario /\ \A u \in Tasks : u # t => run'[u] = run[u]
    BY <1>1, LockSteps
  <2>2. t \in Engines
    <3> SUFFICES ASSUME t \in Legacy
                 PROVE  FALSE
      BY DEF Tasks
    <3>1. run[t].pc = "idle"
      BY DEF RunInv, RowInv
    <3>2. ~StartEngine(t) /\ ~StartLegacy(t)
      BY TasksAssumption DEF StartEngine, StartLegacy, IsEngine
    <3> QED
      BY <1>1, <3>1, <3>2
         DEF Start, Serve, Fails, SkipRule, Resolve, EndRule, NoConfig, TakePlain, TakeWithGift,
             TakeWithoutGift, Takes, Issue, IssueFails, SendOk, SendRefused, Revoke, WriteLog,
             WriteFlag, BalanceFails, AnswerLost, TimeLimit, Interrupted
  <2>3. \A u \in Engines : u # t => /\ Active(u)' <=> Active(u)
                                    /\ ToSend(u, G)' = ToSend(u, G)
                                    /\ ToLog(u, G)' <=> ToLog(u, G)
    BY <2>1, <1>e DEF Active, ToSend, ToLog, Counts, EventOf
  <2>4. \A u \in Engines : Active(u) /\ Active(t) => u = t
    BY <1>e, <2>2, OneActive
  <2>5. CASE Resolve(t)
    <3>1. /\ run[t].pc = "rule" /\ LockIsFree(t) /\ UNCHANGED <<sent, log, unrecorded>>
          /\ ~Active(t)
      BY <2>5 DEF Resolve, data, Active
    <3>2. \A u \in Engines : ~Active(u)
      <4>1. CASE ~scenario.overlap
        BY <1>e, <2>2, <3>1, <4>1 DEF TurnsInv, Active
      <4>2. CASE scenario.limit > 0
        <5>1. \A u \in Engines : u # None
          BY CandsAssumption, <1>e
        <5>2. lock = None
          BY <3>1, <4>2 DEF LockIsFree
        <5> QED
          BY <4>2, <5>1, <5>2 DEF TurnsInv
      <4> QED
        BY <4>1, <4>2 DEF Serial
    <3>3. ~Some
      BY <3>2, <1>l
    <3>f. PICK F \in SUBSET Cands : \E A \in Batches(EventOf(t), F) :
           run' = [run EXCEPT ![t].pc = "next", ![t].todo = A]
      BY <2>5 DEF Resolve, Found
    <3>4. PICK A \in Batches(EventOf(t), F) : run' = [run EXCEPT ![t].pc = "next", ![t].todo = A]
      BY <3>f
    <3>5. run'[t].pc = "next" /\ run'[t].todo = A /\ run'[t].rule = run[t].rule
      BY <1>e, <2>2, <3>4 DEF TypeOK, Run
    <3>6. A \in SUBSET Cands
      BY BatchFacts
    <3>7. Cardinality(Waiting(A, G)) \in Nat
      BY <3>6, WaitingFacts
    <3>8. /\ Counts(t)' <=> Counts(t)
          /\ ToSend(t, G)' = IF Counts(t) THEN Cardinality(Waiting(A, G)) ELSE 0
      <4>1. Counts(t)' <=> Counts(t)
        BY <2>1, <3>5 DEF Counts, EventOf
      <4> QED
        BY <3>5, <3>7, <4>1 DEF ToSend, Waiting
    <3>9. Tally(sent', G) = Tally(sent, G) /\ Tally(log', G) = Tally(log, G) /\ unrecorded' = unrecorded
      BY <3>1
    <3>10. Tally(sent, G) =< Tally(log, G) + unrecorded
      BY <1>q, <1>n, <3>3
    <3>11. Tally(sent', G) + ToSend(t, G)' =< n + unrecorded'
      <4>1. CASE Waiting(A, G) = {} \/ ~Counts(t)
        <5>1. ToSend(t, G)' = 0
          BY <3>8, <4>1, FS_EmptySet
        <5> QED
          BY <1>n, <1>q, <3>9, <5>1
      <4>2. CASE Counts(t) /\ Tally(log, G) + Cardinality(Waiting(A, G)) =< n
        BY <1>n, <3>7, <3>8, <3>9, <3>10, <4>2
      <4>3. Counts(t) => Fits(A, G, n)
        BY <3>4 DEF Counts
      <4> QED
        BY <4>1, <4>2, <4>3 DEF Fits
    <3>12. \A u \in Engines : Active(u)' => u = t
      BY <2>3, <3>2
    <3>13. Tally(sent', G) =< n + unrecorded'
      BY <1>q, <3>9
    <3>14. Tally(sent', G) =< Tally(log', G) + unrecorded' + (IF Some1 THEN 1 ELSE 0)
      <4> HIDE DEF Some1
      <4> QED
        BY <1>n, <3>9, <3>10
    <3> QED
      BY <3>11, <3>12, <3>13, <3>14
  <2>6. CASE ~Resolve(t)
    <3> DEFINE was == IF ToLog(t, G) THEN 1 ELSE 0
               now == IF ToLog(t, G)' THEN 1 ELSE 0
               old == IF Some THEN 1 ELSE 0
               new == IF Some1 THEN 1 ELSE 0
    <3>1. Keeps(t, G)
      BY <1>1, <2>2, <2>6, LimitSteps
    <3>2. /\ Active(t)' => Active(t) /\ Tally(sent', G) + ToSend(t, G)' + unrecorded
                                          =< Tally(sent, G) + ToSend(t, G) + unrecorded'
          /\ Tally(sent', G) + unrecorded =< Tally(sent, G) + unrecorded' \/ Active(t)'
          /\ Tally(sent', G) + Tally(log, G) + unrecorded + was
               =< Tally(sent, G) + Tally(log', G) + unrecorded' + now
      BY <3>1 DEF Keeps
    <3>3. was \in {0, 1} /\ now \in {0, 1} /\ old \in {0, 1} /\ new \in {0, 1}
      OBVIOUS
    <3>4. \/ old = was /\ new = now
          \/ old = 1 /\ new = 1 /\ was = 0 /\ now = 0
      <4>1. CASE \E u \in Engines : u # t /\ ToLog(u, G)
        <5>1. PICK u \in Engines : u # t /\ ToLog(u, G)
          BY <4>1
        <5>2. Active(u) /\ ~Active(t) /\ ~Active(t)'
          BY <5>1, <1>l, <2>4, <3>2
        <5>3. ~ToLog(t, G) /\ ~ToLog(t, G)' /\ ToLog(u, G)'
          BY <5>1, <5>2, <1>l, <2>3
        <5> QED
          BY <5>1, <5>3
      <4>2. CASE ~\E u \in Engines : u # t /\ ToLog(u, G)
        <5>1. (Some <=> ToLog(t, G)) /\ (Some1 <=> ToLog(t, G)')
          BY <2>2, <2>3, <4>2
        <5> QED
          BY <5>1
      <4> QED
        BY <4>1, <4>2
    <3>5. Tally(sent, G) =< Tally(log, G) + unrecorded + old
      BY <1>q
    <3> HIDE DEF was, now, old, new
    <3>6. Tally(sent', G) =< Tally(log', G) + unrecorded' + new
      <4>1. Tally(sent', G) + Tally(log, G) + unrecorded + was
              =< Tally(sent, G) + Tally(log', G) + unrecorded' + now
        BY <3>2
      <4> QED
        BY <1>n, <3>3, <3>4, <3>5, <4>1
    <3>7. Active(t)' => Tally(sent', G) + ToSend(t, G)' =< n + unrecorded'
      <4> SUFFICES ASSUME Active(t)'
                   PROVE  Tally(sent', G) + ToSend(t, G)' =< n + unrecorded'
        OBVIOUS
      <4>1. /\ Tally(sent', G) + ToSend(t, G)' + unrecorded =< Tally(sent, G) + ToSend(t, G) + unrecorded'
            /\ Tally(sent, G) + ToSend(t, G) =< n + unrecorded
            /\ ToSend(t, G) \in Nat /\ ToSend(t, G)' \in Nat
        BY <1>q, <1>w, <2>2, <3>2
      <4> QED
        BY <1>n, <4>1
    <3>8. Tally(sent', G) =< n + unrecorded'
      <4>1. CASE Active(t)'
        <5>1. Tally(sent', G) + ToSend(t, G)' =< n + unrecorded' /\ ToSend(t, G)' \in Nat
          BY <1>w, <2>2, <3>7, <4>1
        <5> QED
          BY <1>n, <5>1
      <4>2. CASE ~Active(t)'
        <5>1. Tally(sent', G) + unrecorded =< Tally(sent, G) + unrecorded'
          BY <3>2, <4>2
        <5> QED
          BY <1>n, <1>q, <5>1
      <4> QED
        BY <4>1, <4>2
    <3>9. ASSUME NEW u \in Engines, u # t, Active(u)'
          PROVE  Tally(sent', G) + ToSend(u, G)' =< n + unrecorded'
      <4>1. Active(u) /\ ~Active(t) /\ ~Active(t)'
        BY <2>3, <2>4, <3>2, <3>9
      <4>2. Tally(sent', G) + unrecorded =< Tally(sent, G) + unrecorded'
        BY <3>2, <4>1
      <4>3. /\ Tally(sent, G) + ToSend(u, G) =< n + unrecorded
            /\ ToSend(u, G) \in Nat /\ ToSend(u, G)' = ToSend(u, G)
        BY <1>q, <1>w, <2>3, <3>9, <4>1
      <4> QED
        BY <1>n, <4>2, <4>3
    <3> QED
      BY <3>6, <3>7, <3>8, <3>9 DEF new
  <2> QED
    BY <2>5, <2>6
<1>2. CASE UNCHANGED vars
  <2>1. /\ sent' = sent /\ log' = log /\ unrecorded' = unrecorded /\ run' = run
        /\ scenario' = scenario
    BY <1>2 DEF vars, data
  <2>2. \A t \in Engines : /\ Active(t)' <=> Active(t)
                           /\ ToSend(t, G)' = ToSend(t, G)
                           /\ ToLog(t, G)' <=> ToLog(t, G)
    BY <2>1 DEF Active, ToSend, ToLog, Counts, EventOf
  <2>3. Tally(sent', G) = Tally(sent, G) /\ Tally(log', G) = Tally(log, G)
    BY <2>1
  <2>4. Some1 <=> Some
    BY <2>2
  <2>5. Tally(sent', G) =< n + unrecorded'
    BY <1>q, <2>1, <2>3
  <2>6. ASSUME NEW t \in Engines, Active(t)'
        PROVE  Tally(sent', G) + ToSend(t, G)' =< n + unrecorded'
    BY <1>q, <2>1, <2>2, <2>3, <2>6
  <2> HIDE DEF Some, Some1
  <2>7. Tally(sent', G) =< Tally(log', G) + unrecorded' + (IF Some1 THEN 1 ELSE 0)
    BY <1>q, <2>1, <2>3, <2>4
  <2> QED
    BY <2>5, <2>6, <2>7 DEF Some1
<1> QED
  BY <1>1, <1>2 DEF Next

\* The limits of the scenario are kept to, before the first message and after every step.
LEMMA LimitInit ==
  ASSUME Init, TypeOK, RunInv
  PROVE  LimitInv
<1>1. \A t \in Engines : run[t].pc = "idle"
  BY DEF Init, Resting, Tasks
<1>2. /\ sent \in [Events -> [Keys -> Nat]] /\ log \in [Events -> [Keys -> Nat]]
      /\ \A e \in Events : sent[e] = [k \in Keys |-> 0] /\ log[e] = [k \in Keys |-> 0]
      /\ unrecorded = 0
  BY DEF Init
<1>3. ASSUME NEW G \in SUBSET Guests, NEW n \in Nat
      PROVE  Quota(G, n)
  <2>1. Tally(sent, G) = 0 /\ Tally(log, G) = 0
    BY <1>2, TallyZero
  <2>2. \A t \in Engines : ~Active(t) /\ ~ToLog(t, G)
    BY <1>1 DEF Active, ToLog
  <2> QED
    BY <1>2, <2>1, <2>2 DEF Quota
<1>4. scenario.limit \in Nat /\ scenario.cap \in Nat
  BY ScenarioFacts DEF Scenario
<1>5. scenario.cap > 0 => \A g \in Guests : Cap(g) \in Nat
  <2>1. \A g \in Guests : Cardinality(CandsOf(g)) \in Nat
    BY FiniteData, FS_Subset, FS_CardinalityType DEF CandsOf
  <2> QED
    BY <1>4, <2>1 DEF Cap
<1> QED
  BY <1>3, <1>4, <1>5 DEF LimitInv

LEMMA LimitPreserved ==
  ASSUME IInv, IInv', LimitInv, [Next]_vars
  PROVE  LimitInv'
<1>1. UNCHANGED scenario
  <2>1. CASE Next
    BY <2>1, LockSteps DEF IInv, Next
  <2> QED
    BY <2>1 DEF vars
<1>2. /\ TypeOK /\ RunInv /\ TurnsInv /\ TypeOK' /\ RunInv' /\ TurnsInv'
  BY DEF IInv
<1>3. scenario.limit \in Nat /\ scenario.cap \in Nat /\ (scenario.limit > 0 => ~scenario.legacy)
  BY <1>2, ScenarioFacts DEF Scenario
<1>4. Serial' <=> Serial
  BY <1>1 DEF Serial
<1>5. ASSUME scenario.limit > 0
      PROVE  Quota(Guests, scenario.limit)'
  <2>1. Serial /\ Quota(Guests, scenario.limit)
    BY <1>5 DEF Serial, LimitInv
  <2>2. \A e \in Counted, F \in SUBSET Cands : \A A \in Batches(e, F) : Fits(A, Guests, scenario.limit)
    BY <1>2, <1>5, BatchFits
  <2> DEFINE n == scenario.limit
  <2>3. n \in Int
    BY <1>3
  <2>4. n' = n
    BY <1>1
  <2> HIDE DEF n
  <2>5. /\ Tally(sent', Guests) =< n + unrecorded'
        /\ \A t \in Engines : Active(t)' => Tally(sent', Guests) + ToSend(t, Guests)' =< n + unrecorded'
        /\ Tally(sent', Guests) =< Tally(log', Guests) + unrecorded'
             + (IF \E t \in Engines : ToLog(t, Guests)' THEN 1 ELSE 0)
    BY <1>2, <1>3, <1>5, <2>1, <2>2, <2>3, QuotaPreserved DEF n
  <2> QED
    BY <2>4, <2>5 DEF Quota, n
<1>6. ASSUME scenario.cap > 0, ~scenario.legacy, Serial, NEW g \in Guests
      PROVE  Quota({g}, Cap(g))'
  <2>1. Quota({g}, Cap(g))
    BY <1>6 DEF LimitInv
  <2>2. \A e \in Counted, F \in SUBSET Cands : \A A \in Batches(e, F) : Fits(A, {g}, Cap(g))
    BY <1>2, <1>6, BatchFits
  <2> DEFINE n == Cap(g)
             G == {g}
  <2>3. n \in Int
    <3>1. Cardinality(CandsOf(g)) \in Nat
      BY FiniteData, FS_Subset, FS_CardinalityType DEF CandsOf
    <3> QED
      BY <1>3, <3>1 DEF Cap
  <2>4. n' = n /\ G \in SUBSET Guests
    BY <1>1 DEF Cap
  <2> HIDE DEF n, G
  <2>5. /\ Tally(sent', G) =< n + unrecorded'
        /\ \A t \in Engines : Active(t)' => Tally(sent', G) + ToSend(t, G)' =< n + unrecorded'
        /\ Tally(sent', G) =< Tally(log', G) + unrecorded'
             + (IF \E t \in Engines : ToLog(t, G)' THEN 1 ELSE 0)
    BY <1>2, <1>6, <2>1, <2>2, <2>3, <2>4, QuotaPreserved DEF n, G
  <2>6. G' = G
    BY DEF G
  <2> QED
    BY <2>4, <2>5, <2>6 DEF Quota, n, G
<1> QED
  BY <1>1, <1>4, <1>5, <1>6 DEF LimitInv

LEMMA LimitInvariant == Spec => [](IInv /\ LimitInv)
<1>1. Init => IInv /\ LimitInv
  BY InitInv, LimitInit DEF IInv
<1>2. IInv /\ IInv' /\ LimitInv /\ [Next]_vars => LimitInv'
  BY LimitPreserved
<1> QED
  BY <1>1, <1>2, Inductive, PTL DEF Spec

(* guard_pilot and resolve_recipients: whatever rules, gifts, overlapping     *)
(* ticks and faults there are, the messages of a day stay within the limit,   *)
(* but for those that left no row; and those of a guest within the weekly cap *)
(* where tasks take turns and the older task, which never reads it, is off;   *)
(* batches that hold several gifts of one guest exceed it by those at most.   *)
THEOREM LimitsHold == Spec => []ContactLimitsHold
<1>1. IInv /\ LimitInv => ContactLimitsHold
  <2> SUFFICES ASSUME IInv, LimitInv
               PROVE  ContactLimitsHold
    OBVIOUS
  <2>1. sent \in [Events -> [Keys -> Nat]]
    BY DEF IInv, TypeOK
  <2>2. DailyLimitHolds
    BY <2>1, CountIsTotal DEF LimitInv, Quota, DailyLimitHolds
  <2>3. ASSUME scenario.cap > 0, ~scenario.legacy, Serial, NEW g \in Guests
        PROVE  CountFor(sent, g) =< scenario.cap + unrecorded
                 + (IF scenario.dedup = "guest" THEN 0 ELSE Cardinality(CandsOf(g)) - 1)
    <3>1. CountFor(sent, g) =< Cap(g) + unrecorded
      BY <2>1, <2>3, CountIsTotal DEF LimitInv, Quota
    <3>2. /\ scenario.cap \in Nat /\ unrecorded \in Nat /\ Cardinality(CandsOf(g)) \in Nat
          /\ CountFor(sent, g) \in Nat
      BY <2>1, CountIsTotal, ScenarioFacts, FiniteData, FS_Subset, FS_CardinalityType
         DEF IInv, TypeOK, Scenario, CandsOf
    <3> QED
      BY <3>1, <3>2 DEF Cap
  <2> QED
    BY <2>2, <2>3 DEF WeeklyCapHolds, ContactLimitsHold, CandsOf
<1> QED
  BY <1>1, LimitInvariant, PTL
=============================================================================
