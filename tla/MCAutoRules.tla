---------------------------- MODULE MCAutoRules ----------------------------
(* Instances of AutoRules for TLC.                                          *)
EXTENDS AutoRules, TLC

CONSTANTS g1, g2, a1, a2, b1, e1, e2, bd, t1, t2, l1

\* The first guest has two profiles, or two gifts; the second has one.
MCGuestOf == a1 :> g1 @@ a2 :> g1 @@ b1 :> g2

Plain == [dedup |-> "guest", rules |-> <<e1, e1>>, legacy |-> FALSE, tasks |-> {t1},
          faults |-> 2, overlap |-> FALSE, limit |-> 0, cap |-> 0, gift |-> "none",
          balance |-> FALSE, steady |-> {a1, b1}, mute |-> {}]

\* Two rules of one event, then the older task.
BirthdayOrGame == [Plain EXCEPT !.legacy = TRUE, !.tasks = {t1, l1}]
\* Reminders of two gifts of one guest, by both kinds of task.
Reminders      == [Plain EXCEPT !.dedup = "entity", !.rules = <<e1>>, !.legacy = TRUE,
                                !.tasks = {t1, l1}]
\* The older task beside the engine.
Together(s)    == [s EXCEPT !.overlap = TRUE, !.rules = <<e1>>, !.faults = 1]
\* A pilot: rules of two events, gifts, two contacts a day, overlapping ticks.
Pilot          == [Plain EXCEPT !.rules = <<e1, e2>>, !.tasks = {t1, t2}, !.overlap = TRUE,
                                !.limit = 2, !.gift = "fallback", !.faults = 1]
\* Rules of two events under a cap, with gifts and text by balance.
Capped         == [Plain EXCEPT !.rules = <<e1, e2>>, !.cap = 1, !.gift = "fallback", !.balance = TRUE]
CappedGifts    == [Plain EXCEPT !.dedup = "entity", !.rules = <<e1, e2>>, !.cap = 1]
\* Birthday rules before and after one that the cap concerns.
CappedBirthday == [Plain EXCEPT !.rules = <<bd, e1, e2>>, !.cap = 1]
\* Gifts without limits, one branch without VK, in one run and in two.
Gifts          == [Plain EXCEPT !.rules = <<e1, e2>>, !.gift = "fallback", !.balance = TRUE,
                                !.mute = {b1}]
GiftsTogether  == [Gifts EXCEPT !.rules = <<e1>>, !.tasks = {t1, t2}, !.overlap = TRUE, !.gift = "skip",
                                !.faults = 1]

MCAll == {BirthdayOrGame, Reminders, Together(BirthdayOrGame), Together(Reminders),
          Pilot, Capped, CappedGifts, CappedBirthday, Gifts, GiftsTogether}
=============================================================================
