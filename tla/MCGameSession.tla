--------------------------- MODULE MCGameSession ---------------------------
(* Instances of GameSession for TLC.                                        *)
EXTENDS GameSession, TLC

CONSTANTS g1, g2, c1, c2, w1, w2, s1

\* Every order ends in the same five digits: the collisions are the hard case.
MCShortOf == [c \in Codes |-> s1]

\* Games of one guest across two days: every two-party overlap of requests.
RaceOf(g)  == [guests |-> {g}, codes |-> {c1}, days |-> 2, attempts |-> 3,
               fresh |-> 1, tokens |-> 2, orderly |-> FALSE]
\* Two guests, two orders under one short code, codes registered again.
OrdersOnly == [guests |-> {g1, g2}, codes |-> {c1, c2}, days |-> 1, attempts |-> 0,
               fresh |-> 2, tokens |-> 1, orderly |-> FALSE]

MCRaceAndOrders == {RaceOf(g1), RaceOf(g2), OrdersOnly}
MCOverlap       == {[RaceOf(g1) EXCEPT !.days = 1, !.attempts = 2]}
MCOrderly       == {[RaceOf(g1) EXCEPT !.days = 1, !.fresh = 2, !.orderly = TRUE]}

GuestSymmetry == {p @@ q : p \in Permutations(Workers), q \in Permutations(Guests)}
=============================================================================
