---------------------------- MODULE GameSession ----------------------------
(***************************************************************************)
(* The wheel game of the loyalty application and the delivery codes that   *)
(* pay for it: start_game / claim_game / reset_game_cooldown of            *)
(* game/api/services.py and register_delivery / activate_delivery of       *)
(* delivery/api/services.py, run by concurrent request workers.            *)
(*                                                                         *)
(* PostgreSQL runs every transaction READ COMMITTED, so a handler is split *)
(* where it uses, without a lock, something it read earlier.  A row lock   *)
(* (SELECT ... FOR UPDATE) held between two steps is the pc of its holder. *)
(* A handler that refuses (GameCooldownActive, InvalidToken, CodeRequired, *)
(* ...) writes nothing: its refusal is the guard that is false.            *)
(***************************************************************************)
EXTENDS Naturals, Sequences, FiniteSets

CONSTANTS
  Guests,        \* ClientBranch rows of one branch
  Codes,         \* full codes of delivery orders
  Shorts,        \* the last five digits a guest types
  ShortOf,       \* [Codes -> Shorts], several codes may share one short code
  Workers,       \* request workers of the web server
  None,          \* SQL NULL
  MaxDay,        \* bound: number of daily-code days
  Scenarios      \* bounds: who takes part, and how often (see Scenario)

ASSUME CodesAssumption == ShortOf \in [Codes -> Shorts]
ASSUME NoneAssumption  == None \notin Guests \cup Codes
ASSUME FiniteAssumption == IsFiniteSet(Codes) /\ IsFiniteSet(Workers)
ASSUME BoundsAssumption ==
  /\ MaxDay \in Nat \ {0}
  /\ Scenarios # {}
  /\ \A s \in Scenarios :
       /\ s.guests \subseteq Guests /\ s.codes \subseteq Codes
       /\ s.days \in 1..MaxDay
       /\ s.attempts \in Nat      \* games a guest may start from the cafe
       /\ s.fresh \in Nat         \* times one code is registered as a new order
       /\ s.tokens \in Nat        \* session tokens alive at once
       /\ s.orderly \in BOOLEAN   \* a guest has at most one request in flight

VARIABLES
  scenario,    \* the bounds of this behaviour, chosen in Init
  games,       \* [Guests -> Seq(Award)]: ClientAttempt rows with what each one paid
  cooldown,    \* [Guests -> STRING]: the GAME Cooldown row
  subscribed,  \* [Guests -> BOOLEAN]: community member and newsletter subscriber
  tokens,      \* signed session tokens younger than ten minutes
  day,         \* current_code_date()
  delivery,    \* [Codes -> Row]: Delivery rows
  fresh,       \* history: times register_delivery answered "new order"
  paid,        \* history: games paid by each delivery code
  req          \* [Workers -> Request]: what each worker is doing

vars == <<scenario, games, cooldown, subscribed, tokens, day, delivery, fresh, paid, req>>

----------------------------------------------------------------------------
NoCode == 0                      \* the `gc: None` of a token
Days   == 1..MaxDay              \* the code of day d is d

\* Coins of an attempt; the first attempt pays a super prize instead.
CoinReward(n) == CASE n = 2 -> 2000 [] n = 3 -> 700 [] n = 4 -> 300 [] OTHER -> 1000

Token == [guest : Guests, count : Nat, rt : {"sp", "c"}, ra : Nat,
          dl : BOOLEAN, gc : Days \cup {NoCode}]

Award == [kind : {"sp", "c"}, amount : Nat, paidBy : Codes \cup {None},
          gc : Days \cup {NoCode}, checkedOn : Days, cooling : BOOLEAN]

Row == [exists : BOOLEAN, seq : Nat, by : Guests \cup {None}, open : BOOLEAN]

Idle == [pc |-> "idle"]

StartRequest    == [pc : {"start_count", "start_token"}, guest : Guests,
                    code : Days \cup {NoCode}, delivery : BOOLEAN,
                    inDelivery : BOOLEAN, count : Nat]
ClaimRequest    == [pc : {"claim_commit"}, guest : Guests, token : Token,
                    order : Codes \cup {None}, checkedOn : Days]
ActivateRequest == [pc : {"activate_lock"}, guest : Guests, short : Shorts]
RegisterRequest == [pc : {"register_save"}, code : Codes]

Request == {Idle} \cup StartRequest \cup ClaimRequest
             \cup ActivateRequest \cup RegisterRequest

\* Only the requests of guests carry a guest: the webhook is the POS's.
GuestOf(w) == IF req[w].pc \in {"idle", "register_save"} THEN None ELSE req[w].guest

Busy(g)   == \E w \in Workers : GuestOf(w) = g
Locked(g) == \E w \in Workers : req[w].pc = "claim_commit" /\ req[w].guest = g

\* Worker w takes a new request of guest g.
Takes(w, g) ==
  /\ g \in scenario.guests
  /\ req[w] = Idle
  /\ scenario.orderly => ~Busy(g)

Finish(w) == req' = [req EXCEPT ![w] = Idle]

\* Delivery.status, and activated_deliveries.filter(expires_at__gt=now).
Status(c) == IF delivery[c].by # None THEN "activated"
             ELSE IF delivery[c].open THEN "pending" ELSE "expired"

ActiveOf(g) == {c \in Codes : delivery[c].by = g /\ delivery[c].open}

\* The rows activate_delivery looks at: activated_at IS NULL, this short code.
Unactivated(short) ==
  {c \in Codes : delivery[c].exists /\ delivery[c].by = None /\ ShortOf[c] = short}

\* ORDER BY created_at DESC, first.
Newest(S) == {c \in S : \A d \in S : delivery[d].seq <= delivery[c].seq}

HasSuper(g) == \E n \in DOMAIN games[g] : games[g][n].kind = "sp"

----------------------------------------------------------------------------
\* Workers between the first read of start_game and the signing of its token.
Starting == {w \in Workers : req[w].pc \in {"start_count", "start_token"}}

(* start_game: delivery codes and cooldown are read first ...              *)
StartGame(w, g, code, dl) ==
  LET active == ActiveOf(g) # {}
  IN  /\ Takes(w, g)
      /\ dl \/ Len(games[g]) < scenario.attempts
      /\ Cardinality(tokens) + Cardinality(Starting) < scenario.tokens
      /\ cooldown[g] = "active" => dl /\ active
      /\ req' = [req EXCEPT ![w] =
                   [pc |-> "start_count", guest |-> g, code |-> code, delivery |-> dl,
                    inDelivery |-> dl \/ active, count |-> 0]]
      /\ UNCHANGED <<scenario, games, cooldown, subscribed, tokens, day, delivery, fresh, paid>>

CountOffByOne(w) ==
  /\ req[w].pc = "start_count"
  /\ req' = [req EXCEPT ![w].pc = "start_token", ![w].count = Len(games[req[w].guest]) - 1]
  /\ UNCHANGED <<scenario, games, cooldown, subscribed, tokens, day, delivery, fresh, paid>>

(* ... then the number of attempts ...                                     *)
StartCount(w) ==
  /\ req[w].pc = "start_count"
  /\ req' = [req EXCEPT ![w].pc = "start_token", ![w].count = Len(games[req[w].guest])]
  /\ UNCHANGED <<scenario, games, cooldown, subscribed, tokens, day, delivery, fresh, paid>>

\* The token start_game signs for request s; {} when it asks for a code.
TokenFor(s) ==
  LET n     == s.count + 1
      token == [guest |-> s.guest, count |-> s.count, rt |-> "c", ra |-> CoinReward(n),
                dl |-> s.delivery, gc |-> NoCode]
  IN  CASE n = 1 /\ ~HasSuper(s.guest)   -> {[token EXCEPT !.rt = "sp", !.ra = 0]}
        [] n >= 3 /\ ~s.inDelivery       -> {t \in {[token EXCEPT !.gc = s.code]} : t.gc = day}
        [] OTHER                         -> {token}

(* ... then the super prize and the daily code; the token is signed.       *)
StartToken(w) ==
  /\ req[w].pc = "start_token"
  /\ tokens' = tokens \cup TokenFor(req[w])
  /\ Finish(w)
  /\ UNCHANGED <<scenario, games, cooldown, subscribed, day, delivery, fresh, paid>>

----------------------------------------------------------------------------
TokenFlagIgnored(t, dl) == IF dl THEN ActiveOf(t.guest) ELSE {None}

\* The order that pays for a claim; {} when claim_game needs one and has none.
PayingOrder(t, dl) == IF dl \/ t.dl THEN ActiveOf(t.guest) ELSE {None}

CodeNotRechecked(t, order) == t.count + 1 >= 3 /\ order = None => t.gc # NoCode
CodeAlwaysAsked(t, order)  == t.count + 1 >= 3 => t.gc # NoCode /\ t.gc = day

\* The daily-code gate of claim_game.
CodeAccepted(t, order) ==
  t.count + 1 >= 3 /\ order = None => t.gc # NoCode /\ t.gc = day

AnyCount(t) == TRUE

\* The attempt count in the token must be the current one.
CountMatches(t) == t.count = Len(games[t.guest])

(* claim_game takes the row lock of the guest and makes every check.  Of   *)
(* several active codes it picks the latest activated; here, any.          *)
ClaimGame(w, t, dl) ==
  /\ Takes(w, t.guest)
  /\ ~Locked(t.guest)
  /\ CountMatches(t)
  /\ \E order \in PayingOrder(t, dl) :
       /\ CodeAccepted(t, order)
       /\ subscribed[t.guest]
       /\ req' = [req EXCEPT ![w] =
                    [pc |-> "claim_commit", guest |-> t.guest, token |-> t,
                     order |-> order, checkedOn |-> day]]
  /\ UNCHANGED <<scenario, games, cooldown, subscribed, tokens, day, delivery, fresh, paid>>

NotBurnt(order) == UNCHANGED delivery

\* expires_at = now, saved with update_fields=['expires_at'].
Burn(order) == IF order = None THEN UNCHANGED delivery
               ELSE delivery' = [delivery EXCEPT ![order].open = FALSE]

(* Attempt, cooldown, burnt code and reward are committed together.        *)
ClaimCommit(w) ==
  LET q == req[w]
      g == q.guest
  IN  /\ q.pc = "claim_commit"
      /\ games' = [games EXCEPT ![g] = Append(@,
                     [kind |-> q.token.rt, amount |-> q.token.ra, paidBy |-> q.order,
                      gc |-> q.token.gc, checkedOn |-> q.checkedOn,
                      cooling |-> cooldown[g] = "active"])]
      /\ cooldown' = [cooldown EXCEPT ![g] = "active"]
      /\ Burn(q.order)
      /\ paid' = IF q.order = None THEN paid ELSE [paid EXCEPT ![q.order] = @ + 1]
      /\ Finish(w)
      /\ UNCHANGED <<scenario, subscribed, tokens, day, fresh>>

(* DELETE /game/cooldown/                                                   *)
ResetGameCooldown(g) ==
  /\ cooldown[g] # "none"
  /\ cooldown' = [cooldown EXCEPT ![g] = "none"]
  /\ UNCHANGED <<scenario, games, subscribed, tokens, day, delivery, fresh, paid, req>>

----------------------------------------------------------------------------
Rows == {c \in Codes : delivery[c].exists}

(* register_delivery: an unknown code is created; a known one that is no   *)
(* longer pending will be reset from what was read here.                   *)
RegisterCreate(w, c) ==
  /\ req[w] = Idle
  /\ ~delivery[c].exists
  /\ c \in scenario.codes /\ fresh[c] < scenario.fresh
  /\ delivery' = [delivery EXCEPT ![c] =
                    [exists |-> TRUE, seq |-> Cardinality(Rows) + 1, by |-> None, open |-> TRUE]]
  /\ fresh' = [fresh EXCEPT ![c] = @ + 1]
  /\ UNCHANGED <<scenario, games, cooldown, subscribed, tokens, day, paid, req>>

RegisterKnown(w, c) ==
  /\ req[w] = Idle
  /\ delivery[c].exists
  /\ Status(c) \in {"expired", "activated"}
  /\ c \in scenario.codes /\ fresh[c] < scenario.fresh
  /\ req' = [req EXCEPT ![w] = [pc |-> "register_save", code |-> c]]
  /\ fresh' = [fresh EXCEPT ![c] = @ + 1]
  /\ UNCHANGED <<scenario, games, cooldown, subscribed, tokens, day, delivery, paid>>

RegisterSave(w) ==
  /\ req[w].pc = "register_save"
  /\ delivery' = [delivery EXCEPT ![req[w].code].by = None, ![req[w].code].open = TRUE]
  /\ Finish(w)
  /\ UNCHANGED <<scenario, games, cooldown, subscribed, tokens, day, fresh, paid>>

(* activate_delivery: an order this guest already activated under the same *)
(* short code is returned as it is (no step); otherwise a row is locked.   *)
ActivateDelivery(w, g, short) ==
  /\ Takes(w, g)
  /\ \A c \in Codes : ShortOf[c] = short => delivery[c].by # g
  /\ req' = [req EXCEPT ![w] = [pc |-> "activate_lock", guest |-> g, short |-> short]]
  /\ UNCHANGED <<scenario, games, cooldown, subscribed, tokens, day, delivery, fresh, paid>>

ActivateStale(w) ==
  /\ req[w].pc = "activate_lock"
  /\ \E c \in Rows : /\ ShortOf[c] = req[w].short
                     /\ delivery' = [delivery EXCEPT ![c].by = req[w].guest]
  /\ Finish(w)
  /\ UNCHANGED <<scenario, games, cooldown, subscribed, tokens, day, fresh, paid>>

\* Delivery.activate does nothing, and says so to nobody, unless pending.
ActivateLock(w) ==
  /\ req[w].pc = "activate_lock"
  /\ \/ /\ Unactivated(req[w].short) = {}
        /\ UNCHANGED delivery
     \/ \E c \in Newest(Unactivated(req[w].short)) :
          delivery' = IF Status(c) = "pending"
                      THEN [delivery EXCEPT ![c].by = req[w].guest] ELSE delivery
  /\ Finish(w)
  /\ UNCHANGED <<scenario, games, cooldown, subscribed, tokens, day, fresh, paid>>

----------------------------------------------------------------------------
(* What happens around the handlers: time and VK.                          *)
CooldownLapses(g) ==
  /\ cooldown[g] = "active"
  /\ cooldown' = [cooldown EXCEPT ![g] = "lapsed"]
  /\ UNCHANGED <<scenario, games, subscribed, tokens, day, delivery, fresh, paid, req>>

TokenExpires(t) ==
  /\ t \in tokens
  /\ tokens' = tokens \ {t}
  /\ UNCHANGED <<scenario, games, cooldown, subscribed, day, delivery, fresh, paid, req>>

CodeRollover ==
  /\ day < scenario.days
  /\ day' = day + 1
  /\ UNCHANGED <<scenario, games, cooldown, subscribed, tokens, delivery, fresh, paid, req>>

SetSubscription(g, on) ==
  /\ g \in scenario.guests
  /\ subscribed[g] # on
  /\ subscribed' = [subscribed EXCEPT ![g] = on]
  /\ UNCHANGED <<scenario, games, cooldown, tokens, day, delivery, fresh, paid, req>>

----------------------------------------------------------------------------
Init ==
  /\ scenario \in Scenarios
  /\ games = [g \in Guests |-> <<>>]
  /\ cooldown = [g \in Guests |-> "none"]
  /\ subscribed = [g \in Guests |-> FALSE]
  /\ tokens = {}
  /\ day = 1
  /\ delivery = [c \in Codes |-> [exists |-> FALSE, seq |-> 0, by |-> None, open |-> FALSE]]
  /\ fresh = [c \in Codes |-> 0]
  /\ paid = [c \in Codes |-> 0]
  /\ req = [w \in Workers |-> Idle]

Play ==
  \/ \E w \in Workers, g \in Guests, code \in (1..scenario.days) \cup {NoCode}, dl \in BOOLEAN :
       StartGame(w, g, code, dl)
  \/ \E w \in Workers : StartCount(w) \/ StartToken(w) \/ ClaimCommit(w)
  \/ \E w \in Workers, t \in tokens, dl \in BOOLEAN : ClaimGame(w, t, dl)
  \/ \E g \in Guests : ResetGameCooldown(g)

Orders ==
  \/ \E w \in Workers, c \in Codes : RegisterCreate(w, c) \/ RegisterKnown(w, c)
  \/ \E w \in Workers : RegisterSave(w) \/ ActivateLock(w)
  \/ \E w \in Workers, g \in Guests, short \in Shorts : ActivateDelivery(w, g, short)

Environment ==
  \/ \E g \in Guests : CooldownLapses(g)
  \/ \E t \in tokens : TokenExpires(t)
  \/ CodeRollover
  \/ \E g \in Guests, on \in BOOLEAN : SetSubscription(g, on)

Next == Play \/ Orders \/ Environment

Spec == Init /\ [][Next]_vars

\* Workers finish what they began, a token lives ten minutes, and a guest who
\* activated an order keeps opening the delivery game and claiming it.
Fairness ==
  /\ \A w \in Workers : WF_vars(StartCount(w) \/ StartToken(w) \/ ClaimCommit(w)
                                  \/ RegisterSave(w) \/ ActivateLock(w))
  /\ WF_vars(\E t \in tokens : TokenExpires(t))
  /\ \A g \in Guests :
       /\ SF_vars(\E w \in Workers : StartGame(w, g, NoCode, TRUE))
       /\ SF_vars(\E w \in Workers, t \in tokens : t.guest = g /\ ClaimGame(w, t, TRUE))

FairSpec == Spec /\ Fairness

----------------------------------------------------------------------------
(* Types of the state: every field of every row and of every request.      *)
TypeOK ==
  /\ scenario \in Scenarios
  /\ games \in [Guests -> Seq(Award)]
  /\ cooldown \in [Guests -> {"none", "active", "lapsed"}]
  /\ subscribed \in [Guests -> BOOLEAN]
  /\ tokens \subseteq Token
  /\ day \in Days
  /\ delivery \in [Codes -> Row]
  /\ fresh \in [Codes -> Nat]
  /\ paid \in [Codes -> Nat]
  /\ req \in [Workers -> Request]

(* The n-th game of a guest pays exactly what the table gives the n-th     *)
(* attempt, whatever tokens were issued, replayed or raced: the count in   *)
(* the token makes every attempt number payable once.                      *)
RewardFollowsTable ==
  \A g \in Guests : \A n \in DOMAIN games[g] :
    LET a == games[g][n]
    IN  IF n = 1 THEN a.kind = "sp" ELSE a.kind = "c" /\ a.amount = CoinReward(n)

(* From the third game on, a game no delivery order paid for was confirmed *)
(* by the code of the day on which it was claimed.                         *)
LateGamesNeedCode ==
  \A g \in Guests : \A n \in DOMAIN games[g] :
    LET a == games[g][n]
    IN  n >= 3 /\ a.paidBy = None => a.gc = a.checkedOn

(* A game played while the eighteen-hour cooldown runs was paid for by a   *)
(* delivery order (start_game: "GameCooldownActive -- still within the     *)
(* 18-hour cooldown").                                                     *)
CooldownGamesArePaid ==
  \A g \in Guests : \A n \in DOMAIN games[g] :
    games[g][n].cooling => games[g][n].paidBy # None

(* A delivery code pays for at most as many games as orders were           *)
(* registered under it, however webhooks, activations and claims overlap.  *)
OrderPaysOnce == \A c \in Codes : paid[c] <= fresh[c]

(* Only a new order under the same code takes an order away from the guest *)
(* who activated it: no activation by somebody else replaces it.           *)
ActivationIsExclusive ==
  [][\A c \in Codes : delivery[c].by # None /\ delivery'[c].by # delivery[c].by =>
       delivery'[c].by = None /\ \E w \in Workers : req[w].pc = "register_save"]_vars

(* An activated order of a guest who stays subscribed is eventually played *)
(* or replaced by a new order: neither the cooldown nor the daily code can *)
(* trap the delivery game.                                                 *)
ActivatedOrderIsPlayed ==
  \A g \in Guests : <>[](subscribed[g]) =>
    \A c \in Codes : (c \in ActiveOf(g)) ~> (c \notin ActiveOf(g))
=============================================================================
