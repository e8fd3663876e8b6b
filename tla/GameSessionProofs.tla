------------------------- MODULE GameSessionProofs -------------------------
(***************************************************************************)
(* Proofs about GameSession, for every set of guests, codes, workers and   *)
(* scenarios.                                                              *)
(***************************************************************************)
EXTENDS GameSession, FiniteSetTheorems, SequenceTheorems, TLAPS

Claiming(w) == req[w].pc = "claim_commit"

\* The row lock of a guest has one holder, whose token carries the current count.
LockInv ==
  \A w \in Workers : Claiming(w) =>
    /\ req[w].token.guest = req[w].guest
    /\ CountMatches(req[w].token)
    /\ \A v \in Workers : Claiming(v) /\ req[v].guest = req[w].guest => v = w

\* A signed token promises what the table gives the attempt it counts to; the
\* first attempt is worth coins only to a guest who has played meanwhile.
GoodToken(t) ==
  /\ t.count <= Len(games[t.guest])
  /\ t.rt = "sp" => t.count = 0
  /\ t.rt = "c"  => t.ra = CoinReward(t.count + 1) /\ (t.count = 0 => games[t.guest] # <<>>)

TokenInv ==
  /\ \A w \in Workers : req[w].pc = "start_token" => req[w].count <= Len(games[req[w].guest])
  /\ \A t \in tokens : GoodToken(t)
  /\ \A w \in Workers : Claiming(w) => GoodToken(req[w].token)

\* LateGamesNeedCode: the code a claim in flight has checked.
CodeInv ==
  \A w \in Workers : Claiming(w) /\ req[w].token.count >= 2 /\ req[w].order = None =>
    req[w].token.gc = req[w].checkedOn

\* CooldownGamesArePaid, while every guest has one request at a time: what was
\* signed outside a delivery is out of date once the cooldown runs.
OneRequest ==
  \A v, w \in Workers : GuestOf(v) = GuestOf(w) /\ GuestOf(w) # None => v = w

Outdated(t) == t.dl \/ ~CountMatches(t) \/ cooldown[t.guest] # "active"

CoolInv ==
  /\ OneRequest
  /\ \A t \in tokens : Outdated(t)
  /\ \A w \in Workers :
       /\ req[w].pc = "start_count" => req[w].delivery \/ cooldown[req[w].guest] # "active"
       /\ req[w].pc = "start_token" => req[w].delivery \/ cooldown[req[w].guest] # "active"
                                         \/ req[w].count # Len(games[req[w].guest])
       /\ Claiming(w) => req[w].order # None \/ cooldown[req[w].guest] # "active"
  /\ CooldownGamesArePaid

\* OrderPaysOnce: the games an order of this code may still pay for.
Saving(c)   == {w \in Workers : req[w].pc = "register_save" /\ req[w].code = c}
Paying(c)   == {w \in Workers : Claiming(w) /\ req[w].order = c}
Payable(c)  == /\ delivery[c].exists /\ delivery[c].open
               /\ \A w \in Paying(c) : req[w].guest # delivery[c].by
Due(c)      == IF Payable(c) THEN 1 ELSE 0

OrderInv ==
  \A c \in Codes : paid[c] + Cardinality(Paying(c)) + Cardinality(Saving(c)) + Due(c) <= fresh[c]

\* ActivationIsExclusive: only registered rows are activated.
RowInv == \A c \in Codes : ~delivery[c].exists => delivery[c].by = None

----------------------------------------------------------------------------
\* What a request of each pc carries.
LEMMA RequestCases ==
  ASSUME NEW r \in Request
  PROVE  /\ r.pc \in {"idle", "start_count", "start_token", "claim_commit",
                      "activate_lock", "register_save"}
         /\ r.pc \in {"start_count", "start_token"} => r \in StartRequest
         /\ r.pc = "claim_commit" => r \in ClaimRequest
         /\ r.pc = "activate_lock" => r \in ActivateRequest
         /\ r.pc = "register_save" => r \in RegisterRequest
  BY DEF Request, Idle, StartRequest, ClaimRequest, ActivateRequest, RegisterRequest

LEMMA Bounds ==
  ASSUME TypeOK
  PROVE  /\ scenario.guests \subseteq Guests /\ scenario.codes \subseteq Codes
         /\ scenario.days \in 1..MaxDay /\ scenario.days \in Nat /\ MaxDay \in Nat
         /\ scenario.orderly \in BOOLEAN
  BY BoundsAssumption DEF TypeOK

\* start_game signs at most one token, for its guest and count.
LEMMA Signed ==
  ASSUME NEW s \in StartRequest, NEW t \in TokenFor(s), day \in Days
  PROVE  /\ t \in Token
         /\ t.guest = s.guest /\ t.count = s.count /\ t.dl = s.delivery
         /\ t.rt = "sp" => s.count = 0
         /\ t.rt = "c"  => t.ra = CoinReward(s.count + 1) /\ (s.count = 0 => HasSuper(s.guest))
<1> DEFINE token == [guest |-> s.guest, count |-> s.count, rt |-> "c",
                     ra |-> CoinReward(s.count + 1), dl |-> s.delivery, gc |-> NoCode]
<1>1. token \in Token
  BY DEF Token, StartRequest, CoinReward, NoCode
<1>2. s.count \in Nat /\ s.code \in Days \cup {NoCode}
  BY DEF StartRequest
<1>3. CASE s.count + 1 = 1 /\ ~HasSuper(s.guest)
  <2>1. t = [token EXCEPT !.rt = "sp", !.ra = 0]
    BY <1>3 DEF TokenFor
  <2>2. t = [guest |-> s.guest, count |-> s.count, rt |-> "sp", ra |-> 0,
             dl |-> s.delivery, gc |-> NoCode]
    BY <2>1
  <2>3. t \in Token
    BY <2>2, <1>1 DEF Token, StartRequest
  <2> QED
    BY <2>2, <2>3, <1>2, <1>3
<1>4. CASE ~(s.count + 1 = 1 /\ ~HasSuper(s.guest)) /\ s.count + 1 >= 3 /\ ~s.inDelivery
  <2>1. t = [token EXCEPT !.gc = s.code]
    BY <1>4, <1>2 DEF TokenFor
  <2> QED
    BY <2>1, <1>1, <1>2, <1>4 DEF Token
<1>5. CASE ~(s.count + 1 = 1 /\ ~HasSuper(s.guest)) /\ ~(s.count + 1 >= 3 /\ ~s.inDelivery)
  <2>1. t = token
    BY <1>5, <1>2 DEF TokenFor
  <2> QED
    BY <2>1, <1>1, <1>2, <1>5
<1> QED
  BY <1>3, <1>4, <1>5

LEMMA RowsAreFinite == IsFiniteSet(Rows) /\ Cardinality(Rows) \in Nat
<1>1. Rows \subseteq Codes
  BY DEF Rows
<1> QED
  BY <1>1, FiniteAssumption, FS_Subset, FS_CardinalityType

\* The attempt a claim in flight is about to commit.
AwardOf(w) ==
  [kind |-> req[w].token.rt, amount |-> req[w].token.ra, paidBy |-> req[w].order,
   gc |-> req[w].token.gc, checkedOn |-> req[w].checkedOn,
   cooling |-> cooldown[req[w].guest] = "active"]

\* A claim appends one attempt to those of its guest.
LEMMA Played ==
  ASSUME TypeOK, NEW w \in Workers, ClaimCommit(w)
  PROVE  /\ req[w] \in ClaimRequest /\ req[w].guest \in Guests
         /\ games' \in [Guests -> Seq(Award)]
         /\ Len(games'[req[w].guest]) = Len(games[req[w].guest]) + 1
         /\ games'[req[w].guest][Len(games[req[w].guest]) + 1] = AwardOf(w)
         /\ \A n \in 1..Len(games[req[w].guest]) :
              games'[req[w].guest][n] = games[req[w].guest][n]
         /\ \A g \in Guests : g # req[w].guest => games'[g] = games[g]
<1> DEFINE g == req[w].guest
<1>1. req[w] \in ClaimRequest
  BY RequestCases DEF ClaimCommit, TypeOK
<1>2. g \in Guests /\ AwardOf(w) \in Award
  BY <1>1 DEF ClaimRequest, Award, AwardOf, Token
<1>3. games' = [games EXCEPT ![g] = Append(games[g], AwardOf(w))]
  BY <1>2 DEF ClaimCommit, AwardOf, TypeOK
<1>4. games \in [Guests -> Seq(Award)]
  BY DEF TypeOK
<1> HIDE DEF g
<1>5. Append(games[g], AwardOf(w)) \in Seq(Award)
      /\ Len(Append(games[g], AwardOf(w))) = Len(games[g]) + 1
      /\ Append(games[g], AwardOf(w))[Len(games[g]) + 1] = AwardOf(w)
      /\ \A n \in 1..Len(games[g]) : Append(games[g], AwardOf(w))[n] = games[g][n]
  BY <1>2, <1>4, AppendProperties
<1>6. games'[g] = Append(games[g], AwardOf(w))
  BY <1>2, <1>3, <1>4
<1>7. games' \in [Guests -> Seq(Award)] /\ \A h \in Guests : h # g => games'[h] = games[h]
  BY <1>2, <1>3, <1>4, <1>5
<1> QED
  BY <1>1, <1>2, <1>5, <1>6, <1>7 DEF g

\* TypeOK is preserved.
LEMMA TypePreserved ==
  ASSUME TypeOK, [Next]_vars
  PROVE  TypeOK'
<1> USE DEF TypeOK
<1>a. ASSUME NEW w \in Workers, Finish(w)
      PROVE  req' \in [Workers -> Request]
  BY <1>a DEF Finish, Request
<1>1. ASSUME NEW w \in Workers, NEW g \in Guests,
             NEW code \in (1..scenario.days) \cup {NoCode}, NEW dl \in BOOLEAN,
             StartGame(w, g, code, dl)
      PROVE  TypeOK'
  <2>1. code \in Days \cup {NoCode}
    BY Bounds DEF Days
  <2>2. [pc |-> "start_count", guest |-> g, code |-> code, delivery |-> dl,
         inDelivery |-> dl \/ ActiveOf(g) # {}, count |-> 0] \in Request
    BY <2>1 DEF Request, StartRequest
  <2> QED
    BY <1>1, <2>2 DEF StartGame
<1>2. ASSUME NEW w \in Workers, StartCount(w)
      PROVE  TypeOK'
  <2>1. req[w] \in StartRequest
    BY <1>2, RequestCases DEF StartCount
  <2>2. [req[w] EXCEPT !.pc = "start_token", !.count = Len(games[req[w].guest])] \in StartRequest
    <3>1. req[w].guest \in Guests
      BY <2>1 DEF StartRequest
    <3>2. games[req[w].guest] \in Seq(Award)
      BY <3>1
    <3>3. Len(games[req[w].guest]) \in Nat
      BY <3>2, LenProperties
    <3> HIDE DEF TypeOK
    <3> QED
      BY <2>1, <3>3 DEF StartRequest
  <2>3. req' = [req EXCEPT ![w] = [req[w] EXCEPT !.pc = "start_token",
                                                 !.count = Len(games[req[w].guest])]]
    BY <1>2, <2>1 DEF StartCount, StartRequest
  <2> QED
    BY <1>2, <2>2, <2>3 DEF StartCount, Request
<1>3. ASSUME NEW w \in Workers, StartToken(w)
      PROVE  TypeOK'
  <2>1. req[w] \in StartRequest
    BY <1>3, RequestCases DEF StartToken
  <2>2. tokens' \subseteq Token
    BY <1>3, <2>1, Signed DEF StartToken
  <2> QED
    BY <1>3, <2>2, <1>a DEF StartToken
<1>4. ASSUME NEW w \in Workers, ClaimCommit(w)
      PROVE  TypeOK'
  <2>1. req[w].guest \in Guests /\ req[w].order \in Codes \cup {None}
    BY <1>4, RequestCases DEF ClaimCommit, ClaimRequest
  <2>2. games' \in [Guests -> Seq(Award)]
    BY <1>4, Played
  <2>3. delivery' \in [Codes -> Row]
    <3>1. delivery' = delivery
            \/ (req[w].order \in Codes /\ delivery' = [delivery EXCEPT ![req[w].order].open = FALSE])
      <4>1. Burn(req[w].order)
        BY <1>4 DEF ClaimCommit
      <4> QED
        BY <4>1, <2>1 DEF Burn
    <3>2. \A c \in Codes : [delivery EXCEPT ![c].open = FALSE] \in [Codes -> Row]
      BY DEF Row
    <3> QED
      BY <3>1, <3>2
  <2>4. paid' \in [Codes -> Nat] /\ cooldown' \in [Guests -> {"none", "active", "lapsed"}]
    BY <1>4, <2>1 DEF ClaimCommit
  <2> QED
    BY <1>4, <2>2, <2>3, <2>4, <1>a DEF ClaimCommit
<1>5. ASSUME NEW w \in Workers, NEW t \in tokens, NEW dl \in BOOLEAN, ClaimGame(w, t, dl)
      PROVE  TypeOK'
  <2>1. PICK order \in PayingOrder(t, dl) :
          req' = [req EXCEPT ![w] = [pc |-> "claim_commit", guest |-> t.guest, token |-> t,
                                     order |-> order, checkedOn |-> day]]
    BY <1>5 DEF ClaimGame
  <2>2. order \in Codes \cup {None}
    BY DEF PayingOrder, ActiveOf
  <2>3. [pc |-> "claim_commit", guest |-> t.guest, token |-> t,
         order |-> order, checkedOn |-> day] \in Request
    BY <2>2 DEF Request, ClaimRequest, Token
  <2> QED
    BY <1>5, <2>1, <2>3 DEF ClaimGame
<1>6. ASSUME NEW g \in Guests, ResetGameCooldown(g) \/ CooldownLapses(g)
      PROVE  TypeOK'
  BY <1>6 DEF ResetGameCooldown, CooldownLapses
<1>7. ASSUME NEW w \in Workers, NEW c \in Codes, RegisterCreate(w, c)
      PROVE  TypeOK'
  <2>1. [exists |-> TRUE, seq |-> Cardinality(Rows) + 1, by |-> None, open |-> TRUE] \in Row
    BY RowsAreFinite DEF Row
  <2> QED
    BY <1>7, <2>1 DEF RegisterCreate
<1>8. ASSUME NEW w \in Workers, NEW c \in Codes, RegisterKnown(w, c)
      PROVE  TypeOK'
  BY <1>8 DEF RegisterKnown, Request, RegisterRequest
<1>9. ASSUME NEW w \in Workers, RegisterSave(w)
      PROVE  TypeOK'
  <2>1. req[w].code \in Codes
    BY <1>9, RequestCases DEF RegisterSave, RegisterRequest
  <2>2. delivery' \in [Codes -> Row]
    <3>1. [delivery[req[w].code] EXCEPT !.by = None, !.open = TRUE] \in Row
      BY <2>1 DEF Row
    <3>2. delivery' = [delivery EXCEPT ![req[w].code] =
                         [delivery[req[w].code] EXCEPT !.by = None, !.open = TRUE]]
      BY <1>9, <2>1 DEF RegisterSave, Row
    <3> QED
      BY <2>1, <3>1, <3>2
  <2> QED
    BY <1>9, <2>2, <1>a DEF RegisterSave
<1>10. ASSUME NEW w \in Workers, ActivateLock(w)
       PROVE  TypeOK'
  <2>1. req[w].guest \in Guests
    BY <1>10, RequestCases DEF ActivateLock, ActivateRequest
  <2>2. \A c \in Codes : [delivery EXCEPT ![c].by = req[w].guest] \in [Codes -> Row]
    BY <2>1 DEF Row
  <2>3. delivery' \in [Codes -> Row]
    BY <1>10, <2>2 DEF ActivateLock, Newest, Unactivated
  <2> QED
    BY <1>10, <2>3, <1>a DEF ActivateLock
<1>11. ASSUME NEW w \in Workers, NEW g \in Guests, NEW short \in Shorts,
              ActivateDelivery(w, g, short)
       PROVE  TypeOK'
  BY <1>11 DEF ActivateDelivery, Request, ActivateRequest
<1>12. ASSUME NEW t \in tokens, TokenExpires(t)
       PROVE  TypeOK'
  BY <1>12 DEF TokenExpires
<1>13. CASE CodeRollover
  BY <1>13, Bounds DEF CodeRollover, Days
<1>14. ASSUME NEW g \in Guests, NEW on \in BOOLEAN, SetSubscription(g, on)
       PROVE  TypeOK'
  BY <1>14 DEF SetSubscription
<1>15. CASE UNCHANGED vars
  BY <1>15 DEF vars
<1> QED
  BY <1>1, <1>2, <1>3, <1>4, <1>5, <1>6, <1>7, <1>8, <1>9, <1>10, <1>11, <1>12, <1>13, <1>14,
     <1>15
  DEF Next, Play, Orders, Environment

(* TypeOK: every reachable state of the game is well typed.                *)
THEOREM GameTypes == Spec => []TypeOK
<1>1. Init => TypeOK
  BY BoundsAssumption DEF Init, TypeOK, Days, Row, Request
<1> QED
  BY <1>1, TypePreserved, PTL DEF Spec

----------------------------------------------------------------------------
\* How the request of a worker changes: it begins, goes on or ends.
LEMMA WorkerSteps ==
  ASSUME TypeOK, [Next]_vars, NEW w \in Workers
  PROVE  \/ req'[w] = req[w]
         \/ req'[w] = Idle
         \/ \E g \in Guests, code \in (1..scenario.days) \cup {NoCode}, dl \in BOOLEAN :
              StartGame(w, g, code, dl)
         \/ StartCount(w)
         \/ \E t \in tokens, dl \in BOOLEAN : ClaimGame(w, t, dl)
         \/ \E c \in Codes : RegisterKnown(w, c)
         \/ \E g \in Guests, short \in Shorts : ActivateDelivery(w, g, short)
<1> USE DEF TypeOK
<1>1. ASSUME NEW v \in Workers, Finish(v)
      PROVE  req'[w] = req[w] \/ req'[w] = Idle
  BY <1>1 DEF Finish
<1>2. ASSUME NEW v \in Workers, StartToken(v) \/ ClaimCommit(v) \/ RegisterSave(v) \/ ActivateLock(v)
      PROVE  req'[w] = req[w] \/ req'[w] = Idle
  BY <1>1, <1>2 DEF StartToken, ClaimCommit, RegisterSave, ActivateLock
<1>3. ASSUME NEW v \in Workers, v # w, NEW g \in Guests,
             NEW code \in (1..scenario.days) \cup {NoCode}, NEW dl \in BOOLEAN,
             StartGame(v, g, code, dl)
      PROVE  req'[w] = req[w]
  BY <1>3 DEF StartGame
<1>4. ASSUME NEW v \in Workers, v # w, NEW g \in Guests, NEW short \in Shorts,
             ActivateDelivery(v, g, short)
      PROVE  req'[w] = req[w]
  BY <1>4 DEF ActivateDelivery
<1>5. ASSUME NEW v \in Workers, v # w, StartCount(v)
      PROVE  req'[w] = req[w]
  BY <1>5 DEF StartCount
<1>6. ASSUME NEW v \in Workers, v # w, NEW t \in tokens, NEW dl \in BOOLEAN, ClaimGame(v, t, dl)
      PROVE  req'[w] = req[w]
  BY <1>6 DEF ClaimGame
<1>7. ASSUME NEW v \in Workers, NEW c \in Codes, RegisterCreate(v, c) \/ (v # w /\ RegisterKnown(v, c))
      PROVE  req'[w] = req[w]
  BY <1>7 DEF RegisterCreate, RegisterKnown
<1>8. CASE \E g \in Guests : ResetGameCooldown(g)
  BY <1>8 DEF ResetGameCooldown
<1>9. CASE Environment \/ UNCHANGED vars
  BY <1>9 DEF Environment, CooldownLapses, TokenExpires, CodeRollover, SetSubscription, vars
<1> QED
  BY <1>2, <1>3, <1>4, <1>5, <1>6, <1>7, <1>8, <1>9 DEF Next, Play, Orders

\* Only a claim that commits changes the attempts; it ends there.
LEMMA GamesSteps ==
  ASSUME TypeOK, [Next]_vars
  PROVE  (games' = games /\ paid' = paid) \/ \E w \in Workers : ClaimCommit(w)
  BY DEF Next, Play, Orders, Environment, StartGame, StartCount, StartToken, ClaimGame,
         ResetGameCooldown, RegisterCreate, RegisterKnown, RegisterSave, ActivateDelivery,
         ActivateLock, CooldownLapses, TokenExpires, CodeRollover, SetSubscription, vars

\* Attempts are never taken back.
LEMMA GamesGrow ==
  ASSUME TypeOK, [Next]_vars, NEW g \in Guests
  PROVE  /\ Len(games[g]) \in Nat /\ Len(games'[g]) \in Nat
         /\ Len(games[g]) <= Len(games'[g])
         /\ games[g] # <<>> => games'[g] # <<>>
<1>1. games[g] \in Seq(Award)
  BY DEF TypeOK
<1>2. Len(games[g]) \in Nat /\ (games[g] # <<>> <=> Len(games[g]) # 0)
  BY <1>1, LenProperties, EmptySeq
<1>3. CASE games' = games
  BY <1>2, <1>3
<1>4. ASSUME NEW w \in Workers, ClaimCommit(w), g = req[w].guest
      PROVE  Len(games'[g]) = Len(games[g]) + 1 /\ games'[g] # <<>>
  <2>1. Len(games'[g]) = Len(games[g]) + 1
    BY <1>4, Played
  <2> QED
    BY <2>1, <1>2, EmptySeq
<1>5. ASSUME NEW w \in Workers, ClaimCommit(w), g # req[w].guest
      PROVE  games'[g] = games[g]
  BY <1>5, Played
<1> QED
  BY <1>2, <1>3, <1>4, <1>5, GamesSteps

\* What start_game adds to the tokens.
LEMMA TokenSteps ==
  ASSUME TypeOK, [Next]_vars
  PROVE  tokens' \subseteq tokens \/ \E w \in Workers : StartToken(w)
  BY DEF Next, Play, Orders, Environment, StartGame, StartCount, ClaimCommit, ClaimGame,
         ResetGameCooldown, RegisterCreate, RegisterKnown, RegisterSave, ActivateDelivery,
         ActivateLock, CooldownLapses, TokenExpires, CodeRollover, SetSubscription, vars

----------------------------------------------------------------------------
\* A claim in flight went on from before, or has just made its checks.
LEMMA ClaimSteps ==
  ASSUME TypeOK, [Next]_vars, NEW w \in Workers, Claiming(w)'
  PROVE  \/ Claiming(w) /\ req'[w] = req[w]
         \/ \E t \in tokens, dl \in BOOLEAN : ClaimGame(w, t, dl)
<1>1. req'[w].pc = "claim_commit"
  BY DEF Claiming
<1>2. ASSUME NEW g \in Guests, NEW code \in (1..scenario.days) \cup {NoCode}, NEW dl \in BOOLEAN,
             StartGame(w, g, code, dl)
      PROVE  FALSE
  BY <1>1, <1>2 DEF StartGame, TypeOK
<1>3. ASSUME StartCount(w)
      PROVE  FALSE
  <2>1. req[w] \in StartRequest
    BY <1>3, RequestCases DEF StartCount, TypeOK
  <2>2. req'[w].pc = "start_token"
    BY <1>3, <2>1 DEF StartCount, TypeOK, StartRequest
  <2> QED
    BY <1>1, <2>2
<1>4. ASSUME NEW c \in Codes, RegisterKnown(w, c)
      PROVE  FALSE
  BY <1>1, <1>4 DEF RegisterKnown, TypeOK
<1>5. ASSUME NEW g \in Guests, NEW short \in Shorts, ActivateDelivery(w, g, short)
      PROVE  FALSE
  BY <1>1, <1>5 DEF ActivateDelivery, TypeOK
<1>6. req'[w] # Idle
  BY <1>1 DEF Idle
<1> QED
  BY <1>1, <1>2, <1>3, <1>4, <1>5, <1>6, WorkerSteps DEF Claiming

\* What claim_game writes down of a token it accepts.
LEMMA ClaimBegins ==
  ASSUME TypeOK, NEW w \in Workers, NEW t \in tokens, NEW dl \in BOOLEAN, ClaimGame(w, t, dl)
  PROVE  /\ t \in Token /\ t.guest \in Guests
         /\ Claiming(w)' /\ req[w] = Idle /\ ~Locked(t.guest) /\ CountMatches(t)
         /\ req'[w].guest = t.guest /\ req'[w].token = t /\ req'[w].checkedOn = day
         /\ req'[w].order \in PayingOrder(t, dl) /\ CodeAccepted(t, req'[w].order)
         /\ \A v \in Workers : v # w => req'[v] = req[v]
         /\ games' = games /\ cooldown' = cooldown /\ tokens' = tokens /\ day' = day
         /\ delivery' = delivery /\ paid' = paid /\ fresh' = fresh /\ scenario' = scenario
<1>1. PICK order \in PayingOrder(t, dl) :
        /\ CodeAccepted(t, order)
        /\ req' = [req EXCEPT ![w] = [pc |-> "claim_commit", guest |-> t.guest, token |-> t,
                                      order |-> order, checkedOn |-> day]]
  BY DEF ClaimGame
<1>2. req'[w] = [pc |-> "claim_commit", guest |-> t.guest, token |-> t,
                 order |-> order, checkedOn |-> day]
      /\ \A v \in Workers : v # w => req'[v] = req[v]
  BY <1>1 DEF TypeOK
<1>3. t \in Token /\ t.guest \in Guests
  BY DEF TypeOK, Token
<1> QED
  BY <1>1, <1>2, <1>3 DEF ClaimGame, Takes, Claiming

\* LockInv is preserved: attempts of a locked guest come from the holder only.
LEMMA LockPreserved ==
  ASSUME TypeOK, LockInv, [Next]_vars
  PROVE  LockInv'
<1>1. ASSUME NEW v \in Workers, NEW w \in Workers, Claiming(v)', Claiming(w)',
             req'[v].guest = req'[w].guest
      PROVE  v = w
  <2>1. CASE Claiming(v) /\ req'[v] = req[v] /\ Claiming(w) /\ req'[w] = req[w]
    BY <1>1, <2>1 DEF LockInv
  <2>2. ASSUME NEW t \in tokens, NEW dl \in BOOLEAN, ClaimGame(w, t, dl), v # w
        PROVE  FALSE
    <3>1. req'[v] = req[v] /\ ~Locked(t.guest) /\ req'[w].guest = t.guest
      BY <2>2, ClaimBegins
    <3> QED
      BY <1>1, <3>1 DEF Locked, Claiming
  <2>3. ASSUME NEW t \in tokens, NEW dl \in BOOLEAN, ClaimGame(v, t, dl), v # w
        PROVE  FALSE
    <3>1. req'[w] = req[w] /\ ~Locked(t.guest) /\ req'[v].guest = t.guest
      BY <2>3, ClaimBegins
    <3> QED
      BY <1>1, <3>1 DEF Locked, Claiming
  <2> QED
    BY <1>1, <2>1, <2>2, <2>3, ClaimSteps
<1>2. ASSUME NEW w \in Workers, Claiming(w)'
      PROVE  req'[w].token.guest = req'[w].guest /\ CountMatches(req[w].token)'
  <2>1. CASE \E t \in tokens, dl \in BOOLEAN : ClaimGame(w, t, dl)
    BY <2>1, ClaimBegins DEF CountMatches
  <2>2. CASE Claiming(w) /\ req'[w] = req[w]
    <3>1. req[w] \in ClaimRequest /\ req[w].guest \in Guests
      BY <2>2, RequestCases DEF Claiming, TypeOK, ClaimRequest
    <3>2. req[w].token.guest = req[w].guest /\ req[w].token.count = Len(games[req[w].guest])
      BY <2>2 DEF LockInv, CountMatches
    <3>3. ASSUME NEW v \in Workers, ClaimCommit(v)
          PROVE  games'[req[w].guest] = games[req[w].guest]
      <4>1. Claiming(v) /\ req'[v] = Idle
        BY <3>3 DEF ClaimCommit, Claiming, Finish, TypeOK
      <4>2. v # w
        BY <1>2, <4>1 DEF Claiming, Idle
      <4>3. req[v].guest # req[w].guest
        BY <2>2, <4>1, <4>2 DEF LockInv
      <4> QED
        BY <3>1, <3>3, <4>3, Played
    <3>4. games'[req[w].guest] = games[req[w].guest]
      BY <3>3, GamesSteps
    <3> QED
      BY <2>2, <3>2, <3>4 DEF CountMatches
  <2> QED
    BY <1>2, <2>1, <2>2, ClaimSteps
<1> QED
  BY <1>1, <1>2 DEF LockInv

\* A promise stays good while the guest plays on.
LEMMA GoodTokensStay ==
  ASSUME TypeOK, [Next]_vars, NEW t \in Token, GoodToken(t)
  PROVE  GoodToken(t)'
<1>1. t.guest \in Guests /\ t.count \in Nat
  BY DEF Token
<1> QED
  BY <1>1, GamesGrow DEF GoodToken

\* TokenInv is preserved: start_game signs what it counted.
LEMMA TokensPreserved ==
  ASSUME TypeOK, TokenInv, [Next]_vars
  PROVE  TokenInv'
<1>1. ASSUME NEW w \in Workers, req'[w].pc = "start_token"
      PROVE  req'[w].count <= Len(games'[req'[w].guest])
  <2>1. CASE req'[w] = req[w]
    <3>1. req[w] \in StartRequest
      BY <1>1, <2>1, RequestCases DEF TypeOK
    <3>2. req[w].guest \in Guests /\ req[w].count \in Nat
      BY <3>1 DEF StartRequest
    <3>3. req[w].count <= Len(games[req[w].guest])
      BY <1>1, <2>1 DEF TokenInv
    <3> QED
      BY <2>1, <3>2, <3>3, GamesGrow
  <2>2. CASE StartCount(w)
    <3>1. req[w] \in StartRequest
      BY <2>2, RequestCases DEF StartCount, TypeOK
    <3>2. req'[w].count = Len(games[req[w].guest]) /\ req'[w].guest = req[w].guest
      BY <2>2, <3>1 DEF StartCount, TypeOK, StartRequest
    <3>3. req[w].guest \in Guests
      BY <3>1 DEF StartRequest
    <3> QED
      BY <3>2, <3>3, GamesGrow
  <2>3. ASSUME NEW g \in Guests, NEW code \in (1..scenario.days) \cup {NoCode}, NEW dl \in BOOLEAN,
               StartGame(w, g, code, dl)
        PROVE  FALSE
    BY <1>1, <2>3 DEF StartGame, TypeOK
  <2>4. ASSUME NEW c \in Codes, RegisterKnown(w, c)
        PROVE  FALSE
    BY <1>1, <2>4 DEF RegisterKnown, TypeOK
  <2>5. ASSUME NEW g \in Guests, NEW short \in Shorts, ActivateDelivery(w, g, short)
        PROVE  FALSE
    BY <1>1, <2>5 DEF ActivateDelivery, TypeOK
  <2>6. ASSUME NEW t \in tokens, NEW dl \in BOOLEAN, ClaimGame(w, t, dl)
        PROVE  FALSE
    BY <1>1, <2>6, ClaimBegins DEF Claiming
  <2> QED
    BY <1>1, <2>1, <2>2, <2>3, <2>4, <2>5, <2>6, WorkerSteps DEF Idle
<1>2. ASSUME NEW t \in tokens'
      PROVE  GoodToken(t)'
  <2>1. CASE t \in tokens
    BY <2>1, GoodTokensStay DEF TokenInv, TypeOK
  <2>2. ASSUME NEW w \in Workers, StartToken(w), t \notin tokens
        PROVE  GoodToken(t)'
    <3>1. req[w] \in StartRequest /\ t \in TokenFor(req[w])
      BY <2>2, <1>2, RequestCases DEF StartToken, TypeOK
    <3>2. /\ t \in Token
          /\ t.guest = req[w].guest /\ t.count = req[w].count
          /\ t.rt = "sp" => req[w].count = 0
          /\ t.rt = "c"  => t.ra = CoinReward(req[w].count + 1)
                             /\ (req[w].count = 0 => HasSuper(req[w].guest))
      BY <3>1, Signed DEF TypeOK
    <3>3. req[w].count <= Len(games[req[w].guest])
      BY <2>2 DEF StartToken, TokenInv
    <3>4. req[w].guest \in Guests /\ (HasSuper(req[w].guest) => games[req[w].guest] # <<>>)
      BY <3>1 DEF StartRequest, HasSuper
    <3>5. GoodToken(t)
      BY <3>2, <3>3, <3>4 DEF GoodToken
    <3> QED
      BY <3>2, <3>5, GoodTokensStay
  <2> QED
    BY <1>2, <2>1, <2>2, TokenSteps
<1>3. ASSUME NEW w \in Workers, Claiming(w)'
      PROVE  GoodToken(req[w].token)'
  <2>1. CASE Claiming(w) /\ req'[w] = req[w]
    <3>1. req[w].token \in Token /\ GoodToken(req[w].token)
      BY <2>1, RequestCases DEF Claiming, TypeOK, ClaimRequest, TokenInv
    <3>2. \A t \in Token : GoodToken(t) => GoodToken(t)'
      BY GoodTokensStay
    <3> QED
      BY <2>1, <3>1, <3>2 DEF GoodToken
  <2>2. ASSUME NEW t \in tokens, NEW dl \in BOOLEAN, ClaimGame(w, t, dl)
        PROVE  GoodToken(req[w].token)'
    <3>1. req'[w].token = t /\ games' = games /\ GoodToken(t)
      BY <2>2, ClaimBegins DEF TokenInv
    <3> QED
      BY <3>1 DEF GoodToken
  <2> QED
    BY <1>3, <2>1, <2>2, ClaimSteps
<1> QED
  BY <1>1, <1>2, <1>3 DEF TokenInv

----------------------------------------------------------------------------
\* An attempt was there before, or is the one a claim commits.
LEMMA AwardSteps ==
  ASSUME TypeOK, LockInv, [Next]_vars, NEW g \in Guests, NEW n \in DOMAIN games'[g]
  PROVE  \/ n \in DOMAIN games[g] /\ games'[g][n] = games[g][n]
         \/ \E w \in Workers : /\ ClaimCommit(w) /\ Claiming(w) /\ req[w] \in ClaimRequest
                              /\ req[w].guest = g /\ req[w].token \in Token
                              /\ n = req[w].token.count + 1 /\ games'[g][n] = AwardOf(w)
<1>1. games[g] \in Seq(Award)
  BY DEF TypeOK
<1>2. DOMAIN games[g] = 1..Len(games[g]) /\ Len(games[g]) \in Nat
  BY <1>1, LenProperties
<1>3. ASSUME NEW w \in Workers, ClaimCommit(w), req[w].guest = g
      PROVE  n \in 1..Len(games[g]) + 1
  <2>1. games'[g] \in Seq(Award) /\ Len(games'[g]) = Len(games[g]) + 1
    BY <1>3, Played
  <2>2. DOMAIN games'[g] = 1..Len(games'[g])
    BY <2>1, LenProperties
  <2> QED
    BY <2>1, <2>2, <1>2
<1>4. ASSUME NEW w \in Workers, ClaimCommit(w)
      PROVE  Claiming(w) /\ req[w].token \in Token
             /\ req[w].token.count = Len(games[req[w].guest])
  <2>1. Claiming(w)
    BY <1>4 DEF ClaimCommit, Claiming
  <2> QED
    BY <1>4, <2>1, Played DEF LockInv, CountMatches, ClaimRequest
<1>5. CASE games' = games
  BY <1>5
<1>6. ASSUME NEW w \in Workers, ClaimCommit(w), req[w].guest # g
      PROVE  games'[g] = games[g]
  BY <1>6, Played
<1>7. ASSUME NEW w \in Workers, ClaimCommit(w), req[w].guest = g, n \in 1..Len(games[g])
      PROVE  n \in DOMAIN games[g] /\ games'[g][n] = games[g][n]
  BY <1>2, <1>7, Played
<1>8. ASSUME NEW w \in Workers, ClaimCommit(w), req[w].guest = g, n \notin 1..Len(games[g])
      PROVE  n = req[w].token.count + 1 /\ games'[g][n] = AwardOf(w) /\ req[w] \in ClaimRequest
  <2>1. n = Len(games[g]) + 1
    BY <1>2, <1>3, <1>8
  <2> QED
    BY <2>1, <1>4, <1>8, Played
<1> QED
  BY <1>4, <1>5, <1>6, <1>7, <1>8, GamesSteps

Core == TypeOK /\ LockInv /\ TokenInv

LEMMA CoreHolds == Spec => []Core
<1>1. Init => Core
  <2> SUFFICES ASSUME Init PROVE Core
    OBVIOUS
  <2>1. TypeOK
    BY BoundsAssumption DEF Init, TypeOK, Days, Row, Request
  <2>2. \A w \in Workers : req[w].pc = "idle"
    BY DEF Init, Idle
  <2> QED
    BY <2>1, <2>2 DEF Core, Init, LockInv, TokenInv, Claiming
<1>2. Core /\ [Next]_vars => Core'
  BY TypePreserved, LockPreserved, TokensPreserved DEF Core
<1> QED
  BY <1>1, <1>2, PTL DEF Spec

(* RewardFollowsTable: the lock makes the count in the token the number of *)
(* the attempt, and the token promises what the table gives that number.   *)
THEOREM RewardsFollowTable == Spec => []RewardFollowsTable
<1>1. Init => RewardFollowsTable
  BY EmptySeq DEF Init, RewardFollowsTable
<1>2. Core /\ RewardFollowsTable /\ [Next]_vars => RewardFollowsTable'
  <2> SUFFICES ASSUME Core, RewardFollowsTable, [Next]_vars,
                      NEW g \in Guests, NEW n \in DOMAIN games'[g]
               PROVE  IF n = 1 THEN games'[g][n].kind = "sp"
                      ELSE games'[g][n].kind = "c" /\ games'[g][n].amount = CoinReward(n)
    BY DEF RewardFollowsTable
  <2>1. CASE n \in DOMAIN games[g] /\ games'[g][n] = games[g][n]
    BY <2>1 DEF RewardFollowsTable
  <2>2. ASSUME NEW w \in Workers, Claiming(w), req[w].guest = g, req[w].token \in Token,
               n = req[w].token.count + 1, games'[g][n] = AwardOf(w)
        PROVE  IF n = 1 THEN games'[g][n].kind = "sp"
               ELSE games'[g][n].kind = "c" /\ games'[g][n].amount = CoinReward(n)
    <3> DEFINE t == req[w].token
    <3>1. GoodToken(t) /\ t.guest = g /\ t.count = Len(games[g]) /\ t.count \in Nat
          /\ t.rt \in {"sp", "c"}
      BY <2>2 DEF Core, TokenInv, LockInv, CountMatches, Token
    <3>2. games[g] \in Seq(Award)
      BY DEF Core, TypeOK
    <3>3. t.count = 0 => t.rt = "sp"
      BY <3>1, <3>2, EmptySeq DEF GoodToken
    <3>4. t.count # 0 => t.rt = "c" /\ t.ra = CoinReward(n)
      BY <2>2, <3>1 DEF GoodToken
    <3>5. games'[g][n].kind = t.rt /\ games'[g][n].amount = t.ra
      BY <2>2 DEF AwardOf
    <3> QED
      BY <2>2, <3>1, <3>3, <3>4, <3>5
  <2> QED
    BY <2>1, <2>2, AwardSteps DEF Core
<1> QED
  BY <1>1, <1>2, CoreHolds, PTL DEF Spec

(* LateGamesNeedCode: from the third game on a claim in flight has checked *)
(* the code of its day, or pays with an order.                             *)
THEOREM LateGamesAreConfirmed == Spec => []LateGamesNeedCode
<1>1. Init => CodeInv /\ LateGamesNeedCode
  BY EmptySeq DEF Init, CodeInv, LateGamesNeedCode, Claiming, Idle
<1>2. Core /\ CodeInv /\ [Next]_vars => CodeInv'
  <2> SUFFICES ASSUME Core, CodeInv, [Next]_vars, NEW w \in Workers, Claiming(w)',
                      req'[w].token.count >= 2, req'[w].order = None
               PROVE  req'[w].token.gc = req'[w].checkedOn
    BY DEF CodeInv, Claiming
  <2>1. CASE Claiming(w) /\ req'[w] = req[w]
    BY <2>1 DEF CodeInv
  <2>2. ASSUME NEW t \in tokens, NEW dl \in BOOLEAN, ClaimGame(w, t, dl)
        PROVE  req'[w].token.gc = req'[w].checkedOn
    <3>1. req'[w].token = t /\ req'[w].checkedOn = day /\ CodeAccepted(t, req'[w].order)
          /\ t.count \in Nat
      BY <2>2, ClaimBegins DEF Core, Token
    <3> QED
      BY <3>1 DEF CodeAccepted
  <2> QED
    BY <2>1, <2>2, ClaimSteps DEF Core
<1>3. Core /\ CodeInv /\ LateGamesNeedCode /\ [Next]_vars => LateGamesNeedCode'
  <2> SUFFICES ASSUME Core, CodeInv, LateGamesNeedCode, [Next]_vars,
                      NEW g \in Guests, NEW n \in DOMAIN games'[g],
                      n >= 3, games'[g][n].paidBy = None
               PROVE  games'[g][n].gc = games'[g][n].checkedOn
    BY DEF LateGamesNeedCode
  <2>1. CASE n \in DOMAIN games[g] /\ games'[g][n] = games[g][n]
    BY <2>1 DEF LateGamesNeedCode
  <2>2. ASSUME NEW w \in Workers, Claiming(w), req[w].token \in Token,
               n = req[w].token.count + 1, games'[g][n] = AwardOf(w)
        PROVE  games'[g][n].gc = games'[g][n].checkedOn
    <3>1. req[w].token.count \in Nat /\ req[w].token.count >= 2 /\ req[w].order = None
      BY <2>2 DEF AwardOf, Token
    <3> QED
      BY <2>2, <3>1 DEF CodeInv, AwardOf
  <2> QED
    BY <2>1, <2>2, AwardSteps DEF Core
<1> QED
  BY <1>1, <1>2, <1>3, CoreHolds, PTL DEF Spec

----------------------------------------------------------------------------
\* How the row of a code changes: burnt, registered, reset or activated.
LEMMA RowSteps ==
  ASSUME TypeOK, [Next]_vars, NEW c \in Codes
  PROVE  \/ delivery'[c] = delivery[c]
         \/ \E w \in Workers : /\ ClaimCommit(w) /\ req[w].order = c
                              /\ delivery'[c] = [delivery[c] EXCEPT !.open = FALSE]
         \/ \E w \in Workers : /\ RegisterCreate(w, c) /\ ~delivery[c].exists
                              /\ delivery'[c].exists /\ delivery'[c].by = None
         \/ \E w \in Workers : /\ RegisterSave(w) /\ req[w].code = c
                              /\ delivery'[c] = [delivery[c] EXCEPT !.by = None, !.open = TRUE]
         \/ \E w \in Workers : /\ ActivateLock(w) /\ delivery[c].exists /\ delivery[c].by = None
                              /\ req[w].guest \in Guests
                              /\ delivery'[c] = [delivery[c] EXCEPT !.by = req[w].guest]
<1> USE DEF TypeOK
<1>1. ASSUME NEW w \in Workers, ClaimCommit(w)
      PROVE  delivery'[c] = delivery[c]
             \/ (req[w].order = c /\ delivery'[c] = [delivery[c] EXCEPT !.open = FALSE])
  <2>1. Burn(req[w].order)
    BY <1>1 DEF ClaimCommit
  <2> QED
    BY <2>1 DEF Burn
<1>2. ASSUME NEW w \in Workers, NEW d \in Codes, RegisterCreate(w, d)
      PROVE  delivery'[c] = delivery[c]
             \/ (d = c /\ ~delivery[c].exists /\ delivery'[c].exists /\ delivery'[c].by = None)
  BY <1>2 DEF RegisterCreate
<1>3. ASSUME NEW w \in Workers, RegisterSave(w)
      PROVE  delivery'[c] = delivery[c]
             \/ (req[w].code = c /\ delivery'[c] = [delivery[c] EXCEPT !.by = None, !.open = TRUE])
  BY <1>3 DEF RegisterSave
<1>4. ASSUME NEW w \in Workers, ActivateLock(w)
      PROVE  \/ delivery'[c] = delivery[c]
             \/ /\ delivery[c].exists /\ delivery[c].by = None /\ req[w].guest \in Guests
                /\ delivery'[c] = [delivery[c] EXCEPT !.by = req[w].guest]
  <2>1. req[w].guest \in Guests
    BY <1>4, RequestCases DEF ActivateLock, ActivateRequest
  <2>2. CASE delivery' = delivery
    BY <2>2
  <2>3. ASSUME NEW d \in Newest(Unactivated(req[w].short)),
               delivery' = [delivery EXCEPT ![d].by = req[w].guest]
        PROVE  \/ delivery'[c] = delivery[c]
               \/ /\ delivery[c].exists /\ delivery[c].by = None
                  /\ delivery'[c] = [delivery[c] EXCEPT !.by = req[w].guest]
    BY <2>3 DEF Newest, Unactivated
  <2> QED
    BY <1>4, <2>1, <2>2, <2>3 DEF ActivateLock
<1>5. CASE UNCHANGED delivery
  BY <1>5
<1> QED
  BY <1>1, <1>2, <1>3, <1>4, <1>5
  DEF Next, Play, Orders, Environment, StartGame, StartCount, StartToken, ClaimGame,
      ResetGameCooldown, RegisterKnown, ActivateDelivery,
      CooldownLapses, TokenExpires, CodeRollover, SetSubscription, vars

LEMMA RowsPreserved ==
  ASSUME TypeOK, RowInv, [Next]_vars
  PROVE  RowInv'
<1> SUFFICES ASSUME NEW c \in Codes, ~delivery'[c].exists PROVE delivery'[c].by = None
  BY DEF RowInv
<1>1. delivery[c] \in Row /\ (~delivery[c].exists => delivery[c].by = None)
  BY DEF TypeOK, RowInv
<1>2. ASSUME NEW w \in Workers, delivery'[c] = [delivery[c] EXCEPT !.open = FALSE]
      PROVE  delivery'[c].by = None
  BY <1>1, <1>2 DEF Row
<1>3. ASSUME NEW w \in Workers, delivery'[c] = [delivery[c] EXCEPT !.by = None, !.open = TRUE]
      PROVE  delivery'[c].by = None
  BY <1>1, <1>3 DEF Row
<1>4. ASSUME NEW w \in Workers, delivery[c].exists,
             delivery'[c] = [delivery[c] EXCEPT !.by = req[w].guest]
      PROVE  FALSE
  BY <1>1, <1>4 DEF Row
<1> QED
  BY <1>1, <1>2, <1>3, <1>4, RowSteps

LEMMA RowsHold == Spec => [](TypeOK /\ RowInv)
<1>1. Init => RowInv
  BY DEF Init, RowInv
<1> QED
  BY <1>1, GameTypes, RowsPreserved, PTL DEF Spec

(* ActivationIsExclusive: only rows nobody activated are activated, and    *)
(* only a webhook that found the code used up clears one.                  *)
THEOREM ActivationsAreExclusive == Spec => ActivationIsExclusive
<1> DEFINE Keeps ==
      \A c \in Codes : delivery[c].by # None /\ delivery'[c].by # delivery[c].by =>
        delivery'[c].by = None /\ \E w \in Workers : req[w].pc = "register_save"
<1>1. TypeOK /\ RowInv /\ [Next]_vars => [Keeps]_vars
  <2> SUFFICES ASSUME TypeOK, RowInv, [Next]_vars, NEW c \in Codes,
                      delivery[c].by # None, delivery'[c].by # delivery[c].by
               PROVE  delivery'[c].by = None /\ \E w \in Workers : req[w].pc = "register_save"
    OBVIOUS
  <2>1. delivery[c] \in Row
    BY DEF TypeOK
  <2> QED
    BY <2>1, RowSteps DEF RowInv, Row, RegisterSave
<1> QED
  BY <1>1, RowsHold, PTL DEF Spec, ActivationIsExclusive

----------------------------------------------------------------------------
\* Finite sets of requests can be counted, one more or one less at a time.
LEMMA Counts ==
  ASSUME NEW S, S \subseteq Workers
  PROVE  /\ Cardinality(S) \in Nat
         /\ \A w \in Workers : w \notin S => Cardinality(S \cup {w}) = Cardinality(S) + 1
         /\ \A w \in S : Cardinality(S \ {w}) = Cardinality(S) - 1
<1>1. IsFiniteSet(S)
  BY FiniteAssumption, FS_Subset
<1> QED
  BY <1>1, FS_CardinalityType, FS_AddElement, FS_RemoveElement

\* A request that neither claims nor registers, before or after the step.
Aside(w) == /\ req[w].pc \notin {"claim_commit", "register_save"}
            /\ req'[w].pc \notin {"claim_commit", "register_save"}

\* Steps that leave claims and webhooks in flight alone.
LEMMA AsideSteps ==
  ASSUME NEW c \in Codes, \A w \in Workers : req'[w] = req[w] \/ Aside(w)
  PROVE  /\ Paying(c)' = Paying(c) /\ Saving(c)' = Saving(c)
         /\ delivery'[c] = delivery[c] => Due(c)' = Due(c)
<1>1. Paying(c)' = Paying(c) /\ Saving(c)' = Saving(c)
  BY DEF Paying, Saving, Claiming, Aside
<1>2. \A w \in Paying(c) : req'[w] = req[w]
  BY DEF Paying, Claiming, Aside
<1> QED
  BY <1>1, <1>2 DEF Due, Payable

\* OrderInv is preserved: every game still to be paid has an order of its own.
LEMMA OrdersPreserved ==
  ASSUME TypeOK, RowInv, OrderInv, [Next]_vars
  PROVE  OrderInv'
<1> SUFFICES ASSUME NEW c \in Codes
             PROVE  paid'[c] + Cardinality(Paying(c)') + Cardinality(Saving(c)') + Due(c)' <= fresh'[c]
  BY DEF OrderInv
<1> DEFINE Goal == paid'[c] + Cardinality(Paying(c)') + Cardinality(Saving(c)') + Due(c)' <= fresh'[c]
<1>t. /\ paid[c] \in Nat /\ fresh[c] \in Nat /\ Due(c) \in {0, 1} /\ Due(c)' \in {0, 1}
      /\ Paying(c) \subseteq Workers /\ Saving(c) \subseteq Workers
      /\ Cardinality(Paying(c)) \in Nat /\ Cardinality(Saving(c)) \in Nat
      /\ delivery[c] \in Row
  BY Counts DEF TypeOK, Due, Paying, Saving
<1>i. paid[c] + Cardinality(Paying(c)) + Cardinality(Saving(c)) + Due(c) <= fresh[c]
  BY DEF OrderInv
<1>q. ASSUME \A w \in Workers : req'[w] = req[w] \/ Aside(w),
             UNCHANGED <<delivery, fresh, paid>>
      PROVE  Goal
  BY <1>q, <1>i, AsideSteps
<1>1. ASSUME NEW w \in Workers, NEW g \in Guests,
             NEW code \in (1..scenario.days) \cup {NoCode}, NEW dl \in BOOLEAN,
             StartGame(w, g, code, dl)
      PROVE  Goal
  <2>1. \A v \in Workers : req'[v] = req[v] \/ Aside(v)
    BY <1>1 DEF StartGame, Takes, Idle, Aside, TypeOK
  <2> QED
    BY <1>1, <2>1, <1>q DEF StartGame
<1>2. ASSUME NEW w \in Workers, StartCount(w)
      PROVE  Goal
  <2>1. req[w] \in StartRequest
    BY <1>2, RequestCases DEF StartCount, TypeOK
  <2>2. \A v \in Workers : req'[v] = req[v] \/ Aside(v)
    BY <1>2, <2>1 DEF StartCount, StartRequest, Aside, TypeOK
  <2> QED
    BY <1>2, <2>2, <1>q DEF StartCount
<1>3. ASSUME NEW w \in Workers, StartToken(w)
      PROVE  Goal
  <2>1. \A v \in Workers : req'[v] = req[v] \/ Aside(v)
    BY <1>3 DEF StartToken, Finish, Idle, Aside, TypeOK
  <2> QED
    BY <1>3, <2>1, <1>q DEF StartToken
<1>4. ASSUME NEW w \in Workers, ClaimCommit(w), req[w].order = c
      PROVE  Goal
  <2>1. w \in Paying(c)
    BY <1>4 DEF ClaimCommit, Paying, Claiming
  <2>2. Paying(c)' = Paying(c) \ {w} /\ Saving(c)' = Saving(c)
    BY <1>4 DEF ClaimCommit, Finish, Paying, Saving, Claiming, Idle, TypeOK
  <2>3. c # None
    BY NoneAssumption
  <2>4. paid'[c] = paid[c] + 1 /\ fresh'[c] = fresh[c] /\ ~delivery'[c].open
    <3>1. delivery' = [delivery EXCEPT ![c].open = FALSE]
      BY <1>4, <2>3 DEF ClaimCommit, Burn
    <3>2. ~delivery'[c].open
      BY <3>1, <1>t DEF TypeOK, Row
    <3> QED
      BY <1>4, <2>3, <3>2 DEF ClaimCommit, TypeOK
  <2>5. Due(c)' = 0
    BY <2>4 DEF Due, Payable
  <2>6. Cardinality(Paying(c)') = Cardinality(Paying(c)) - 1
    BY <2>1, <2>2, <1>t, Counts
  <2> HIDE DEF Goal
  <2>7. Cardinality(Saving(c)') = Cardinality(Saving(c))
    BY <2>2
  <2> QED
    BY <2>4, <2>5, <2>6, <2>7, <1>t, <1>i DEF Goal
<1>5. ASSUME NEW w \in Workers, ClaimCommit(w), req[w].order # c
      PROVE  Goal
  <2>1. w \notin Paying(c) /\ w \notin Saving(c)
    BY <1>5 DEF ClaimCommit, Paying, Saving
  <2>2. /\ Paying(c)' = Paying(c) /\ Saving(c)' = Saving(c)
        /\ \A v \in Paying(c) : req'[v] = req[v]
    BY <1>5, <2>1 DEF ClaimCommit, Finish, Paying, Saving, Claiming, Idle, TypeOK
  <2>3. delivery'[c] = delivery[c] /\ paid'[c] = paid[c] /\ fresh'[c] = fresh[c]
    BY <1>5 DEF ClaimCommit, Burn, TypeOK
  <2>4. Due(c)' = Due(c)
    BY <2>2, <2>3 DEF Due, Payable
  <2> QED
    BY <2>2, <2>3, <2>4, <1>i
<1>6. ASSUME NEW w \in Workers, NEW t \in tokens, NEW dl \in BOOLEAN, ClaimGame(w, t, dl),
             req'[w].order = c
      PROVE  Goal
  <2>1. /\ req[w] = Idle /\ Claiming(w)' /\ ~Locked(t.guest) /\ req'[w].guest = t.guest
        /\ t.guest \in Guests /\ c \in PayingOrder(t, dl)
        /\ \A v \in Workers : v # w => req'[v] = req[v]
        /\ delivery' = delivery /\ paid' = paid /\ fresh' = fresh
    BY <1>6, ClaimBegins
  <2>2. w \notin Paying(c) /\ Paying(c)' = Paying(c) \cup {w} /\ Saving(c)' = Saving(c)
    BY <2>1, <1>6 DEF Paying, Saving, Claiming, Idle
  <2>3. delivery[c].by = t.guest /\ delivery[c].open /\ delivery[c].exists
    BY <2>1, NoneAssumption DEF PayingOrder, ActiveOf, RowInv
  <2>4. Due(c) = 1
    BY <2>1, <2>3 DEF Due, Payable, Paying, Locked, Claiming
  <2>5. Due(c)' = 0
    BY <2>1, <2>2, <2>3 DEF Due, Payable
  <2>6. Cardinality(Paying(c)') = Cardinality(Paying(c)) + 1
    BY <2>2, <1>t, Counts
  <2> QED
    BY <2>1, <2>2, <2>4, <2>5, <2>6, <1>t, <1>i
<1>7. ASSUME NEW w \in Workers, NEW t \in tokens, NEW dl \in BOOLEAN, ClaimGame(w, t, dl),
             req'[w].order # c
      PROVE  Goal
  <2>1. /\ req[w] = Idle /\ Claiming(w)'
        /\ \A v \in Workers : v # w => req'[v] = req[v]
        /\ delivery' = delivery /\ paid' = paid /\ fresh' = fresh
    BY <1>7, ClaimBegins
  <2>2. /\ Paying(c)' = Paying(c) /\ Saving(c)' = Saving(c)
        /\ \A v \in Paying(c) : req'[v] = req[v]
    BY <2>1, <1>7 DEF Paying, Saving, Claiming, Idle
  <2>3. Due(c)' = Due(c)
    BY <2>1, <2>2 DEF Due, Payable
  <2> QED
    BY <2>1, <2>2, <2>3, <1>i
<1>8. ASSUME NEW w \in Workers, NEW d \in Codes, RegisterCreate(w, d)
      PROVE  Goal
  <2>1. Paying(c)' = Paying(c) /\ Saving(c)' = Saving(c) /\ paid' = paid /\ req' = req
    BY <1>8 DEF RegisterCreate, Paying, Saving, Claiming
  <2>2. CASE d # c
    <3>1. delivery'[c] = delivery[c] /\ fresh'[c] = fresh[c]
      BY <1>8, <2>2 DEF RegisterCreate, TypeOK
    <3>2. Due(c)' = Due(c)
      BY <2>1, <3>1 DEF Due, Payable
    <3> QED
      BY <2>1, <3>1, <3>2, <1>i
  <2>3. CASE d = c
    <3>1. fresh'[c] = fresh[c] + 1 /\ ~delivery[c].exists
      BY <1>8, <2>3 DEF RegisterCreate, TypeOK
    <3>2. Due(c) = 0
      BY <3>1 DEF Due, Payable
    <3> QED
      BY <2>1, <3>1, <3>2, <1>t, <1>i
  <2> QED
    BY <2>2, <2>3
<1>9. ASSUME NEW w \in Workers, NEW d \in Codes, RegisterKnown(w, d)
      PROVE  Goal
  <2>1. /\ req[w] = Idle /\ req'[w] = [pc |-> "register_save", code |-> d]
        /\ \A v \in Workers : v # w => req'[v] = req[v]
        /\ delivery' = delivery /\ paid' = paid
    BY <1>9 DEF RegisterKnown, TypeOK
  <2>2. Paying(c)' = Paying(c) /\ \A v \in Paying(c) : req'[v] = req[v]
    BY <2>1 DEF Paying, Claiming, Idle
  <2>3. Due(c)' = Due(c)
    BY <2>1, <2>2 DEF Due, Payable
  <2>4. CASE d # c
    <3>1. Saving(c)' = Saving(c) /\ fresh'[c] = fresh[c]
      BY <1>9, <2>1, <2>4 DEF RegisterKnown, Saving, Idle, TypeOK
    <3> QED
      BY <2>1, <2>2, <2>3, <3>1, <1>i
  <2>5. CASE d = c
    <3>1. w \notin Saving(c) /\ Saving(c)' = Saving(c) \cup {w} /\ fresh'[c] = fresh[c] + 1
      BY <1>9, <2>1, <2>5 DEF RegisterKnown, Saving, Idle, TypeOK
    <3>2. Cardinality(Saving(c)') = Cardinality(Saving(c)) + 1
      BY <3>1, <1>t, Counts
    <3> QED
      BY <2>1, <2>2, <2>3, <3>1, <3>2, <1>t, <1>i
  <2> QED
    BY <2>4, <2>5
<1>10. ASSUME NEW w \in Workers, RegisterSave(w)
       PROVE  Goal
  <2>1. /\ req[w].pc = "register_save" /\ req'[w] = Idle
        /\ \A v \in Workers : v # w => req'[v] = req[v]
        /\ paid' = paid /\ fresh' = fresh
    BY <1>10 DEF RegisterSave, Finish, TypeOK
  <2>2. Paying(c)' = Paying(c) /\ \A v \in Paying(c) : req'[v] = req[v]
    BY <2>1 DEF Paying, Claiming, Idle
  <2>3. CASE req[w].code # c
    <3>1. Saving(c)' = Saving(c)
      BY <2>1, <2>3 DEF Saving, Idle
    <3>2. delivery'[c] = delivery[c]
      BY <1>10, <2>3 DEF RegisterSave, TypeOK
    <3>3. Due(c)' = Due(c)
      BY <2>2, <3>2 DEF Due, Payable
    <3> QED
      BY <2>1, <2>2, <3>1, <3>3, <1>i
  <2>4. CASE req[w].code = c
    <3>1. w \in Saving(c) /\ Saving(c)' = Saving(c) \ {w}
      BY <2>1, <2>4 DEF Saving, Idle
    <3>2. Cardinality(Saving(c)') = Cardinality(Saving(c)) - 1
      BY <3>1, <1>t, Counts
    <3> QED
      BY <2>1, <2>2, <3>2, <1>t, <1>i
  <2> QED
    BY <2>3, <2>4
<1>11. ASSUME NEW w \in Workers, ActivateLock(w)
       PROVE  Goal
  <2>1. \A v \in Workers : req'[v] = req[v] \/ Aside(v)
    BY <1>11 DEF ActivateLock, Finish, Idle, Aside, TypeOK
  <2>2. Paying(c)' = Paying(c) /\ Saving(c)' = Saving(c)
    BY <2>1, AsideSteps
  <2>3. paid' = paid /\ fresh' = fresh
    BY <1>11 DEF ActivateLock
  <2>4. CASE delivery'[c] = delivery[c]
    BY <2>1, <2>2, <2>3, <2>4, <1>i, AsideSteps
  <2>5. CASE /\ delivery[c].exists /\ delivery[c].by = None
             /\ delivery'[c] = [delivery[c] EXCEPT !.by = req[w].guest]
    <3>1. \A v \in Paying(c) : req[v].guest # delivery[c].by
      BY <2>5, NoneAssumption, RequestCases DEF Paying, Claiming, ClaimRequest, TypeOK
    <3>2. delivery'[c].open = delivery[c].open
      BY <2>5, <1>t DEF Row
    <3>3. Due(c)' <= Due(c)
      BY <2>5, <3>1, <3>2 DEF Due, Payable
    <3> QED
      BY <2>2, <2>3, <3>3, <1>t, <1>i
  <2>6. ASSUME NEW v \in Workers, ClaimCommit(v) \/ RegisterSave(v) \/ RegisterCreate(v, c)
        PROVE  FALSE
    <3>1. req[w].pc = "activate_lock" /\ req'[w] = Idle
      BY <1>11 DEF ActivateLock, Finish, TypeOK
    <3>2. req'[w] = req[w] \/ req[w].pc \in {"claim_commit", "register_save"}
      BY <2>6 DEF ClaimCommit, RegisterSave, RegisterCreate, Finish, TypeOK
    <3> QED
      BY <3>1, <3>2 DEF Idle
  <2>7. ASSUME NEW v \in Workers, ActivateLock(v)
        PROVE  v = w
    <3>1. req[v].pc = "activate_lock" /\ req'[v] = Idle /\ (v # w => req'[v] = req[v])
      BY <1>11, <2>7 DEF ActivateLock, Finish, TypeOK
    <3> QED
      BY <3>1 DEF Idle
  <2>8. \/ delivery'[c] = delivery[c]
        \/ /\ delivery[c].exists /\ delivery[c].by = None
           /\ delivery'[c] = [delivery[c] EXCEPT !.by = req[w].guest]
    BY <2>6, <2>7, RowSteps
  <2> QED
    BY <2>4, <2>5, <2>8
<1>12. ASSUME NEW w \in Workers, NEW g \in Guests, NEW short \in Shorts,
              ActivateDelivery(w, g, short)
       PROVE  Goal
  <2>1. \A v \in Workers : req'[v] = req[v] \/ Aside(v)
    BY <1>12 DEF ActivateDelivery, Takes, Idle, Aside, TypeOK
  <2> QED
    BY <1>12, <2>1, <1>q DEF ActivateDelivery
<1>13. CASE (\E g \in Guests : ResetGameCooldown(g)) \/ Environment \/ UNCHANGED vars
  <2>1. UNCHANGED <<delivery, fresh, paid, req>>
    BY <1>13 DEF ResetGameCooldown, Environment, CooldownLapses, TokenExpires, CodeRollover,
                 SetSubscription, vars
  <2> QED
    BY <2>1, <1>q
<1> QED
  BY <1>1, <1>2, <1>3, <1>4, <1>5, <1>6, <1>7, <1>8, <1>9, <1>10, <1>11, <1>12, <1>13
  DEF Next, Play, Orders

(* OrderPaysOnce: games paid, claims in flight, resets in flight and the   *)
(* order that is open never outnumber the orders registered.               *)
THEOREM OrdersPayOnce == Spec => []OrderPaysOnce
<1>1. Init => OrderInv
  <2> SUFFICES ASSUME Init, NEW c \in Codes
               PROVE  paid[c] + Cardinality(Paying(c)) + Cardinality(Saving(c)) + Due(c) <= fresh[c]
    BY DEF OrderInv
  <2>1. Paying(c) = {} /\ Saving(c) = {}
    BY DEF Init, Paying, Saving, Claiming, Idle
  <2>2. Due(c) = 0 /\ paid[c] = 0 /\ fresh[c] = 0
    BY DEF Init, Due, Payable
  <2>3. Cardinality(Paying(c)) = 0 /\ Cardinality(Saving(c)) = 0
    BY <2>1, FS_EmptySet
  <2> QED
    BY <2>2, <2>3
<1>2. TypeOK /\ OrderInv => OrderPaysOnce
  <2> SUFFICES ASSUME TypeOK, OrderInv, NEW c \in Codes PROVE paid[c] <= fresh[c]
    BY DEF OrderPaysOnce
  <2>1. Paying(c) \subseteq Workers /\ Saving(c) \subseteq Workers
    BY DEF Paying, Saving
  <2>2. Cardinality(Paying(c)) \in Nat /\ Cardinality(Saving(c)) \in Nat
    BY <2>1, Counts
  <2>3. Due(c) \in Nat /\ paid[c] \in Nat /\ fresh[c] \in Nat
    BY DEF Due, TypeOK
  <2> QED
    BY <2>2, <2>3 DEF OrderInv
<1> QED
  BY <1>1, <1>2, RowsHold, OrdersPreserved, PTL DEF Spec

----------------------------------------------------------------------------
\* Only a claim that commits starts a cooldown.
LEMMA CooldownSteps ==
  ASSUME TypeOK, [Next]_vars, NEW g \in Guests, cooldown'[g] = "active"
  PROVE  cooldown[g] = "active" \/ \E w \in Workers : ClaimCommit(w) /\ req[w].guest = g
<1>1. ASSUME NEW w \in Workers, ClaimCommit(w)
      PROVE  cooldown[g] = "active" \/ req[w].guest = g
  BY <1>1 DEF ClaimCommit, TypeOK
<1>2. ASSUME NEW h \in Guests, ResetGameCooldown(h)
      PROVE  cooldown[g] = "active"
  BY <1>2 DEF ResetGameCooldown, TypeOK
<1>3. ASSUME NEW h \in Guests, CooldownLapses(h)
      PROVE  cooldown[g] = "active"
  BY <1>3 DEF CooldownLapses, TypeOK
<1>4. CASE UNCHANGED cooldown
  BY <1>4
<1> QED
  BY <1>1, <1>2, <1>3, <1>4
  DEF Next, Play, Orders, Environment, StartGame, StartCount, StartToken, ClaimGame,
      RegisterCreate, RegisterKnown, RegisterSave, ActivateDelivery, ActivateLock,
      TokenExpires, CodeRollover, SetSubscription, vars

\* A token that is out of date stays so: the claim that starts a cooldown is an attempt.
LEMMA OutdatedStays ==
  ASSUME Core, [Next]_vars, NEW t \in Token, GoodToken(t), Outdated(t)
  PROVE  Outdated(t)'
<1>1. t.guest \in Guests /\ t.count \in Nat /\ t.count <= Len(games[t.guest])
  BY DEF Token, GoodToken
<1>2. /\ Len(games[t.guest]) \in Nat /\ Len(games'[t.guest]) \in Nat
      /\ Len(games[t.guest]) <= Len(games'[t.guest])
  BY <1>1, GamesGrow DEF Core
<1>3. CASE t.dl \/ ~CountMatches(t)
  BY <1>1, <1>2, <1>3 DEF CountMatches, Outdated
<1>4. ASSUME NEW w \in Workers, ClaimCommit(w), req[w].guest = t.guest
      PROVE  ~CountMatches(t)'
  <2>1. Len(games'[t.guest]) = Len(games[t.guest]) + 1
    BY <1>4, Played DEF Core
  <2> QED
    BY <2>1, <1>1, <1>2 DEF CountMatches
<1>5. CASE cooldown'[t.guest] # "active"
  BY <1>5 DEF Outdated
<1> QED
  BY <1>1, <1>3, <1>4, <1>5, CooldownSteps DEF Outdated, Core

\* Whose request a worker handles changes only when it is idle or becomes so.
LEMMA GuestSteps ==
  ASSUME TypeOK, scenario.orderly, [Next]_vars, NEW w \in Workers
  PROVE  \/ GuestOf(w)' \in {GuestOf(w), None}
         \/ /\ ~Busy(GuestOf(w)')
            /\ \A v \in Workers : v # w => req'[v] = req[v]
<1> USE DEF TypeOK
<1>1. CASE req'[w] = req[w] \/ req'[w] = Idle
  BY <1>1 DEF GuestOf, Idle
<1>2. ASSUME NEW g \in Guests, NEW code \in (1..scenario.days) \cup {NoCode}, NEW dl \in BOOLEAN,
             StartGame(w, g, code, dl)
      PROVE  GuestOf(w)' = g /\ ~Busy(g) /\ \A v \in Workers : v # w => req'[v] = req[v]
  BY <1>2 DEF StartGame, Takes, GuestOf
<1>3. CASE StartCount(w)
  <2>1. req[w] \in StartRequest
    BY <1>3, RequestCases DEF StartCount
  <2>2. req'[w].pc = "start_token" /\ req'[w].guest = req[w].guest
    BY <1>3, <2>1 DEF StartCount, StartRequest
  <2> QED
    BY <1>3, <2>2 DEF StartCount, GuestOf
<1>4. ASSUME NEW t \in tokens, NEW dl \in BOOLEAN, ClaimGame(w, t, dl)
      PROVE  GuestOf(w)' = t.guest /\ ~Busy(t.guest) /\ \A v \in Workers : v # w => req'[v] = req[v]
  <2>1. ~Busy(t.guest)
    BY <1>4 DEF ClaimGame, Takes
  <2> QED
    BY <1>4, <2>1, ClaimBegins DEF GuestOf, Claiming
<1>5. ASSUME NEW c \in Codes, RegisterKnown(w, c)
      PROVE  GuestOf(w)' = None
  BY <1>5 DEF RegisterKnown, GuestOf
<1>6. ASSUME NEW g \in Guests, NEW short \in Shorts, ActivateDelivery(w, g, short)
      PROVE  GuestOf(w)' = g /\ ~Busy(g) /\ \A v \in Workers : v # w => req'[v] = req[v]
  BY <1>6 DEF ActivateDelivery, Takes, GuestOf
<1> QED
  BY <1>1, <1>2, <1>3, <1>4, <1>5, <1>6, WorkerSteps

LEMMA OneRequestPreserved ==
  ASSUME TypeOK, scenario.orderly, OneRequest, [Next]_vars
  PROVE  OneRequest'
<1> SUFFICES ASSUME NEW v \in Workers, NEW w \in Workers,
                    GuestOf(v)' = GuestOf(w)', GuestOf(w)' # None, v # w
             PROVE  FALSE
  BY DEF OneRequest
<1>1. ASSUME NEW x \in Workers, NEW y \in Workers, x # y, GuestOf(x)' = GuestOf(y)',
             ~Busy(GuestOf(x)'), \A z \in Workers : z # x => req'[z] = req[z]
      PROVE  FALSE
  <2>1. GuestOf(y)' = GuestOf(y)
    BY <1>1 DEF GuestOf
  <2> QED
    BY <2>1, <1>1 DEF Busy
<1>2. CASE GuestOf(v)' = GuestOf(v) /\ GuestOf(w)' = GuestOf(w)
  BY <1>2 DEF OneRequest
<1> QED
  BY <1>1, <1>2, GuestSteps

\* Nothing moves under a request while its guest has no other.
LEMMA Undisturbed ==
  ASSUME TypeOK, OneRequest, [Next]_vars, NEW w \in Workers, req'[w] = req[w],
         req[w].pc \in {"start_count", "start_token", "claim_commit"}
  PROVE  /\ req[w].guest \in Guests
         /\ games'[req[w].guest] = games[req[w].guest]
         /\ cooldown'[req[w].guest] = "active" => cooldown[req[w].guest] = "active"
<1> DEFINE g == req[w].guest
<1>1. g \in Guests /\ GuestOf(w) = g /\ g # None
  BY RequestCases, NoneAssumption DEF TypeOK, StartRequest, ClaimRequest, GuestOf
<1>2. ASSUME NEW v \in Workers, ClaimCommit(v)
      PROVE  req[v].guest # g
  <2>1. req[v].pc = "claim_commit" /\ req'[v] = Idle
    BY <1>2 DEF ClaimCommit, Finish, TypeOK
  <2>2. v # w
    BY <2>1 DEF Idle
  <2> QED
    BY <2>1, <2>2, <1>1 DEF OneRequest, GuestOf
<1>3. games'[g] = games[g]
  <2>1. ASSUME NEW v \in Workers, ClaimCommit(v)
        PROVE  games'[g] = games[g]
    BY <2>1, <1>1, <1>2, Played
  <2> QED
    BY <2>1, GamesSteps
<1> QED
  BY <1>1, <1>2, <1>3, CooldownSteps

\* CoolInv is preserved while the requests of a guest do not overlap.
LEMMA CoolPreserved ==
  ASSUME Core, scenario.orderly, CoolInv, [Next]_vars
  PROVE  CoolInv'
<1> USE DEF Core
<1>1. OneRequest'
  BY OneRequestPreserved DEF CoolInv
<1>2. ASSUME NEW t \in tokens'
      PROVE  Outdated(t)'
  <2>1. CASE t \in tokens
    BY <2>1, OutdatedStays DEF CoolInv, TokenInv, TypeOK
  <2>2. ASSUME NEW w \in Workers, StartToken(w), t \notin tokens
        PROVE  Outdated(t)'
    <3>1. req[w] \in StartRequest /\ t \in TokenFor(req[w])
      BY <2>2, <1>2, RequestCases DEF StartToken, TypeOK
    <3>2. t.guest = req[w].guest /\ t.count = req[w].count /\ t.dl = req[w].delivery
      BY <3>1, Signed DEF TypeOK
    <3>3. req[w].delivery \/ cooldown[req[w].guest] # "active"
            \/ req[w].count # Len(games[req[w].guest])
      BY <2>2 DEF StartToken, CoolInv
    <3>4. games' = games /\ cooldown' = cooldown
      BY <2>2 DEF StartToken
    <3> QED
      BY <3>2, <3>3, <3>4 DEF Outdated, CountMatches
  <2> QED
    BY <1>2, <2>1, <2>2, TokenSteps
<1>3. ASSUME NEW w \in Workers, req'[w].pc = "start_count"
      PROVE  req'[w].delivery \/ cooldown'[req'[w].guest] # "active"
  <2>1. CASE req'[w] = req[w]
    BY <1>3, <2>1, Undisturbed DEF CoolInv
  <2>2. ASSUME NEW g \in Guests, NEW code \in (1..scenario.days) \cup {NoCode}, NEW dl \in BOOLEAN,
               StartGame(w, g, code, dl)
        PROVE  req'[w].delivery \/ cooldown'[req'[w].guest] # "active"
    BY <2>2 DEF StartGame, TypeOK
  <2>3. CASE StartCount(w)
    <3>1. req[w] \in StartRequest
      BY <2>3, RequestCases DEF StartCount, TypeOK
    <3> QED
      BY <1>3, <2>3, <3>1 DEF StartCount, TypeOK, StartRequest
  <2>4. ASSUME NEW c \in Codes, RegisterKnown(w, c)
        PROVE  FALSE
    BY <1>3, <2>4 DEF RegisterKnown, TypeOK
  <2>5. ASSUME NEW g \in Guests, NEW short \in Shorts, ActivateDelivery(w, g, short)
        PROVE  FALSE
    BY <1>3, <2>5 DEF ActivateDelivery, TypeOK
  <2>6. ASSUME NEW t \in tokens, NEW dl \in BOOLEAN, ClaimGame(w, t, dl)
        PROVE  FALSE
    BY <1>3, <2>6, ClaimBegins DEF Claiming
  <2> QED
    BY <1>3, <2>1, <2>2, <2>3, <2>4, <2>5, <2>6, WorkerSteps DEF Idle
<1>4. ASSUME NEW w \in Workers, req'[w].pc = "start_token"
      PROVE  req'[w].delivery \/ cooldown'[req'[w].guest] # "active"
               \/ req'[w].count # Len(games'[req'[w].guest])
  <2>1. CASE req'[w] = req[w]
    BY <1>4, <2>1, Undisturbed DEF CoolInv
  <2>2. CASE StartCount(w)
    <3>1. req[w] \in StartRequest
      BY <2>2, RequestCases DEF StartCount, TypeOK
    <3>2. req'[w].guest = req[w].guest /\ req'[w].delivery = req[w].delivery
      BY <2>2, <3>1 DEF StartCount, TypeOK, StartRequest
    <3>3. req[w].delivery \/ cooldown[req[w].guest] # "active"
      BY <2>2 DEF StartCount, CoolInv
    <3> QED
      BY <2>2, <3>2, <3>3 DEF StartCount
  <2>3. ASSUME NEW g \in Guests, NEW code \in (1..scenario.days) \cup {NoCode}, NEW dl \in BOOLEAN,
               StartGame(w, g, code, dl)
        PROVE  FALSE
    BY <1>4, <2>3 DEF StartGame, TypeOK
  <2>4. ASSUME NEW c \in Codes, RegisterKnown(w, c)
        PROVE  FALSE
    BY <1>4, <2>4 DEF RegisterKnown, TypeOK
  <2>5. ASSUME NEW g \in Guests, NEW short \in Shorts, ActivateDelivery(w, g, short)
        PROVE  FALSE
    BY <1>4, <2>5 DEF ActivateDelivery, TypeOK
  <2>6. ASSUME NEW t \in tokens, NEW dl \in BOOLEAN, ClaimGame(w, t, dl)
        PROVE  FALSE
    BY <1>4, <2>6, ClaimBegins DEF Claiming
  <2> QED
    BY <1>4, <2>1, <2>2, <2>3, <2>4, <2>5, <2>6, WorkerSteps DEF Idle
<1>5. ASSUME NEW w \in Workers, Claiming(w)'
      PROVE  req'[w].order # None \/ cooldown'[req'[w].guest] # "active"
  <2>1. CASE Claiming(w) /\ req'[w] = req[w]
    BY <2>1, Undisturbed DEF CoolInv, Claiming
  <2>2. ASSUME NEW t \in tokens, NEW dl \in BOOLEAN, ClaimGame(w, t, dl), req'[w].order = None
        PROVE  cooldown'[req'[w].guest] # "active"
    <3>1. /\ req'[w].guest = t.guest /\ CountMatches(t) /\ None \in PayingOrder(t, dl)
          /\ cooldown' = cooldown
      BY <2>2, ClaimBegins
    <3>2. ~t.dl
      BY <3>1, NoneAssumption DEF PayingOrder, ActiveOf
    <3> QED
      BY <3>1, <3>2 DEF CoolInv, Outdated
  <2> QED
    BY <1>5, <2>1, <2>2, ClaimSteps
<1>6. ASSUME NEW g \in Guests, NEW n \in DOMAIN games'[g], games'[g][n].cooling
      PROVE  games'[g][n].paidBy # None
  <2>1. CASE n \in DOMAIN games[g] /\ games'[g][n] = games[g][n]
    BY <1>6, <2>1 DEF CoolInv, CooldownGamesArePaid
  <2>2. ASSUME NEW w \in Workers, Claiming(w), games'[g][n] = AwardOf(w)
        PROVE  games'[g][n].paidBy # None
    <3>1. AwardOf(w).paidBy = req[w].order
          /\ AwardOf(w).cooling = (cooldown[req[w].guest] = "active")
      BY DEF AwardOf
    <3>2. cooldown[req[w].guest] = "active"
      BY <1>6, <2>2, <3>1, Zenon
    <3>3. req[w].order # None
      BY <2>2, <3>2 DEF CoolInv
    <3> QED
      BY <2>2, <3>1, <3>3
  <2> QED
    BY <1>6, <2>1, <2>2, AwardSteps
<1> QED
  BY <1>1, <1>2, <1>3, <1>4, <1>5, <1>6 DEF CoolInv, CooldownGamesArePaid, Claiming

(* CooldownGamesArePaid, for guests whose requests do not overlap; with    *)
(* overlapping requests it fails (run game_cooldown_race).                 *)
THEOREM OrderlyCooldowns == Spec => [](scenario.orderly => CooldownGamesArePaid)
<1>1. Init => (scenario.orderly => CoolInv)
  <2> SUFFICES ASSUME Init PROVE CoolInv
    OBVIOUS
  <2>1. \A w \in Workers : req[w].pc = "idle" /\ GuestOf(w) = None
    BY DEF Init, Idle, GuestOf
  <2>2. CooldownGamesArePaid
    BY EmptySeq DEF Init, CooldownGamesArePaid
  <2> QED
    BY <2>1, <2>2 DEF CoolInv, OneRequest, Init, Claiming
<1>2. Core /\ (scenario.orderly => CoolInv) /\ [Next]_vars => (scenario.orderly => CoolInv)'
  <2>1. [Next]_vars => scenario' = scenario
    BY DEF Next, Play, Orders, Environment, StartGame, StartCount, StartToken, ClaimGame,
           ClaimCommit, ResetGameCooldown, RegisterCreate, RegisterKnown, RegisterSave,
           ActivateDelivery, ActivateLock, CooldownLapses, TokenExpires, CodeRollover,
           SetSubscription, vars
  <2> QED
    BY <2>1, CoolPreserved
<1>3. (scenario.orderly => CoolInv) => (scenario.orderly => CooldownGamesArePaid)
  BY DEF CoolInv
<1> QED
  BY <1>1, <1>2, <1>3, CoreHolds, PTL DEF Spec
=============================================================================
