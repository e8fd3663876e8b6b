# LoyalUP: a verification development

LoyalUP is a multi-tenant loyalty service for restaurant networks: guests open a VK
mini-application, play a wheel game, collect points ("coins"), buy products and show
gifts to the staff; administrators run reward campaigns and VK broadcasts. The backend
is Django on PostgreSQL (one schema per network), with celery workers and Redis. This
directory holds TLA+ models of the parts where points, gifts and messages change hands,
TLC configurations that check them on small instances, and theorems checked by TLAPS.

All paths below are relative to `src/apps/`.

## 1. What the system consists of

Every handler is a Django request or a celery task. State is rows of PostgreSQL, read
and written in READ COMMITTED transactions, sometimes under `SELECT ... FOR UPDATE`;
the processes share nothing else, so components interact through rows.

| Component | State | Operations | Hard behaviour | Correct when |
|---|---|---|---|---|
| Game (`tenant/game`) | `ClientAttempt` rows, the GAME `Cooldown`, signed tokens | start, claim, reset cooldown | a token is a read that is used ten minutes later; overlapping requests of one guest | the n-th game pays the n-th reward once; late games need the code of the day; the cooldown holds |
| Delivery codes (`tenant/delivery`) | `Delivery` rows: who activated, whether still usable | register (webhook), activate, burn by a claim | five digits are shared by several codes; repeated webhooks; two guests with one code | an order pays for one game and is not taken over |
| Loyalty ledger (`tenant/loyalty`) | `CoinTransaction`, `LoyaltyOrder`, `LoyaltyIdempotencyKey` | accrue, redeem, refund | retries and overlapping retries, lock order, two views of one balance | a call takes effect once, everybody gets one answer, a refund reverses its order |
| Shop (`tenant/catalog`) | `CoinTransaction`, the SHOP `Cooldown`, `InventoryItem` | buy, start the cooldown | competes with the ledger for the same balance | never spends more than there is |
| RFM campaigns (`tenant/analytics/rfm_campaigns.py`) | campaign, member rows, gifts, points | run, continue after a time limit, finalize, cancel | overlapping runs, time limits, cancel during a run, guests who use the reward meanwhile | one reward per member; the cancel is complete; the counter counts |
| Reward catalogue (`tenant/inventory/reward_catalog.py`) | `issued_count` against a limit | issue, revoke | several issuers, compensation after failures | the counter equals the gifts that exist |
| Manual broadcasts (`tenant/senler/services.py`, `tasks.py`) | send and recipient rows | run, continue, cancel, delete from VK | soft time limits between VK and the row, lost answers, cancel against start | no message twice, cancel stops it, it ends |
| Automatic broadcasts (`tenant/senler/engine.py`, older tasks of `tasks.py`) | deduplication log, reminder flags, gifts, an advisory lock | rules every 15 minutes, birthday, after-game, reminder tasks | the log is read at the start and written after each message; a gift comes before its message | one message per event and guest, limits hold, no gift without a message, everybody is written to |
| Guest inventory, POS plugin, story and apology gifts (`tenant/inventory`, `tenant/branch/apology_gift.py`) | gifts: waiting, active, used; vouchers; the INVENTORY `Cooldown`; cost records | claim, activate, redeem at the till, administrator's actions and forms | requests at several profiles of a guest, locked by guest or by profile; forms that save old rows; deadlines between check and write | a gift is charged and handed out once, a cooldown lets one gift through, each cause gives one gift |
| Quests (`tenant/quest`) | one submission per guest and quest | activate, submit | cooldown against retries | pays once |
| Conversations and AI replies (`tenant/branch/api/services.py`, `tasks.py`, `tenant/analytics/auto_reply.py`, `tasks.py`, `tenant/mobile`) | conversation and message rows, drafts, planned answers, the celery queue, a debounce key in the memory of each process | callbacks and poll bring messages in; classify, draft, plan, send, acknowledge; staff answer, cancel, reject, regenerate | nothing is locked; seconds of VK or of a language model between read and write; messages out of order, tasks lost or delivered twice | one automatic message, no message hidden unanswered, no outdated answer, every plan ends |
| Profiles, receipts, review proofs (`tenant/branch`) | profiles, visits, proofs | registration, moderation | unique keys and single row locks | one profile per guest |
| Analytics, marketer, other mobile views, `shared/*` | reports, posts, accounts | read models, AI calls | mostly input and output | not considered |

Interactions: the delivery component pays for games (`claim_game` burns the row that
`activate_delivery` opened); game, shop, ledger, quests and campaigns write one table
`CoinTransaction`; campaigns, rules and story gifts issue from one catalogue counter;
broadcasts, campaigns and rules send through `send_vk_message`. Callbacks, the poll, the
assistant's tasks and the staff meet in the row of a conversation.

`PROJECT.json` lists each component with its status, and each hazard at its line.

## 2. The modules

| Module | Models | Used by |
|---|---|---|
| `GameSession` | game and delivery codes of one branch | `MCGameSession`, `GameSessionProofs` |
| `GameSessionProofs` | the theorems of section 5 on games | |
| `LoyaltyLedger` | service API, its idempotency, and the shop, for one guest | `MCLoyaltyLedger`, `LoyaltyLedgerProofs` |
| `OnceLedger` | abstract: a call takes effect at most once, in one step | instantiated in `LoyaltyLedger` |
| `LoyaltyLedgerProofs` | the theorems of section 5 on the ledger | |
| `RewardCampaign` | one campaign with its runs, cancel requests, guests and position | `MCRewardCampaign`, `RewardCampaignProofs` |
| `RewardCampaignProofs` | the theorems of section 5 on campaigns | |
| `Broadcast` | one broadcast request with its sends, task and administrators | `MCBroadcast`, `BroadcastProofs` |
| `BroadcastProofs` | the theorems of section 5 on broadcasts | |
| `AutoRules` | rules engine and older tasks of one tenant on one deduplication log | `MCAutoRules`, `AutoRulesProofs` |
| `AutoRulesProofs` | the theorems of section 5 on automatic broadcasts | |
| `GiftInventory` | the gifts of one guest over his branches, the till, staff and the clock | `MCGiftInventory`, `GiftInventoryProofs` |
| `GiftInventoryProofs` | the theorems of section 5 on gifts | |
| `ReviewReply` | one conversation with its messages, the assistant's drafts and plans, and the staff | `MCReviewReply`, `ReviewReplyProofs` |
| `ReviewReplyProofs` | the theorems of section 5 on conversations | |
| `Sums` | lemmas: the sum of a function over a finite set | `LoyaltyLedgerProofs`, `AutoRulesProofs` |

**Granularity.** A transaction that holds its row lock from the first read on is one
action. A handler is split at each point where it uses, without a lock, a value it read
before: `start_game` is three actions (cooldown, count, token), `activate_delivery` two
(its idempotent lookup, the locked row), `_with_idempotency` two plus the operation.
A lock that is held between two actions is the program counter of its holder
(`ProfileLocked`, `OrderLocked`). A refusal that writes nothing is a false guard.

**`GameSession`.** `games[g]` is the sequence of `ClientAttempt` rows with what each paid
and under which conditions (`Award`; `cooling`, `checkedOn` and `paidBy` are history). A
token is a record in the set `tokens` until `TokenExpires`. `Row.open` abstracts
`expires_at > now`: codes live for years and are closed by the burn. Environment: the
cooldown lapses, the code rolls over, the guest subscribes or leaves.

**`LoyaltyLedger`.** `balance[b]` is the sum of the transactions of the guest at branch `b`.
`Begin` is the key lookup that found nothing; `Accrue`, `RedeemCommit` and `RefundCommit`
perform the movements, the order row and the key in one step and roll back on a lost
unique key (`Conflict`). `DeadlockAbort` is PostgreSQL's choice of a victim.
A purchase locks the guest's row beside the profile (`select_for_update` without `of` locks
what it joins: `GuestLocked`), checks the balance only if the product costs something, and
sells a free one also to a guest whom a refund has left below zero. `net`,
`applied`, `answers`, `reversed` and `orderly` are history. `orderly` remembers whether the
backend has so far sent the calls of each order one after the other (accrue, then redeem,
then refund): nothing keeps it from doing otherwise, and the two properties about orders
speak of the behaviours in which it did not.

**`RewardCampaign`.** `proc[p]` is a celery run or a cancel request. The reward of a member
is one action (its own transaction under the row lock), the message another. A cancel
works on rows it listed, so listing and revoking are two actions. Any exception of one member is
swallowed: `CancelFails` leaves the member assigned, with the gift, and the cancel goes on
and ends; `failed` remembers whom it concerned. `TimeLimit` is the soft time limit, after
which the task queues a continuation, `MaxRequeues` times; a run that is out of them
(`GaveUp`) only finalizes. `Killed` is a lost worker or request: nothing restarts it.

**`Broadcast`.** `task` is the one celery task of the request. The status of a send is read
(`Refresh`), overwritten (`Start`), read every `CheckEvery`-th recipient (`NextRecipient`),
and overwritten at the end (`Finish`): these are the lines of the code, and no lock
orders them with `CancelRead`/`CancelSave`. `processed` counts modulo `CheckEvery`, which
is all the code asks of it. `TimeLimit` may strike between any two steps;
`WorkerKilled` also stands for the time limit that strikes between two sends, outside of
the `try` of the task, which ends the task the same way.

**`AutoRules`.** One deduplication period (a year, a day). `log[e][k]` counts the rows of
`AutoBroadcastLog` of event `e` under key `k`, a guest or a gift (`EventSpec.dedup`).
`run[t]` is a celery task: an engine goes from rule to rule, an older task serves its one
event. `Resolve` is `resolve_recipients`: everything is read there, once; `Found` leaves open whom a resolver finds at a tick,
since it looks at a window (twenty minutes some hours after a game, the day of a birthday,
a gift until it is claimed); only those in `steady` are found by the first rule at every
tick. `Batches` leaves open which profile of a guest comes first and who fills the slots
that are left. The weekly cap neither holds back nor counts the messages of birthday
events (`Counted`). Then each candidate is a chain of steps in the order of `run_rule`: gift, text by
balance, VK, log row, flag, or revocation. The older reminder task flags before it writes
a row, and that row does not name the gift; the engine does both the other way round.
`lock` is the advisory lock `guard_pilot` takes for a tenant with a daily limit. `Interrupted`
is a time limit, a crash or a query that raises, between any two steps. `sent`,
`promised`, `unrecorded` and `faults` are history.

**`GiftInventory`.** `gift[i]` is a row of `InventoryItem` or `StoryGiftEntry`, numbered in
the order of insertion; `late` and `over` say which of its two deadlines have passed.
Requests that lock are two steps, what they read under the locks and what they write; a
lock is the request of its holder (`ProfileLocked`, `GiftLocked`, `VoucherLocked`, and
`GuestLocked`: the queries that lock a profile join the guest, `select_for_update` without
`of` locks that row too, and so requests at two branches of one guest wait for each other). An
insert waits for the lock of the profile it refers to, as the foreign key does. Actions
of the administrator are one `UPDATE ... WHERE`; a change form is two steps, because it
saves all columns of a row it read before. `ActivateCommit` ignores the answer of
`activate()`, and `PrizeCommit` that of `claim()`, as the code does. `costs`, `reopened`,
`handed`, `erased`, `started`, `paid`, `returned` and `raced` are history.

**`ReviewReply`.** `dialog` is what was said in VK, in the order of its ids, `rows` how many
message rows each has (there is no unique key: the callback and the poll may both store
one). `conv` is the conversation; texts are numbered (`ver`), and a number is also the hash
that serves as the ticket of a plan (`auto_send_draft_hash`), 0 being that of the
acknowledgement, whose text never changes. `queue` holds the celery tasks: drafts that are
due, the debounced one, and planned messages by ticket. `proc[p]` is a handler, a worker or
a request of the staff. A read and the write that follows it without a call to VK, to the
model or to the broker in between are one step, with two exceptions that matter: the
decision to plan (`PlanRead`, `PlanWrite`), and the object that the staff and the handlers
have read before (`was`, the `auto_send_status` that `cancel_auto_send` looks at first).
`Row` joins the message row, the conversation and the final status of a plan, which follow
each other at once. A plan waits for at least five minutes and a debounce for three, so no
time is modelled: a task may run whenever it is in the queue. `note` and `races` are
history: which messages were classified, what got lost, which generation found its thread
answered (`moot`), and which unlocked sections have met. Folded: all that makes a sentiment
or a branch unfit for an answer (neutral, spam, needs a human, only numbers, switched off)
is the mood "other".

**Scenarios.** `GameSession`, `AutoRules`, `GiftInventory` and `ReviewReply` choose in
`Init` one record of `Scenarios`: who takes part, which settings the tenant has and which
operations take place. One run then covers several small instances that would be one large
product; the theorems hold for every set of scenarios.

## 3. The runs

| Run | Instance | Shows |
|---|---|---|
| `game_race` | 1 guest, 1 code, 2 workers, 2 days, 3 games, 2 tokens; or 2 guests, 2 codes with the same five digits, 2 workers | reward table and code of the day under any overlap of requests; an order pays once and is not taken over |
| `game_orderly` | one request of the guest at a time, 2 registrations | the cooldown, and that an activated order can be played |
| `game_cooldown_race` | as `game_race`, 2 games | **violation**: cooldown evaded by overlapping requests |
| `ledger_once` | 1 branch, 3 workers, 5 keys on one order, 2 purchases, paid or free | idempotency, one answer, no overdraft, orders, refinement of `OnceLedger`, calls end |
| `ledger_overdraft` | 2 branches | **violation**: two branches spend one balance |
| `campaign` | gifts or points; 2 members and 1 control, 2 runs with 1 continuation each, 1 cancel, limit 1 with another issuer | reward, message, counter, refund, cancel, every member is decided on |
| `campaign_activated` | 1 member | **violation**: an activated gift is deleted |
| `broadcast_send` | 2 sends, 2 guests, 1 continuation, 1 cancel | stop after cancel, repeats, completeness, end |
| `broadcast_cancel` | 1 send, 3 guests, check every 2 | **violation**: an accepted cancel is overwritten |
| `auto_rules` | 10 tenants: 2 guests, one with two profiles or gifts, 2 engines or an engine and an older task, 1 to 3 rules, birthday rules beside a cap, 1 or 2 faults | repeats, daily and weekly limits, gifts and their messages, who is found at every tick is written to |
| `gifts` | 5 tenants: 2 profiles, 3 gifts, 1 voucher, 2 orders, 2 workers, 2 years, 2 resets or forms | charged once, handed out once, cooldown, one gift per cause |
| `review_reply` | 11 conversations of 1 or 2 messages, 2 handlers, 2 workers, 1 request of the staff, 2 automatic drafts, up to 2 faults | one automatic message, answered means answered, no outdated answer, plans end |

**Bounds.** The code of the day is asked from the third game on, so three games are played; two
tokens and two workers give every two-party overlap, and no handler waits for more than
one other. Two codes under one short code are the collision. Three workers are needed in
`ledger_once` for a waiting cycle next to a third call. `CheckEvery` (10 in both loops)
is 1 or 2, `MaxRequeues` (40) is 1: the limit is reached within the run, and the
behaviour beyond a continuation repeats. In `campaign` two members and another issuer
compete for one place. In `auto_rules` a fault followed by a second one
is the longest chain a property tells apart, a limit of two contacts meets three
candidates, and two profiles of one guest are what deduplication is about. In `gifts`
two workers and the one-step actions of staff and the clock give each pair of handlers;
two gifts share a cooldown and a third one can still be inserted; two years separate the
birthday gifts of one profile; two resets allow a reset of what a form has restored. Sets
of guests, orders and members are as small as the properties allow, which speak of one or
two of them at a time. In `review_reply` a second message
meets every stage of the answer to the first, two workers are two overlapping tasks or a
draft beside a send, `DraftCap` (8) is 2, which two generations of the first message that
overlap use up before the second is drafted for, and a second fault can follow the first
(a task is postponed, then delivered twice).
Each scenario leaves out the actors its question does not need; `Together`, `Again` and
`Quarrel` bring them together. Symmetry is used in safety runs only, over workers, orders and
guests. Amounts are chosen so that sums differ.

**Deadlock** is checked in the game, ledger and rule runs; campaigns and broadcasts end,
and a guest may have used up all the gifts of an instance, so their runs switch it off.

**Fairness.** Workers finish what they began (weak); a call of the ledger that is able to
go on again and again between locks of others goes on (strong: PostgreSQL queues lock
waiters), and a deadlock is broken (`deadlock_timeout`). Celery runs what it has queued, also
the continuation after a time limit. Nothing starts a campaign again whose run was killed or
used up its continuations: `EveryMemberDecided` excepts the states in which that has
happened to every run, or in which the cancel that stopped the runs was killed
itself. A killed broadcast worker is *not* restarted (the task is acknowledged when it begins): `EverySendEnds` excepts the sends of such a task. Beat starts the rules of a
tenant every 15 minutes and a task that runs goes on (both weak); nothing is assumed of VK.
`EverybodyIsWritten` therefore speaks of guests whom the first rule finds at every tick, a
birthday or an absence within its day, a gift not yet claimed, and says that one of them is
left without a message only if VK refuses again and again. Of a guest whose window has
passed, because the tick was lost, cut short or refused, the code promises nothing, and
nothing is claimed here. In `review_reply` messages
are brought in, queued tasks are run and begun requests end; nothing obliges the staff to
act, VK to accept, or a lost task to come back. `ActivatedOrderIsPlayed`
assumes a guest who keeps trying; it says that the system never locks him out.

## 4. What the violations show

Each is recorded as a finding with the quoted document or comment.

1. `game_cooldown_race`: `start_game` reads the cooldown, a concurrent claim commits, and
   then the count is read; the claim of this second token is accepted.
2. `ledger_overdraft`: `create_transfer` guards the balance of one branch, `redeem` the
   balance of the network.
3. `campaign_activated`: `revoke_issued_item` trusts an object read before the activation.
4. `broadcast_cancel`: `run_broadcast` saves `running` over an accepted cancel.

Smaller disagreements noticed while modelling, with no run of their own: a café start while
a delivery code is active returns a token that no claim accepts; activating a code whose row
was re-opened meanwhile may answer success without effect; a redeem before its accrue is
never linked, although the comment in `redeem` says a record is created; a repeated redeem
that overlaps its original may get `insufficient_balance` instead of the first answer; two
overlapping cancels of a campaign list the same gift and return its place twice, although
the docstring (`rfm_campaigns.py:366`) calls a repeated cancel safe;
`finalize_campaign` may write `completed` over `cancelled`; of a guest with two profiles the engine keeps one before it looks whether that branch can send, so the
guest may be passed over at every tick; the older task does not ask the weekly cap (only
`senler/engine.py:789` does), although its help text promises at most so many automatic
messages to one guest in seven days (`shared/config/models.py:187`); a change form saved
late takes back an activation or a hand-out; a gift or voucher that expires within a request
is charged, or paid, all the same; a free product is sold to a guest whose balance a refund
has left below zero; the weekly cap, whose help text promises a number of automatic messages
(`shared/config/models.py:187`), exempts birthday messages (`senler/engine.py:813`). The older
broadcast task and the engine, started together, both read the log before either writes to
it, so that a guest is written to twice, although `senler/engine.py:15` and
`senler/models.py:478` say that the common log excludes it; it does when they run one after
the other, or when the tenant has a daily limit and both are engines.

Of the conversations: two deliveries of one planned task that overlap both send, although the
docstring of `auto_send_review_reply_task` calls a repeated start a no-op; a task that
has begun sends, and writes `sent`, after a cancel that was answered with success; a
photo without text, or a message whose classification failed, does not withdraw the plan;
a message that is stored while somebody answers is hidden by `is_replied`; the echo of the
acknowledgement, when it arrives as `message_reply` before its row is written, marks the
thread answered; a plan whose task got lost stays scheduled and keeps every later plan
away; a regenerated draft keeps the old `ai_draft_message_id`, so the next automatic
draft replaces it; a message brought in after a later one does not make the draft stale.

How far the properties of `auto_rules`, `gifts` and `review_reply` go is itself a result,
because each names what is needed to break it: a repeated message needs an overlap or a
message left unrecorded, a second hand-out an erased one, a second cost record a reset,
a second apology two grants at once, a second automatic message two processes that decide at
once or a send that left no trace.

## 5. What is proved

Eight modules hold theorems, seven on the components and `Sums`. TLAPS checks them for every
value of the constants, from the named assumptions of the modules they are about and nothing
else. Every safety invariant and action property of the passing runs is a theorem, under the
conditions named below.

**Assumptions.** Sets that are counted or summed over are finite: members of a campaign, branches
of a network, guests and candidates of a tenant, events, processes, codes; they are rows of
one database, entries of an enumeration, or workers of a pool. Prices, first balances and
limits are natural numbers (`PositiveIntegerField`). `ScenariosAssumption` types the scenarios, and
that of `AutoRules` adds that a tenant has rules and that a daily limit, which concerns events
of RF segments only, comes without an older task (none serves those events). TLC evaluates
each of them in the runs.

### Ledger and shop

`LoyaltyLedgerProofs`, for every number of branches, orders, keys, workers and calls:

- `TypeCorrect`: `TypeOK` is inductive as it stands.
- `IdempotentCalls`, `SameAnswer`: `KeyAppliesOnce` and `OneAnswerPerKey` are not inductive;
  together they are `CallsAreIdempotent` (`RepeatsAreHarmless`); `KeyInv` adds that a key
  was applied exactly if its row exists and that each answer equals the row. The lemma
  `KeySteps` says that a step either records one free key with its response (`Takes`) or
  leaves keys and answers consistent (`OnlyReads`); the nine ways a step can be taken are
  looked at once, there.
- `Refinement`: `Spec => ImplementsOnceLedger`. A step that takes a key maps to `Apply`, a
  `BuyCommit` to `Buy`, all others stutter. That a purchase never takes points the profile does not hold needs `LockInv` (profile locks exclude each other) and `PayableInv` (the
  balance that was checked is still there when the purchase commits, because everything
  that lowers a balance respects the lock).
- `RefundsAreNeutral`: as long as the calls of each order came in order, a refunded order
  nets to zero and an active one carries its movements. The invariant is `orderly =>`
  `BooksInv` (the sum of the movements of an order in terms of its row) and `FlightInv`
  (what a worker between two steps may rely on: its order is still as it was read, because
  the caller does not send anything else for it); `OrderIsLostForEver` says that a step
  never restores `orderly`, so a step into an orderly state comes from one.
- `OrdersCarryMovements`: `OrderCarriesMovements`, from the same invariant.
- `OverdraftsAreRefunds`: `OverdraftInv` says of the network balance, which is a sum over the
  branches, that adding back the accruals that were refunded makes it non-negative, and that a
  redeem between its check and its commit still finds its amount. It holds for a guest with
  one profile, or a network whose products are all free (`OneProfileOrFreeShop`); otherwise a
  purchase looks at one branch only and the run `ledger_overdraft` refutes it.

`Sums` has what the proofs need of sums: what one changed summand does to a sum, when it is a
natural number or zero, and that `SumFunctionOnSet` of the community modules is this sum. The
library's induction over finite sets takes an operator and is out of the provers' reach; the
lemmas take a least set that violates them instead (`LeastSet`, from the well-foundedness of
strict inclusion).

### Broadcasts

`BroadcastProofs`, for every number of sends, guests, cancel requests and continuations:

- `TypeCorrect`: `TypeOK` is inductive as it stands.
- `CancelledStops`: `CancelledSendStops` is not inductive, because a message leaves only if the
  last look at the status is recent. `CheckInv` relates the two: inside the loop a cancelled
  send has written to no more guests than it has visited since the last look, one more
  while an outcome is to be saved, and a run that has not reached its loop has visited
  nobody.
- `DoneComplete`: `DoneIsComplete` follows from `RowsInv`: every recipient that is still
  pending is still to be visited, the outcome in hand is backed by a delivery (`HandInv`),
  no send the task has yet to finish is done (`AheadInv`), and every row called sent was
  delivered (`SentInv`).
- `RepeatsAreCounted`: `RepeatsNeedTimeLimit` counts the messages beyond the first of each
  recipient. A time limit endangers one more: `CountInv` says that the repeats and the
  guests at risk of one (`AtRisk`: the message is out, the row is still pending) are
  together no more than the continuations so far. `TodoInv` and `FreshInv` keep the guests
  ahead and the sends ahead untouched.

### Campaigns

`RewardCampaignProofs`, for every number of members, runs, cancel requests, points and limits:

- `TypeCorrect`: `TypeOK`, with `PcInv` (runs never cancel, cancels never reward).
- `OneRewardOneMessage`: `RewardInv` (a pending member has no reward and is not of the control
  group) and `MessageInv` (a run about to write holds its member alone, and the reward
  of the member is not announced yet).
- `CancelCompletes`: `CancelInv` goes through a cancel: a gift nobody activated belongs to an
  assigned member; once it has stopped the pending ones none are left; an assigned member
  is still in its list, or has used the gift, or cancelling that member failed; and so it
  is when it finalizes. Nothing else may give a reward
  meanwhile, because every reward asks for a pending member.
- `CampaignAddsUp`, `CounterCountsGifts`: with `RefundInv` (whoever is in the list of a cancel was
  rewarded and not refunded) and `IssueInv` (what it lists as not activated still exists).
  Both are false when two cancels go through their lists at once, which the code does not
  prevent: they assume `[]CancelsTakeTurns`. `OneCancelTakesTurns` shows that one cancel request
  satisfies the condition.

### Automatic broadcasts

`AutoRulesProofs`, for every number of guests, gifts, events, tasks, rules and scenarios. The
invariant is `IInv`, the conjunction of `TypeOK`, `RunInv` (what a task knows at each step),
`TurnsInv` (ticks that do not overlap leave one task at work, a daily limit one engine with
the lock) and one part for each property:

- `TypeCorrect`: `TypeOK`.
- `GiftsAnnounced`: `GiftInv`: gifts equal announcements plus those that a task still owes
  (`Owing`), up to one per fault in each direction.
- `OneGift`: `OneGiftInv`: a task about to issue a gift has found none, and nobody else is at work.
- `RepeatsNeedOverlapHolds`: `RepeatInv`: the messages under a key and the tasks that may
  still write to it (`Intending`) are together at most one per task, or one where tasks take
  turns, beyond the unrecorded ones; and while the key is not on record where all tasks
  look, every message under it is unrecorded or about to be recorded (`Recording`).
  `BatchInv`: an engine has a key once in its batch.
- `LimitsHold`: `LimitInv` is `Quota` for the tenant and for each guest. What was sent and what
  the engine still has to send is within the limit, and the log has all that was sent but
  the message in hand, both up to the unrecorded ones. `resolve_recipients` and `guard_pilot`
  count the log, so a batch fits (`BatchFits`), and every later step keeps both counts
  (`Keeps`). Messages about birthdays are neither counted nor capped. The
  weekly cap is left out for tenants with an older task, which sends beyond it.

### Conversations

`ReviewReplyProofs`, for every number of handlers, workers, requests of the staff, scenarios and
every `DraftCap`. `TypeInv` is `TypeOK` with the types of the history and where each kind of
process may be (`PcInv`):

- `TypeCorrect`: `TypeOK`.
- `OneMessage`: `OneInv`: while no two processes have been deciding or sending at once, the
  automatic messages are at most the unrecorded ones, plus one if the conversation says
  `sent` or one is about to be recorded; and who is about to plan or to send has found that
  nothing was sent.
- `RepliedIsAnswered`: `AnswerInv`: an answered thread has an answer above all that is stored,
  and so is every answer that somebody is about to record (`Knower`); what is stored under
  one in flight is the race "answers".
- `RepliesKnow`: `RepliesKnowTheNews`, an action property, from `NewsInv`. `HeardInv`: what was
  classified is stored. `DraftInv`: one draft is written at a time, it was shown more than the
  last one, and the mark `ai_draft_message_id` covers nothing it was not shown; hence a
  draft that is not stale knows all that is stored. `Awaited`: the draft knows all that was
  classified, or a generation that does is due, waits or is at work. `Informed`: until a message
  becomes known beside a draft, every plan, and every process about to make one, rests on a
  draft that knows all.

### Gifts

`GiftInventoryProofs`, for every number of profiles, gifts, vouchers, orders, workers, years
and scenarios. `Base` is the conjunction of `TypeOK`, `RowsInv` (a locked row is still as
its request read it; a form knows whose row it holds) and `LockInv` (two requests never
hold one lock). Everything else is proved next to it, one invariant per property:

- `GiftTypes`: `TypeOK`, which needs `RowsInv` for the commits.
- `GiftsAreChargedOnce`: `CostInv`: a gift has no more cost records than resets, and one
  more if it is activated or its deadline has passed (the activation that nobody noticed
  had failed); a gift about to be activated has no more than resets.
- `GiftsAreHandedOutOnce`: `HandInv`: every hand-out was erased, or the gift is used.
- `CooldownsHold`: `CooldownInv`: a profile that started a gift is in its cooldown, and a
  request that is about to start one has found none started, under the lock.
- `BirthdayGiftsAreOnceAYear`: `BirthdayInv`: what a claim has checked of the guest's gifts of
  the year stays true until its insert, since every other claim waits for the guest's row.
- `VouchersPayOnePrize`: `PrizeInv` (a voucher has paid as often as it was reopened, and
  once more if it is claimed or has expired) and `ApologyInv` (as long as no two grants overlapped, what a grant checked is still true,
  since nobody else inserts).
- `CausesGiveOneGift`: `OneGiftPerCause`, from the last two.

### Games

`GameSessionProofs`, for every number of guests, codes, workers, days and scenarios (codes
and workers finite, so that rows and requests can be counted). `Core` is the conjunction of
`TypeOK`, `LockInv` (a guest has one claim in flight, and its token carries the current
count) and `TokenInv` (a token promises what the table gives the attempt it counts to).
The lemmas `WorkerSteps`, `ClaimSteps`, `AwardSteps` and `RowSteps` say once how a request,
a claim, the attempts and a delivery row can change:

- `GameTypes`: `TypeOK` is inductive as it stands.
- `RewardsFollowTable`: by `AwardSteps` a new attempt is the one a claim in flight carries;
  `LockInv` makes its number the count of its token plus one, `TokenInv` its reward.
- `LateGamesAreConfirmed`: `CodeInv`, what a claim in flight has checked of the code.
- `ActivationsAreExclusive`: `RowInv`, that a row nobody registered is nobody's.
- `OrdersPayOnce`: `OrderPaysOnce` is not inductive, since a claim pays after it has looked at
  the order. `OrderInv` counts, for each code, the games paid, the claims in flight
  (`Paying`), the resets in flight (`Saving`) and the order that is open and not yet being
  claimed by its guest (`Due`): together at most the orders registered.
- `OrderlyCooldowns`: `CooldownGamesArePaid` as long as `scenario.orderly`. `CoolInv` says that a
  token signed outside a delivery is out of date once the cooldown runs (the claim that
  started it was an attempt, so the count has moved on) and that requests between two steps
  have seen no cooldown that runs; `OneRequest` keeps it true while they wait. Without
  `orderly` it is false (run `game_cooldown_race`).

### What the proofs changed

Two properties that TLC had found true were false beyond its instances; the attempt to prove
them said why. `ContactLimitsHold` spoke of the weekly cap for tenants with an older task, which
never reads the cap. `RepliesKnowTheNews` missed a case that needs three messages of the guest,
or a message stored twice: one becomes known beside a draft, the staff answer, its
generation then finds the thread answered and does nothing, a photo or a second row reopens
the thread, and the plan made for the old draft is sent. The exception is now named (`note.moot`);
the plan itself is kept because only a classified text withdraws it.

### Only model-checked

Liveness (TLAPS has no fairness here): `CallsFinish`, `EveryMemberDecided`, `EverySendEnds`,
`EverybodyIsWritten`, `EveryPlanEnds`, `ActivatedOrderIsPlayed`. The four violations need no proof:
each is a behaviour that TLC shows.

## 6. Plan

Done: sections 2 to 5. Still to be written, in order of importance:

1. Proofs: what is left of the safety properties is the weaker half of those with a condition:
   how far two cancels of a campaign can drift apart, and the network balance of a guest
   with several profiles in terms of what purchases took beside a redeem.
2. A second cancel request in `campaign`, once the counter is released by the row that is
   deleted: today `IssuedCountsGifts` fails with two.
3. The cursor of the poll and the creation of conversations, whose race can leave a guest
   with two; then receipts and review proofs.

New runs replace those of the present table that have said what they had to say, so that
the whole project stays checkable in minutes.

## 7. Not modelled

Tenant routing, authentication, serializers and wording; reporting, statistics and RF
scores; language-model calls; the clients of VK, POS and iiko (their effect appears as a
choice of outcomes); migrations and deployment. Quests are one handler under one row lock.
Who an automatic rule is about (audiences, segments, windows of days, A/B variants) is a
selection over data: `AutoRules` lets any candidate be found or missed. It leaves out the
rules of a tenant with a daily limit that are not about RF segments (they take no lock and are
not counted), and it leaves the orchestrator's
windows of 72 hours and of 14 and 30 days out because they look at other periods than the
one modelled. Forms of vouchers and story gifts are left out; the form of a gift stands
for the hazard. Of the conversations the daily limit of automatic messages, reminders,
pushes, the unread flag, stickers, old history and messages of the mini-application are left
out; the limit is a count over all conversations, the others do not decide on an answer.
Time is abstract: a cooldown lapses, a
code rolls over, a token expires at any moment. Amounts are unbounded integers: no sum
in the code comes near the width of its column.

## 8. Running

    tlc -config game_race.cfg MCGameSession.tla
    tlapm LoyaltyLedgerProofs.tla
    tlapm BroadcastProofs.tla
    tlapm GiftInventoryProofs.tla
    tlapm GameSessionProofs.tla
    tlapm RewardCampaignProofs.tla
    tlapm AutoRulesProofs.tla
    tlapm ReviewReplyProofs.tla
    tlapm Sums.tla
