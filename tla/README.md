# Verification of ProfHit

ProfHit is a prediction game: a Go backend (Gin, GORM, PostgreSQL) and static
pages. Users earn coins (daily check-ins, referrals, achievements, purchases),
stake as many of them as they choose on a prediction, and win the market's fixed payout
when an admin resolves it with their answer. Coins expire after a year and can
be redeemed for vouchers.

Everything that matters is a PostgreSQL transaction at READ COMMITTED, run by
one of many concurrent HTTP handlers or by a background job, possibly in
several replicas of the process. The code protects itself with row locks
(`SELECT ... FOR UPDATE`), conditional updates (`UPDATE ... WHERE status = ?`)
and unique keys. The models below have those transactions as processes, one
action for each point at which another transaction can get in between, and ask
whether the locks suffice.

## 1. Inventory

Paths are relative to `src/backend/`.

| Component | State | Operations | Interacts with |
|---|---|---|---|
| Wallet ledger and coin batches (`services/wallet_service.go`) | `users.points`, `wallet_ledgers`, `coin_batches` | `CreditWallet`, `DebitWallet`, `addLedgerEntry`, `ExpireCoinBatch`, `LockWalletTx` | called inside the transaction of every component that moves coins |
| Hourly jobs (`services/cron.go`) | batches, notifications | `processCoinExpiries`, `sendExpiryReminders`, `processReferralPayouts`, wild card, session clean-up | wallet, referrals, markets |
| Minute job (`services/cron.go`) | `markets.status` | `transitionMarkets` | markets |
| Markets (`controllers/market_controller.go`) | `markets`, statistics of `users` | create, propose, approve, state changes, archive, `ResolveMarket` | predictions, wallet |
| Predictions (`controllers/prediction_controller.go`) | `predictions`, `markets.volume` | `SubmitPrediction` | markets, wallet, referrals, achievements, hub |
| Daily check-in (`controllers/streak_controller.go`) | `user_streaks` | `DailyLogin` | wallet |
| Referrals (`services/referral_service.go`) | `referral_events` | `ProcessReferral`, `TriggerReferralEventTx`, `PayReferralEvent` | wallet, predictions, payments, registration |
| Payments (`controllers/payment_controller.go`) | `payment_transactions` | create order, verify, webhook, `settlePayment` | wallet, referrals, the payment provider |
| Vouchers (`controllers/payment_controller.go`, `queue_controller.go`) | `withdrawal_requests` | `RedeemVoucher`, `ApproveWithdrawal`, `RejectWithdrawal` | wallet, identity verification |
| Reward catalogue (`controllers/reward_controller.go`) | `reward_items.inventory`, `redemptions` | `SubmitRedemption`, `AdminProcessRedemption` | wallet, identity verification |
| Identity verification (`controllers/kyc_controller.go`) | `hyper_verge_kycs`, `users.kyc_status` | `StartKYCSession`, `HypervergeWebhook` | wallet lock, referrals, the provider |
| Sessions and passwords (`controllers/user_controller.go`, `oauth_controller.go`, `middleware/auth.go`) | `revoked_tokens`, `users.token_version`, passwords, `password_reset_tokens` | register, log in and out, forget and reset, validate | every handler |
| Administration and moderation (`controllers/admin_controller.go`, `moderation_controller.go`, `report_controller.go`, `comment_controller.go`) | roles, `is_active`, `is_muted`, `suspended_until`, reports, comments | bans, role changes, reports | sessions |
| Achievements (`services/achievement.go`) | `user_achievements` | `UnlockAchievement` | predictions, wallet |
| Websocket hub (`services/websocket.go`) | clients, bounded channels | register, unregister, broadcast | markets, predictions |
| Rate limiter (`middleware/ratelimit.go`) | buckets by address | take, sweep | every handler |
| Daily wild card (`services/cron.go`) | one draft market a day | `publishDailyWildCard` | markets |

The remaining parts (mail, audit log, unused challenge tables, read-only
handlers, configuration and migrations, the frontend) keep no state that a
decision depends on. `PROJECT.json` lists all of them with the reason.

What is hard, and what makes each component correct:

- **Wallet.** Every balance is read, computed on and written back. Correct means
  that no interleaving loses a movement, the ledger explains the balance, the
  batches add up to it, coins leave oldest first, and a batch expires at most
  once, although the job works from a scan made before its transactions.
- **Markets and predictions.** A prediction, a resolution, the minute job and
  the admin's state changes meet on one market; a prediction locks one or two
  wallets, a resolution many. Correct means that predictions are decided
  together and paid once, the daily limit survives races, states follow their
  order, a market past its time closes, and no transaction hangs.
- **Check-in.** The day is read before the lock. Correct means one reward a day,
  and a streak that matches the history of rewards.
- **Referrals and achievements.** The same event is triggered by different requests
  under different locks and paid two days later by any replica; registration counts the
  cap in two queries, a milestone in one. Correct means each event exists
  once, is paid once, the cap holds however the requests race, and no milestone
  goes unrewarded while there is room.
- **Payments.** The provider calls back, the browser calls back, both may repeat
  or be lost. Correct means a captured payment funds the wallet exactly once, and that a
  crash between provider and database is made good by a retry.
- **Vouchers and catalogue.** Two admins, or an admin and a user, process the same
  request, one half of them under row locks and one half by a conditional `UPDATE`. Correct
  means paid once, then delivered or refunded, never both, and a stock that is never oversold.
- **Identity verification.** Webhooks of old sessions arrive late or twice, and the provider is
  slow under the wallet lock. Correct means that a user is verified exactly when a session
  of theirs is, and that no two requests open two sessions that are both in progress ("Started" or "Pending").
- **Sessions and administration.** A request is validated in several reads, a target is read
  and then written. Correct means that a token dead before the request came is refused,
  that a reset locks out the old password's tokens, that a link works once, that a report is
  decided once, and that nobody is banned by a lesser rank unless ranks changed meanwhile.
- **Hub.** Goroutines, bounded channels, slow readers. Correct means that an open connection
  misses nothing but what is dropped while the hub's own queue is full, and overhears nothing, that nothing
  but the one event in the writer's hand gets to a dead token, that the hub never waits, and that closed
  connections leave the map.

`PROJECT.json`, "hazards", names the lines where each of these bites.

## 2. Plan

Most important first; a tick marks what exists.

1. ✔ `Account` (what a wallet promises: one step per movement), `Wallet` (the
   code), `WalletInvariant` (its inductive invariant), `WalletProofs`.
2. ✔ `Betting` (what markets promise), `Market` (markets, predictions, the
   minute job, the referral event of a prediction), `MarketProofs`.
3. ✔ `Streak`, `StreakProofs`.
4. ✔ `Deposit` (what buying coins promises), `Payment` (provider, browser,
   webhook and database), `PaymentProofs`.
5. ✔ `Fulfilment` (a request is paid for, then delivered or refunded), `Redemption`
   (vouchers and the catalogue, over one set of wallets), `RedemptionProofs`.
6. ✔ `Bonus` (claims arise once, within the cap, and are paid once), `Referral`
   (registration, milestones, the payout job, achievements), `KycProofs`.
7. ✔ `Kyc`, composed with `Referral`, whose milestone it reaches and whose wallet locks
   it takes: the composition implements `Bonus` as well. `KycProofs` is about both.
8. ✔ `Session` (tokens, links, passwords), and `Moderation`, whose handlers are requests of
   `Session` and whose bans and roles those requests look at, `ModerationProofs`.
9. ✔ `Hub`, `HubProofs`.

Not to be modelled: the rate limiter and the daily wild card (section 7 says why).

Every invariant, action property and refinement the runs check is a theorem too; what is left to the model checker
is liveness. Every module with more than one kind of row lock states that nobody waits for ever. Worth adding next:
that a request is answered only after its commit.

## 3. Modules

| Module | Models |
|---|---|
| `Account` | a balance and the movements that explain it; `Wallet` implements it |
| `Wallet` | `wallet_service.go` and the coin jobs of `cron.go` |
| `WalletInvariant` | the inductive invariant of `Wallet`, in named parts |
| `WalletProofs` | theorems about `Wallet` |
| `MCWallet` | instances |
| `Betting` | markets, predictions and payouts in one step each; `Market` implements it |
| `Market` | `market_controller.go`, `prediction_controller.go`, `transitionMarkets` |
| `MarketProofs` | theorems about `Market` |
| `MCMarket` | instances |
| `Streak` | `streak_controller.go` |
| `StreakProofs` | theorems about `Streak` |
| `MCStreak` | instances |
| `Deposit` | a captured payment becomes coins in one step; `Payment` implements it |
| `Payment` | the buying half of `payment_controller.go`, with the first deposit's referral event |
| `PaymentProofs` | theorems about `Payment` |
| `MCPayment` | instances |
| `Fulfilment` | a request is paid for, then delivered or refunded, in one step each; `Redemption` implements it |
| `Redemption` | the vouchers of `payment_controller.go` and `queue_controller.go`, and `reward_controller.go` |
| `RedemptionProofs` | theorems about `Redemption` |
| `MCRedemption` | an instance |
| `Bonus` | joining, earning a bonus, being paid, in one step each; `Referral` and `Kyc` implement it |
| `Referral` | registration, `referral_service.go`, the payout job of `cron.go`, `achievement.go` |
| `MCReferral` | an instance |
| `Kyc` | `kyc_controller.go`, beside all of `Referral` |
| `KycProofs` | theorems about `Referral`, and about `Kyc` beside it |
| `MCKyc` | an instance |
| `Session` | `middleware/auth.go`, log-in, log-out and passwords of `user_controller.go` |
| `Moderation` | `admin_controller.go`, `moderation_controller.go`, reports and comments, beside all of `Session` |
| `ModerationProofs` | theorems about `Session` and `Moderation` together |
| `MCModeration` | an instance of both |
| `Hub` | `websocket.go` and `ws_controller.go` |
| `HubProofs` | theorems about `Hub` |
| `MCHub` | an instance |

### How the code becomes actions

A process is a transaction under way: a handler (`Clients`, `Resolvers`, `Admins`,
`Requests`, `Handlers`) or a job (`Crons`, `Jobs`). `pc` says what it does next, `job` what
it was called with. Private variables hold what it has read or intends to write.

- **Row locks** are variables (`userLock`, `marketLock`, `orderLock`, and `rows[p]` for batch
  rows). A locking read waits until the row is free, and reads what is committed
  then. Locks are released at the end of the transaction.
- **Writes** to locked rows reach the tables at the commit: nobody could see
  them before. A transaction that fails (`Rollback`) therefore leaves the tables alone.
- **Stale copies** are explicit. Where the code saves a whole row read earlier
  (`tx.Save`), the model keeps the copy and writes all its columns back; where it
  acts on a list scanned before the transaction, the list item is in `job`.
- **Crashes** (`Crash`, `Fail`) strike at any step. PostgreSQL rolls back; the
  next scan starts from the tables. Nothing else of a process survives.
- **Deadlocks** are cycles of `Holder` in `Market`; `Abort` is PostgreSQL's detector.
- **Messages** are not kept in a queue: a webhook or a return of the browser for
  a captured payment may begin at any moment, never, or again, which is a channel
  that loses, repeats and reorders. An answer may be lost as well (`Answer`).
- **Time** is a counter that `Tick` advances at any moment.

`Wallet`: `CreditWallet` goes through `AddLedgerEntry` (lock, read, check) to
`CommitCredit`; `DebitWallet` through `LockWallet`, `SelectBatches` (which locks
the unexpired batches), `ConsumeBatch` once per batch (the FIFO loop),
`ConsumeDone` or `ConsumeShort`, `AddLedgerEntry`, `CommitDebit`; an expiry through
`ScanExpired`, `LockWallet`, `RecheckBatch`, `AddLedgerEntry`, `CommitExpire`; a reminder
through `ScanReminder`, `LockReminder`, `CommitReminder`.

`Market`: `SubmitPrediction` goes through `LockForSubmit` (the market row, the
window), `LockWallet` once per wallet in ascending order, `CheckSubmission`
(daily limit, balance), `CommitSubmission` (prediction, stake, volume); `ResolveMarket` through `LockForResolve`, `LoadPredictions`, `LockWallet` for each
winner, `BeginStats` (the snapshot the `UPDATE` computes from), `LockRow` for each
player it updates, `CommitResolution`. `missed` and `outdated` are history: the users
others graded since a resolver's snapshot, and those whose figures such an `UPDATE` stored. A process of `Resolvers` resolves,
one of `Admins` runs the other handlers of moderators and admins; one may be both. The state handlers and the minute job are a
read (`TransitionMarketState`, `ApproveMarket`, `DeleteMarket`, `ScanMarket`) and
a later conditional `UpdateStatus`.

`Streak`: `DailyLogin` reads the day, `LockWallet` the row, `Award` saves and pays.

`Payment`: `CreateRazorpayOrder` asks the provider, `RecordOrder` stores the order;
`Capture` is the provider's. `VerifyPayment` reads the order without a lock and
`FetchPayment` asks the provider (or `AlreadyVerified` answers at once);
`RazorpayWebhook` comes with the provider's word. Both go on in `settlePayment`:
`LockOrder` (settled already, in conflict, or pending), `LockWallet` for the buyer
and the referrer in ascending order, `Settle` (coins, order and event in one commit).
`Fail` ends a request anywhere. `MaxReferralRewards` is what is left of a referrer's
cap: the events of other milestones, which count too, are in `Referral`.

`Redemption`: a request is `RedeemVoucher` (the buyer is checked without a lock: `CheckBuyer`,
then `LockWallet`, `CommitRequest`) or `SubmitRedemption` (`LockItem` first). An admin's is
`RejectWithdrawal` or `AdminProcessRedemption`: `LockRow`, for a refund `LockItem` and
`LockWallet`, then `CommitRefund` or `CommitProcess`; `ApproveWithdrawal` reads without a lock and
ends in the conditional `UpdateApproved`. `PassKyc` stands for `Kyc`.

`Referral`: `RegisterUser` and `GoogleLogin` go through `InsertUser` (the unique keys),
`LockReferrer`, `CountPaid`, `CountPending` to `CommitRegister`. A `Milestone` (a deposit or a
prediction) takes the wallets in ascending order (`LockWallet`), counts, and
`CommitMilestone` records it; a prediction goes on to its achievement. The payout job's
`ScanPending` and the achievement meet in `ClaimReward` (the conditional `UPDATE`, or the `INSERT ... ON CONFLICT
DO NOTHING`), `LockPayee`, `CommitPay`.

`Kyc` adds `StartKYCSession` (the wallet lock, held from there on), `CallProvider` (an answer, or none
although the provider may know the session), `StoreSession`; and `HypervergeWebhook` (the row's lock),
which takes its wallets by `Referral`'s `LockWallet` and ends in `CommitVerdict`. `reopened` is history: the rejected
sessions that a needs_review put back in review after a newer one was opened.

`Session`: a `Request` carries a token and goes through `CheckRevoked` and `ReadUser` to its
handler. `LoginUser` reads the user, then compares passwords for a long time, then issues what it
read (`GenerateToken`). `ForgotPassword` is `LockUser`, `DeleteLinks`, `CommitForgot`; `ResetPassword`
looks the link up, hashes, then `ClaimLink`, `CommitReset`; `AbortDeadlock` is PostgreSQL's.
`Moderation` adds the handlers behind the token: `ReadTarget` then `UpdateTarget` (`BanUser`, `UnbanUser`,
`UpdateUserRole`), `SubmitReport`, `LockReport` then `ResolveReport`, `AddComment`.

`Hub`: the hub goroutine is `TakeEvent`, `HandOver` once per client in any order, `NextEvent`,
with `clientsMutex` held in between. A connection's reader is `WsHandler`, `Register`, `Greet`,
`ReadFails`, `Leave`; its writer picks any ready case (`SelectDone`, `SelectPing`, `SelectEvent`), then
`Validate` and `Write`. Broadcasting is `Enqueue`, which drops the event on a full queue. History: `owed`, the events
broadcast for an open connection and not yet written to it, `lost`, those of them that were dropped, `due`, those the
hub took from the queue, and `late`, what it got with a dead token.

Some definitions have a second form beside them (`Free` and `LockIgnored`,
`IsNext` and `NewestFirst`, `Wallets` and `OwnWalletOnly`...). The second form
is a slip one could make in the code. No specification uses it; with it in
place of the first, some property fails, which shows that the property depends on
that line of the code.

## 4. Runs

`tlc -config X.cfg M`, each under five minutes. `CHECK_DEADLOCK FALSE` throughout:
the clock and the number of requests are bounded, so an instance
comes to its end; real deadlocks between transactions are `Deadlocked` in `Market`, `NobodyStuck` elsewhere, and what
`TransactionsEnd` and `HandlersEnd` would find.

| Run | Instance | Question |
|---|---|---|
| `wallet` | 1 user, 2 handlers, 1 cron, amounts 0..2, 3 ledger entries, 1 crash | the inductive invariant; ledger, batches and points agree; FIFO; a batch expires once; reminders match; nobody is stuck |
| `wallet_live` | 1 handler, 2 crons, fair, 2 ledger entries | two replicas expire or announce no batch twice; the wallet implements `Account`; expired coins leave |
| `market` | 1 market from creation to archive, 2 players, 2 resolvers, one of them an admin who moves the market by hand, minute job, fair | a stake and a win once even when both resolve; the volume counts the bets; `Betting` is implemented; a market past its lock time leaves Live |
| `market_bets` | 1 user on 2 devices, 2 markets of one category, one of them still to be opened, midnight, 2 resolvers, minute job | the daily limit holds in races; statistics exact but where an `UPDATE` was overtaken |
| `market_locks` | 2 markets, 2 players, one referred by the other, 1 resolver, fair | no deadlock but with the statistics' `UPDATE`; every transaction ends, deadlocks included |
| `streak` | 1 user, 2 requests, 4 days of 2 instants | the inductive invariant; one reward a day unless late; streak, longest, total and bonuses match the history |
| `payment` | 2 orders of 2 buyers with one referrer, 3 payments, 2 for one order, 2 requests at once, 2 failures, fair | the inductive invariant; `Deposit` is implemented; a 200 is the truth; a first deposit is reported once, within the cap; nobody is stuck; money taken ends in the wallet |
| `redemption` | 2 users, 2 handlers, 5 requests for a reward of 2 pieces, an unlimited one and a voucher, fair | the inductive invariant; `Fulfilment` is implemented; nobody is stuck, and every handler ends |
| `referral` | 3 users, one of them to join, a cap of 1, 2 handlers, 2 crons, 1 failure, fair | `Bonus` is implemented; no milestone is forgotten; nobody is stuck; what is owed is paid |
| `kyc` | 2 sessions of a user, another's deposit, one referrer with a cap of 1, 2 handlers, 1 cron, 1 failure | verified exactly when a session is; one session in progress at a time unless reopened; nobody is stuck; `Bonus` is implemented |
| `session` | a super admin and an admin, 2 handlers, 4 requests in all, 2 tokens, 2 links, 2 reports | dead tokens refused, old passwords dead, one live link; a link works once; a report is decided once; bans respect rank; nobody is stuck |
| `hub` | 2 connections of 2 users, 2 events, a queue of 1, channels of 2, fair | no gaps but what a full queue dropped, no foreign events, one greeting at most, one late event; the hub drains; the rest arrives; closed and dead connections go |

**Why these bounds are enough to be interesting.** One user suffices in `Wallet`
and `Streak`, since rows of different users never meet there (the proofs lift the bound).
`MaxPoints` is 3 with amounts up to 2, so a credit can overflow; `Year` is 2 with
a clock to 3, so batches expire while younger ones live, and a debit can span two
batches. Two handlers and a cron are the smallest number at which a third
transaction waits for a lock that changes hands. In `Market`, a purse of two
stakes runs out; a second market is needed for the daily limit, for stale
statistics (with a second resolver) and for deadlocks. `market_bets` has one player, whom the two resolutions share, `market_locks`
one resolver, against a prediction of a referred user; that neither number matters is what `StatisticsRight` and
`OrderedWalletsNeverDeadlock` add. Four days with a bonus at two and at four
days allow a run, a gap, and a new run. In `Payment`, two requests at once are the browser and the webhook of one payment, or two
payments of one order, or two buyers who race for a cap of 1; `MaxFails` 2 lets
the browser's request and the first webhook both die. A transaction that is left half-way when
the clock stops can still go on and commit: the bounds are on new requests and
on the clock, not on steps. In `Redemption`, three requests compete for two pieces, one user can pay for only
some of what they ask, and each pair of handlers (two buyers, two admins, a buyer and an admin) is in
the instance. In `Referral` and `Kyc` a cap of 1 makes two referred users race for one place;
three users are the least, a referrer and two referred. In `Session`, four requests are enough for any two
to be interrupted by two others in turn (log in, be reset, ask, be banned), and `Targets` is the one account it all
happens to. In `Hub`, the queue of 1 is full when the second event comes before the first was taken, and a channel of 2
after two events, or an event and the greeting.

The bounds that exist in the models only: `MaxTime`, `MaxLedger`, `MaxCrashes` (`Wallet`), `MaxTime` (`Market`, `Streak`), `MaxFails`
(`Payment`, `Referral`, `Kyc`), `Goals` (the milestones users go for), `MaxCalls`, `Targets`, `Tokens`, `Links`
(`Session`), `Events` (`Hub`), and the sets of requests, orders, payments and sessions that can be.

**Fairness.** PostgreSQL queues those who wait for a row, so a transaction that can go on
again and again does go on: strong fairness of each transaction's steps.
Its deadlock detector gives weak fairness of `Abort`. The jobs run by a ticker
for ever: a cron scans (weak in `Wallet`), and the minute job
visits every due market in each round, so a failure on one market does not starve
the next; that no update fails for ever is an assumption (strong fairness per
market). The payment provider repeats a webhook until it gets a 200 (strong fairness of
`Redeliver`), which the handler counts on: it answers 500 with "retry webhook". The
browser owes nothing. `Redemption` and `Referral` assume the same of their transactions, and the payout job scans for
ever (weak). In `Hub` there are no locks to queue for: goroutines are scheduled (weak fairness of the
hub, of each reader and each writer), and the writer's ticker comes round again. Handlers need never be called, and crashes never stop being possible.

## 5. What the models showed

Behaviour that a reader of the code, its comments or its documents would not expect. Where a property holds only
with an exception, the exception is written into it, and dropping it makes TLC show the behaviour.

- **Late check-ins.** `DailyLogin` reads the day (`streak_controller.go:28`), then waits for the wallet lock. A request
  that waits past midnight while the new day's check-in commits finds a `last_login_date` that is not
  its day, pays, and writes the older day back; the new day is then rewarded again. That is the
  "unless late" of `OneRewardADayUnlessLate`. Reading the day under the lock would remove it.
- **Statistics of two resolutions.** Two resolutions that share a player: the second `UPDATE` (`market_controller.go:219`) has computed
  its sub-queries before the first commits, waits for the row, and stores figures without the first
  market. The next resolution of one of the player's markets repairs them. These players are `outdated` in `StatsMatchBets`, which claims exact figures for
  everybody else; run `market_bets` reaches them, with two resolvers, and `StatisticsRight` holds for any number.
- **Deadlocks.** Payouts and `LockReferralWalletsTx` lock in ascending order, and the comment at
  `wallet_service.go:166` counts on it; but the statistics' `UPDATE` afterwards locks the losers too, and can deadlock with
  a referred player's prediction on another market: the exception in `DeadlocksNeedStats`. PostgreSQL aborts one of
  them; `TransactionsEnd` shows that nothing hangs. Another circle: `ForgotPassword` locks the user, then the
  old links, `ResetPassword` the link, then the user. PostgreSQL breaks it (`AbortDeadlock`); by `WaitsEnd` it is the only one
there is among sessions and moderation. Elsewhere there is none (section 6).
- **A token that dies of age.** A request whose token expires just after the parse may find its revocation
  already cleaned up: the exception in `DeadTokensRefused`.
- **Events dropped on a full queue.** `enqueue` never waits: when the hub's queue is full, it logs "event queue full; clients must
  refetch state" (`websocket.go:125-129`), and open connections miss the event without being told. `NothingElseLost` has this
  exception (`lost`); by `EventsArrive` whatever was not dropped is written to every connection that stays open.
- **A session back in review.** `StartKYCSession` takes a session that is "Started" or "Pending" for one in progress (`kyc_controller.go:57`),
  but `HypervergeWebhook` lets a verdict change any session that is not verified. A session is rejected, a newer one
  opened, and a needs_review for the older one comes late: it is "Pending" again (`kyc_controller.go:314`) beside the newer one, and either may verify the
  user. That is `reopened` in `OneSessionAtATime`.
- **A flooded connection.** The channel to a writer can fill between the registration and the greeting
  (`websocket.go:56`), which precedes the writer; the reader then waits for ever and its client stays in the map, although
  "a slow client cannot [...] create unbounded goroutines" (`websocket.go:39`). That is `Flooded`. For the same
  reason events can reach a browser before the "connected" greeting.

Seen while modelling, and of no property:

- Between the expiry of a batch and the next hourly job `users.points` counts coins that can no longer be spent, so the audit document's
  "unexpired batch balance sum" holds only of batches the job has not yet reached (`PointsBackedByBatches` states it so).
- A second captured payment for a settled order is refused for good (`AnswersAreTrue` shows it is never confirmed); no code refunds it.
- Nothing undoes a mute: the duration "for Mute/Suspend" (`moderation_controller.go:40`) is used for suspensions only.
- The last super admin may make themselves a user.
- The achievement `PROFILE_100` cannot be reached, as no handler enables the second factor.
- "Active or verified" (`kyc_controller.go:45`) is asked of the newest session only: a verified user whose newest session is old and
  not verified may start another, and stays verified.
- An hourly job drafts the wild card when it finds none "in the last 24h" (`cron.go:142`): the hour of the draft drifts
  from day to day, and now and then a day has none.

## 6. Proofs

`tlapm` checks `WalletProofs`, `StreakProofs`, `PaymentProofs`, `RedemptionProofs`, `MarketProofs`, `KycProofs`,
`ModerationProofs` and `HubProofs`, for any number of users, markets, orders, items, sessions, tokens, reports, connections, requests,
handlers, jobs, amounts and any bounds, from the named `ASSUME` of each module only: processes are distinct from
"nobody" and marks from what they mark, constants have their types, a year, a day and a stake are positive, nobody refers
themselves, markets, users of `Referral` and milestones are finitely many, and who was there from the start has no newcomer for a
referrer (a referrer is looked up by code when the account is made, `referral_service.go:35`).

All follow one pattern. A handler reads, waits for locks, decides and commits, so no property is inductive
by itself: it needs to be known, for each place a handler can be at, which rows it holds there and that
what it read from them is still so. The invariant of each module says that, for one handler at a time; each step is then split into
the handler that moves and the others, for whom one lemma says what a step of somebody else leaves alone (their rows).

**Wallet.** None of the properties is inductive: that the ledger explains the
points depends on `seen[p]`, read some steps before the commit, still being
the balance, and that depends on the lock. `WalletInv` says where a transaction
is and what for (`PlaceOK`), which locks it has there (`UserLocked`,
`RowsExclusive`), and what the locks keep true of the copies: the balance read
is the balance (`SeenIsCurrent`), the batch claimed is still as the recheck found it
(`BatchClaimed`), the debit loop's copies differ from the table only in what
the loop saved, and what it left out is empty or expired (`CopyOK`). `BatchesOrdered` and `ClockOK`
give the order of expiry. The proof has one lemma per part, most of them one step per
action; `ActKeepsOthers` and `OnlyCommitWrites` settle what an action leaves alone.
`LocksOwned` adds the converse, that nobody keeps a lock; with `WalletInv` it gives `WalletSafe`.
From `WalletInv` follow `LedgerHolds`, `ReminderHolds`, `OldestFirstHolds`
and `ExpiredOnceHolds` (each with a strengthening of its own), and `WalletIsAccount`: the initial states map
to `Account`'s, each commit of money is one `Move`, every other step a stutter.

`PointsBacked` adds up the batches. The points change at the commit, the sum at each saved batch of the
debit loop, in the debit's own copy; `OnTrack` says how far the copy has come: what is left to take plus what was taken from
the copy is the amount (`CoinsInv` joins it to the property). `CoinsMove`, `CoinsSame` and `CoinsMinted` say what one batch
changed, or one more, does to the sum; they stand on the recursive function inside `Coins`, and go by the least index at which
two sums would differ.

**Waiting.** `NobodyStuck` of a module says that whoever is waited for is at work (no lock outlives its transaction), and that
no set of transactions, of any size, waits in a circle. Where there are finitely many, one of those at work is therefore
not waiting. It speaks of who holds what, not of what is enabled, so it can be proved; each proof follows the order of
locks the code means to keep, and TLC refutes each when the order is dropped (wallets in any order, a lock
kept at the end).

- `Wallet` (`WalletSafeHolds`): the users row before batch rows. A reminder holds a batch that others want, but wants no
  second row: chains of waits have at most two links, the second to a reminder about to commit.
- `Payment` (`SettlementsHold`): the order, then the wallets in ascending order. In a circle everybody would wait for a
  wallet; who waits for the least one holds a lesser one that another waits for. `LocksOK` says that what is held is below what is missing.
- `Redemption` (`RedemptionsHold`): the request, then the item, then the wallet. Holders of a wallet wait for nothing, so none in a
  circle wait for a wallet, so none for an item, so none for a request.
- `Referral` and `Kyc` (`NothingForgotten`, `VerificationsHold`): a registration holds a row nobody but a second
  registration of the same account waits for, since an uncommitted user is no referrer (`ReferrersKnown`); a payout
  takes its claim, then one wallet; everybody else takes wallets in ascending order, as in `Payment`. A webhook takes the
  session before the wallets (`SessionsHeld`).
- `Session` and `Moderation` (`WaitsEnd`): there is a circle, and only one; any other contains it. Whoever holds a user's row and waits
  is asking for a link, whoever holds a link and waits is using one, and reports are held by those who wait for a user.
- `Market`: `OrderedWalletsNeverDeadlock`, below.

**Check-in.** `OneRewardADayUnlessLate` is not inductive: two requests may hold the
same day. `StreakInv` adds that a request about to pay holds the lock and a row equal to
the table's that is not of its day (`RowCurrent`), that the row's day is that of the last reward and
rewards are dated in order (`RewardsDated`), and that no day read lies ahead (`DaysRead`);
`DaysGrow` then follows step by step, and from it the theorem `OneRewardHolds`.
`HistoryTold` ties the saved row to the whole list of rewards (the run that ends in the last one, the best of all
runs, their number) and every reward to the run it completed; `CheckInTells` is the one step that matters, a check-in made from such a row.
`StreakTellsHistoryHolds` and `BonusesEarnedHold` follow.

**Payments.** That an order is paid once is a fact about two requests that both saw it
pending. `PaymentInv` says whom a request serves and that past the provider's word the payment is captured
(`PlaceOK`), that an order is recorded once and only by its creator, so that no late
`RecordOrder` makes a settled order pending again (`RecordedOnce`), that a row names
the captured payment it was settled with (`RowsOK`), that a request past `LockOrder` holds an order
still pending (`OrderHeld`), and that the points read under the wallet lock are the points
(`WalletHeld`). From it follow `AnswersHold`, and `PaymentIsDeposit`: `Settle` is `GiveCoins`,
`Capture` is `TakeMoney`, every other step a stutter.
For `FirstDeposits`, `ReferralsInv` adds that whether an event is due, decided when the user's and the referrer's wallets
were locked, is still so at the commit (`ReferralHeld`): whoever else could use up the cap or take the event would need one of those locks.

**Markets.** `MarketInv` says who holds a market's or a user's row (`MarketHeld`), that a resolver's list of
predictions is still all of them (`ListCurrent`), that balances read are the balances (`WalletsHeld`), that the
daily limit and the balance a submission was checked for still hold when it commits (`SubmissionOK`), and that wallets
are locked in ascending order (`Ascending`). The last part gives `OrderedWalletsNeverDeadlock`: of a set that waits only
for itself, the member that waits for the least wallet holds a lesser one another member waits for.
`MarketsKeepPromise` maps a submission to a bet, a resolution to a payout of all, a state change to an edge, the rest to a stutter. `StatisticsRight`
needs `StatsInv`: what an `UPDATE` under way is about to store is still right for everybody whom no other resolution has graded
since it began (`missed`). A second resolution of the same user grades a bet on another market, so it changes the figures of those it
grades and of nobody else.

**Referrals and verification.** `BonusInv` says that who has an event or a referrer is a member, that
an event is the referrer's whose code the user was given, that nobody has more than the cap (`Capped`), and what registration,
milestones and payments hold and have counted (`PlaceOK`). The cap is a count made in two queries, paid and pending, and
counts stay true because whoever adds an event holds the referrer's lock; a payment moves an event
from one to the other and misses none. `NothingForgotten` and `ReferralsKeepPromise` follow. `VerificationInv` puts
the sessions beside it: one handler starts a user's session, under the wallet's lock from the check to the row, although
the provider is called in between (`StartOK`), and a recent session in progress is the newest, or one a late verdict reopened (`RowsOK`).
Another may take its place only when it is not in progress or no longer recent, and an older one comes back in progress only by that verdict. `VerificationsHold` and
`VerificationsKeepPromise` are about the composition, in which every step of `Referral` is shown to leave the sessions' part alone.

**Sessions and moderation.** `ModInv` says what a log-in that is still comparing passwords has read (`LoginOK`): if the version is the present
one, so is the password. So does a token (`TokensBought`), which gives `OldPasswordsDead`. `DoomedOK` follows a request with a dead token
to where it is refused; `RevocationsKept` is what the cleanup may not break. A reset or a new link holds the rows of the links
it is about to void (`LinksHeld`), a decision its report (`ReportHeld`), and who bans had the rank or the history says it changed (`RankOK`).
The theorems: `SessionsSafe`, `LinksUsedOnce`, `DecidedOnce`, `RankRespected`.

**Hub.** `HubIInv` says of each connection what its reader has done (`StartOK`), what its writer has in hand and may still do
with it (`WriterOK`), that an open one has on its way what it is due, a closed one nothing (`OwedOK`), and that what was broadcast for it and not
yet written is due, in the queue, or was dropped on a full one (`LossOK`). What is on the way (in the hand, in the channel,
still with the hub) is compared with what is due, the greeting anywhere between; the lemmas on `InsertAt` and `Greeted` say that appending an
event, taking the first, or adding the one greeting keeps that. `HubInvariant` is the result. It is a safety property: that what is
on the way gets there is `EventsArrive`, which the model checker shows.

**Redemptions.** That the last piece is sold once, and that a refund adds to the stock there is, rests on what a handler read some
steps before it commits. `RedemptionInv` says what a handler is for at each place (`PlaceOK`), that
a request not yet stored has one handler (`Created`), and that past a lock what was decided or read there is
still so: the row's status (`RowHeld`), the item's stock (`ItemHeld`), the buyer's coins
(`WalletHeld`); and that buyers are verified and vouchers uncounted. The proof reduces what a handler does to
beginning, ending, four steps forward and four commits (`ActCases`), then has one lemma per part of the invariant, each split into the
handler that moves and the others, for whom `OthersFacts` and `StatusFacts` say what a commit leaves alone. The one action
under no lock, `UpdateApproved`, waits for the row and looks again. `RedemptionInvHolds` is that theorem; from it
`RedemptionIsFulfilment`: `CommitRequest` is `Ask`, `CommitRefund` is `Refund`, an approval or a completion is `Deliver`
or, for a reward on its way, a stutter, `PassKyc` is `Identify`, and every other step a stutter.

**Model-checked only.** Liveness under fairness (`TransactionsEnd`, `ExpiredCoinsLeave`,
`MarketsLock`, `CapturedIsCredited`, `HandlersEnd`, `PendingIsPaid`, `HubLive`), which the prover does not
do. The theorems under "Waiting" exclude the circles of locks that could refute `HandlersEnd`, `CapturedIsCredited` or `PendingIsPaid`.

## 7. What is left out

- Texts, formatting, HTTP status codes, logging, pagination. A refused
  request ends without effect whatever the message.
- Go's memory: handlers share none, they meet in the database. The hub, which does share memory, is `Hub`.
- The rate limiter: a token bucket per address behind one mutex. `allow` is a single critical section, nothing
  else reads the buckets, and what it promises rests on floating-point arithmetic over the clock.
- The daily wild card: a draft under a unique key, inserted with `ON CONFLICT DO NOTHING`; nothing reads the key, so a second
  insert changes nothing.
- Signatures and the provider's figures: a request that fails those checks ends
  without effect, and the amount captured is the order's.
- Amounts are small; the width of `int` is `MaxPoints` in `Wallet`, where the code
  checks for overflow. The other modules have no sums near it.
- PostgreSQL itself: locks, READ COMMITTED visibility and rollback are assumed
  to work as documented; a commit is atomic and durable.
- In `Market` every stake has one size, though users choose the amount: nothing but the balance depends on it.
- In `Market`, the ledger and the batches behind a stake or a payout are `Wallet`'s
  business; a stake or payout is a change of `points` under the wallet lock.
- The second factor, roles without rights that matter here (`content_creator`), and reports of
  markets, which can only be dismissed.
- The modules do not share one state space: the coins of a redemption, a referral or a payment are `points` under the wallet
  lock, the batches and the ledger behind them `Wallet`'s; `PassKyc` stands for `Kyc` in `Redemption`, a `Milestone` for the
  deposit or the prediction in `Referral`, `Enqueue` for whoever broadcasts in `Hub`. `Kyc` and `Moderation` are compositions
  proper: they run all of `Referral` and all of `Session` beside their own actions.
- Mail, audit rows, challenges, read-only handlers, configuration, migrations and the static pages: no decision depends
  on them.
