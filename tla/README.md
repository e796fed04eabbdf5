# City competition: a TLA+ verification project

This directory holds TLA+ models of the city-competition game (the Go back end
in `src/backend` and the payments service in `src/services/payments`), the TLC
configurations that check them and the TLAPS proofs about them.

Players join a tribe, buy credits and spend them on Turkish cities (provinces).
Every support raises the score of the player's tribe in that city, doubled during
a derby the tribe takes part in; the tribe with the highest score holds the city,
and every change of holder is recorded in `conquest_log`.

## 1. Inventory

All state that matters is in PostgreSQL (two databases: game and payments) and
Redis. Several instances of the API may run; they share nothing in memory but
the circuit breaker and the realtime hub, which are per process. "Model" names the
module or says *left out*.

| Component | State | Operations | Hard behaviour | What makes it correct | Model |
|---|---|---|---|---|---|
| Wallet (`credits`) | `credit_accounts`, `credit_ledger` | grant, spend, alone or in a caller's transaction | retries with one idempotency key, concurrent movements | balance = sum of the ledger, never negative; one key moves credits once | `Wallet` |
| Support spend (`support/spend.go`) | `supports`, `tribe_province_scores` | POST /v1/support | two row locks, reads before the transaction, failure before the commit; a list of best-effort calls after it | all or nothing; scores = sum of supports; each flip logged | `SupportSpend`, `CityContest`; after the commit `Pipeline` |
| Streak (`engagement/streak.go`) | `user_support_streaks` | upsert on support | time stamps older than the stored day | a streak of n days was earned on n days | in `SupportSpend` |
| Conquest log, attribution (`conquest`) | `conquest_log`, `supports.conquest_log_id`, users' read cursor | insert, attribute, list, mark read | order of flips, recaptures, rows behind the cursor | the log explains the holder; a support counts for its tribe's first capture; what is read was marked | `SupportSpend`, `ConquestInbox` |
| Circuit breaker (`db/circuitbreaker.go`) | in memory: state, failures, trial flag | Allow, RecordSuccess, RecordFailure | late and missing reports | refuses only after consecutive failures; one half-open trial | `CircuitBreaker` |
| Web purchases (`monetization`) | `web_purchases`, `purchase_quotes`, `flagged_users`, `invoices` | checkout, credit-grant, admin refund, chargeback | repeated and reordered calls, steps in two databases | granted once if paid; clawed back only with the money | `WebPurchase`, `CreditSale` |
| Payments service | `payment_intents` | charge, refund, webhook | PSP retries, failure between database and emit | every payment reaches the game | `WebPurchase` |
| IAP, promotions, battle pass (`monetization`) | `iap_purchases`, `invoices`, promotion, claims, cosmetics | verify, activate, claim | a purchase sent again under another promotion, overlapping claims | granted once, at its first price, to one user; a tier pays its claimant once | `Store` |
| Tribes (`tribe`, `devtools`) | `tribes`, `users.tribe_id`, messages | join, switch, edit, chat, seeding at a boot | edits that overlap, boots and erasures that write the same columns, switch during a spend | one change per cooldown, edits are kept, but for what a boot or an erasure writes | `TribeLife`, `SupportSpend` |
| Presence (`presence`) | Redis key per user, sets of users | heartbeat, expire, prune, clear | a prune, or the commands of a clear, racing a heartbeat | who is online is listed but for these races | `TribeLife` |
| Sign-in (`auth`, `admin/impersonate.go`) | `users`, `social_identities`; codes, markers, merge tokens, sessions in Redis | OTP, register, login, social login, merge, impersonate, revoke | one Redis command at a time, calls in between | a verification is spent once; merges follow the phone; sessions stay revocable | `SignIn` |
| Erasure, consent (`erasure`, `consent`) | `erasure_jobs`, consent events, stop flag | request, claim, ordered steps, withdraw | failed steps, crashed workers, two jobs of a user | a completed job leaves nothing | `Erasure` |
| Moderation (`moderation`, `admin`) | `users.status`, reports, flags, appeals, `audit_log` | ban, shadow ban, unban, file, resolve | moderators who decide at once, erasures in between | each decision once, each explained by the audit | `Moderation`; during a spend `SupportSpend` |
| Social (`social`) | relations, messages, reactions, referral redemptions | request, accept, block, write, redeem | accept racing block; tests before a transaction | blocking ends a friendship; a referral pays once | `Social` |
| Derby (`derby`) | `derbies`, Redis scores, by-il cache | create, activate, resolve, force-resolve, multiplier | several schedulers, cache refill after resolve, counters read while incremented | resolved once; totals backed by supports, nothing lost but in a race; doubles only what was opened | `Derby` |
| Control and momentum caches (`support/cache.go`, `conquest/momentum.go`) | Redis snapshots with stampede lock | get, invalidate | stale refill, replica lag, lock without owner, loads without it | a snapshot misses a support only when its load was overtaken or its replica lagged | `ControlCache` |
| Progression (`progression`, `share`) | XP, quest progress, achievements | events, awards | first events at once, a request that ends between completion and pay | a completed quest pays once | `Progression` |
| Season, leaderboards (`season`, `leaderboard`) | Redis sorted sets, `season_archive` | increment, archive, reset, fill | increments during an archive, repeated runs | no score is lost, or doubled within the season's archive, when the archive is repeated | `Boards` |
| Threats, rival alerts, notifications | cooldown keys, inbox, queue, tokens | detect, enqueue, push | scores read after the commit, cooldown races | one alert per cooldown; none forgotten | `Alerts` |
| Realtime (`realtime`) | the hub's clients and their buffers | connect, subscribe, publish, close | slow clients, close during a send, reconnection | messages arrive once, in order | `Realtime` |
| Rate limiter | Redis bucket | allow | one atomic script | | left out |
| Analytics, geo, i18n, config, logging, HTTP plumbing, front end | none of the game's | reads, formatting, wiring | | | left out |

How the parts interact: a spend asks the breaker, the derby resolver and then
runs one transaction over wallet, scores, streak, log and attribution; after the
commit it invalidates caches, publishes events and feeds derby counters, boards,
quests, alerts and achievements, one after the other and each best effort. Erasure
deletes the rows and sessions of all other account components; a moderator's lock on
a user makes it wait. The payments service and the game talk
over two internal HTTP calls in one direction (credit-grant, chargeback) and two in
the other (charges, refunds); neither writes the other's database.

## 2. Plan

The modules, in the order of what the game would suffer most from. Items 1 to 7 are done.

1. `Wallet`, `SupportSpend` with `CityContest` as its abstract specification;
   `WalletProofs`, `SupportSpendProofs`.
2. `CircuitBreaker`, `CircuitBreakerProofs`.
3. `WebPurchase` over `Wallet`: the two services and the PSP, with `CreditSale` as its abstract
   specification.
4. `Derby`: the scheduler on two instances, force-resolve, the resolver and its cache,
   the score counters.
5. Accounts: `SignIn`, `Erasure`, `Moderation` and `Social`, composed by `Accounts`.
6. After a support: `Pipeline` with `ControlCache`, `Progression`, `Boards`, `Alerts` and
   `Realtime`; `ConquestInbox`, `TribeLife`, `Store` (over `Wallet`). `Game` composes
   5 and 6.
7. Proofs of the safety properties the runs check, all of them (section 5):
   `SupportSpendProofs`, `WebPurchaseProofs`, `DerbyProofs`, `CircuitBreakerProofs` of the
   systems of their own; `AccountsProofs` and `StoreProofs` of parts, and `GameProofs` of the
   composition.
8. Still to do: a run of `Derby` with two overlapping derbies of one city (about a million
   states), and its composition with `SupportSpend`. No module uses RECURSIVE operators, so
   proofs can be added to each of them.

## 3. The modules

### Wallet

`balance` and `ledger` are `credit_accounts` and `credit_ledger`. `Outcome` is the
decision of `applyOnTx` (wallet.go:84-133) in the code's order: the balance test
first, then the key; `Post` the two writes; `ApplyOnTx` a movement in a transaction
of its own (`GrantCredits`). Modules that extend it decide when the row lock is free.
The account row's creation on first use is invisible (no row and balance 0 read the
same). Amounts are positive and keys non-empty by the callers' construction.

### SupportSpend and CityContest

`pc[r]` and `req[r]` are the program counter and the local variables of one POST
/v1/support. The steps are where other requests can get in between:

| Action | Code | Why a step |
|---|---|---|
| `LoadUser` | spend.go:151-207 | reads tribe and status outside the transaction |
| `AnswerInert` | spend.go:209-225 | shadow-banned: nothing written |
| `LockCity` | spend.go:227-251 | takes the city row, stamps `now`, reads the leader |
| `LockAccount` | spend.go:253-263, wallet.go:84-112 | takes the account row, tests the balance |
| `CommitSupport` | spend.go:265-325 | all writes, visible at COMMIT |
| `Abort` | the deferred Rollback | error, client gone, crash |
| `ChangeTribe`, `SetStatus`, `Grant` | tribe/store.go, moderation/actions.go, wallet.go | the rest of the world |

The writes of a transaction are one action since nobody sees them before COMMIT
and every row they touch that another spend touches is locked or upserted by that
spend (streak and score rows are covered by the account and city locks). A foreign
key check, an index or READ COMMITTED's snapshots add nothing else that can be seen.
Time is one strictly increasing clock; a day is `DayLength` units. Tribe ids are
numbers because the leader query breaks ties by id. The multiplier is an input
(1, or 2 in a derby).

`CityContest` is what the game promises, without requests or locks: a support
debits, scores and moves the city in one instant. `SupportSpend` implements it with
`holder` read off the last `conquest_log` row, so the refinement says in one formula
that the log, the scores and the wallet move together.

### CircuitBreaker

One action per method, each under the mutex; `running` are the writes let through,
`trial` those let through as half-open trials, `failedSince` a history variable that
counts reported failures since the last reported success. `EndInBusinessError` is the
callers' third way to end a write: no report.

### WebPurchase and CreditSale

A *worker* is one HTTP handler: a webhook delivery with the call it makes into the
game (`Handlers`), or an admin refund with the call it makes into the payments
service (`Jobs`). `work[w]` is its payment, kind and next step. `Fail` lets a worker
stop before any step (crash, client time-out, refused by the breaker, error), with
all it has committed staying; `Answer` may be lost. A call whose caller has timed out
but which still runs is a worker that goes on and whose answer is lost.

| Action | Code |
|---|---|
| `StartCheckout` | web_purchase.go:212-295, checkout/service.go:58-114 |
| `DeliverSuccess`, `DeliverFailure`, `DeliverChargeback` | webhook/handler.go:54-119 with MarkSucceeded and MarkFailed |
| `MarkRefunded` | checkout/service.go:221-234 |
| `GrantFromPayments` | web_purchase.go:58-194 |
| `FlagChargeback` | refunds.go:107-151 |
| `StartRefund`, `CheckIntent`, `PspRefund` | refunds.go:63-105, checkout/service.go:236-262 |
| `ReadClawback`, `CommitClawback` | refunds.go:153-226 |
| `Pay`, `Decline`, `Dispute` | the buyer and iyzico (external) |

The provider reports success only for money it took, failure only for a payment that
stays declined, a chargeback only for a payment it reported before; it repeats an
event until one delivery has answered 2xx, and a second refund of one payment is a
replay or an error. The buyer gets the checkout URL only after the quote is stored,
so `resolveGrant` always finds it and charge and quote are one action. Invoices are
written in the same transactions as the purchase and are left out, as are prices.

`CreditSale` is what the shop promises, with no services, events or retries: money comes in
and goes back, a payment that came in is granted once, one that went back is refunded once
for at most what was granted, and nothing but the buyer's spending moves credits otherwise.
`WebPurchase` implements it with the money's place read off `money` (a declined payment has
not come in) and the amounts taken back read off the ledger rows with the payment's refund
key; webhook deliveries, markings and stops are stutters.

### Derby

`status`, `total` are columns of `derbies`; `counter` and `cached` are the Redis keys
`derby_score:{id}:{side}` and `active_derby_by_il:{city}`. A *worker* is an API instance
in a scheduler pass or an administrator's force-resolve request; `work[w]` is the derby it
handles and its next step, `spend[s]` one support's way through the resolver, its commit
and the increment of the counter.

| Action | Code |
|---|---|
| `Create` | service.go:69-127 |
| `StartActivate`, `InitScores`, `WarmCache` | store.go:215-272, scores.go:20-35, multiplier.go:31-48, called from service.go:164-191 |
| `StartResolve`, `ForceResolve`, `GetScores`, `Resolve`, `DropCache` | store.go:238-259, service.go:231-257, scores.go:36-74, store.go:274-296, service.go:202-229 |
| `LookUpCache`, `LoadDerby`, `FillCache` | multiplier.go:61-126 |
| `CommitSpend`, `IncrScore` | spend.go:265-325 and 349-352 |
| `Stop`, `BreakOff` | the process or the request ends between two steps |

A pass compares `ends_at` with the time at which it began, so `StartActivate` may take an
overdue derby for a current one and leave its resolution to the next pass. Redis calls
whose errors the code logs or discards may do nothing when `RedisMayFail`; an error that
ends a worker's task is a `Stop`. One support is one credit, which counts 2; supports at
multiplier 1 add nothing to the counters. `announced` counts the `derby_resolved` messages.
`opened` and `timely` are history variables: the derbies that have been active, and the supports
whose increment came while no worker had still to reset the derby's counters, none had read
them without having written the totals, and the derby was not resolved (`Open`). The counters of a resolved derby expire a day later,
when nothing reads them any more: left out.

### Accounts: SignIn, Erasure, Moderation, Social

`SignIn` keeps the rows of `users` and `social_identities` and the Redis keys of OTP,
verified markers, merge tokens and sessions. `call[c]` is one request and its next step;
each step is one SQL statement or Redis command (or MULTI), so any other call may come in
between. `firstPhone`, `mergedBy`, `proofs` and `uses` are history.

| Action | Code |
|---|---|
| `RequestOTP`, `ReadCode`, `MarkVerified`, `ConsumeVerified`, `ExpireOTP` | auth/otp.go |
| `Register`, `CreateRegistered`, `Login`, `LoginVerified` | auth/handlers.go |
| `SocialLogin`, `CreateSocial`, `LinkCreated`, `Merge`, `ReadMergeToken`, `TakeMergeToken`, `LinkMerged` | auth/social.go |
| `OpenSession`, `ListTokens`, `DeleteTokens` | auth/session.go (Create; the two halves of RevokeAll) |
| `Impersonate` | admin/impersonate.go |

`Erasure` extends it with the job table and the workers: claim, each ordered step followed
by `MarkStepDone`, `FailStep` (back to `partial_failure`), `Crash` (the row stays
`running`). `remains[j]` is the set of kinds of data that existed when the job was
requested and still do; later rows are no part of the promise. `Moderation` holds the queue
and the audit log; a decision is a transaction (`SetStatus` or `LockItem`, then
`CommitStatus` or `CommitItem`) because the row lock is what the property hangs on; filing
an appeal or an anomaly flag is a test and an INSERT. `Social` has accepting and blocking as
transactions of several steps (the DELETE of a block has a snapshot of its own:
`blocking[p].rows`), requests and messages as test and INSERT, redemptions as tests, then
the INSERT and account locks, then the commit. `Accounts` joins the four over the
same users: the cascade of an erasure deletes the other modules' rows and waits for locks.

### After a support: Pipeline and what extends it

`spend.go:318-416` runs, after COMMIT, a fixed list of calls whose errors it ignores:
`Cache.Invalidate`, publish support_applied, the derby score, publish region_supported
(flip only), the feed, `Momentum.Invalidate` (flip only), `OnSupportApplied` (boards, then
XP and quests), `OnStreakUpdated`, threats (`ClearCooldown` after a flip), rival alerts,
the first-support achievement, streak achievements, the anomaly detector. `Pipeline` keeps
the next call of each request in `stage`, in that order; `Skip` is a failing call,
`BreakOff` a request whose client or process has gone, and nothing is repeated. The derby
score is `Derby`'s `IncrScore`; the anomaly detector files `Moderation`'s flags. A commit is
one action here, as it is in `SupportSpend`, and carries the scores it leaves.

| Module | State | Steps |
|---|---|---|
| `ControlCache` | both snapshots, the stampede lock, each reader | cache.go `Get` as miss, SETNX, wait, load, store, unlock, and the load without the lock; momentum.go `Stats` without any lock; `Invalidate` |
| `Progression` | XP by source, quest rows, achievements | engine.go's transaction per quest: select (row lock) or insert, commit, then the reward |
| `Boards` | each sorted set as how often it counts a support | one ZINCRBY per key; archive.go as dump, INSERT ... DO NOTHING per key, one DEL; the fill of the tribe rank as ZCARD, SETNX, query, one ZINCRBY per tribe |
| `Alerts` | cooldown keys, queue, inbox, tokens | detect with the scores of now, SETNX, enqueue; BRPOP, push limit, send |
| `Realtime` | messages on the wire, clients, buffers, the loop | snapshot of targets, look at the flag, send; pumps, close, reconnection |

What others' steps may do in between is the point of each: a snapshot loaded before a
commit is stored after its invalidation; two requests reconstruct each other's scores.

The caches and the fill of the tribe rank read through `pools.Read` (main.go:234, 260, 350),
which is a replica when `DB_READ_REPLICA_DSN` is set. `Replayed(n)` are the supports of the
first n commits, and a load takes any n: a replica may be as far behind as it likes, and the
primary is n = all. A snapshot keeps apart, as history, what was invalidated while its
reader had it in hand (`missed`) and what had been invalidated before the load and was not
replayed there (`lagged`). A reader that gives up waiting and finds the lock taken once more
answers its own request from Postgres and stores nothing (`LoadUnlocked`, cache.go:137).
So the comment at spend.go:328, "so the next control read cannot see a stale snapshot", says
more than the code does: in the model a snapshot that misses an invalidated support is stored,
and served until it expires, after a load that was overtaken or that came from a lagging
replica. `ControlIsServedFresh` says that there is no third way.

### ConquestInbox, TribeLife, Store

`ConquestInbox` names log rows by their place in (occurred_at, id), so a row may be
committed behind a cursor; a mark-all is one statement, but its snapshot and its row lock
are two moments. `TribeLife` has join, switch, the administrator's read-all/write-all edit,
chat and presence, with the prune of a presence set as SMEMBERS, GETs, SREM and an erasure's
clear of a user as GET, DEL, SREM, SREM, between which heartbeats fall. Two more write its
tables: a boot sets every tribe of `tribes.json` (`Seeds`) open again, under its first names
(`UpsertSeedTribe`, main.go:160), and puts the QA accounts into their tribes, the administrator
among them into none (`Personas`, main.go:165); an erasure's tombstone takes the tribe away
(`AnonymizeMember`). Neither looks at `tribe_switched_at`, and `Join` does not either, so
whoever is without a tribe joins at once. `Store` prices
a purchase before its transaction and grants it within; a claim reads the tiers due and
then takes them. `Store` uses `Wallet`, whose variables it shares with nothing else in
`Game`.

### Game

`Game` puts the account modules, the pipeline, the inbox, the tribes and the store into one
state. A *start* names the components that act (`acts`), the calls of a support's
request that do something (`effects`), the supports that are made (`asked`), the users and
sessions there are, the members' tribes (`home`) and the connections (`sockets`).
Components that do not act stay where they are, as they may in the program: starts
bring together what shares state.

Several properties make an exception for a race the code allows, recorded by a history
variable: `raced` (a session opened, or a friendship made, while a revocation or a block of
the same user was between its steps), `twin` and `twins` (flags, redemptions tested at the
same time), `overlap` and `overlapping` (edits, requests), `missed` and `late` (a snapshot
loaded, an increment made, after the point that counts), `skipped`, `dropped`, `lost` (calls
and messages the code gives up), `swept` (a prune or a clear that raced a heartbeat), `lagged` (a load from a
replica behind the invalidation), `reseeded` and `unseated` (a tribe a boot has written, a user
a boot or an erasure has left without one),
`overwritten` (a mark-all over a later mark) and `closedUnder` (a client closed under a send).
Each says exactly when the good thing may fail; everything else is a violation.

## 4. The runs

| Run | Kind | What it asks | Bounds |
|---|---|---|---|
| `support_spend` | pass | safety of wallet, scores, log, attribution, streak; locks never close a circle; implements `CityContest` | 2 users, 2 tribes, 2 cities, 4 requests, 2 grants; about 475 000 states |
| `support_midnight` | violation | two consecutive support days make a streak | 1 user, 2 cities, 2 requests |
| `breaker` | pass | refuses only after consecutive failures; one trial | 3 writes, threshold 2, 6 ticks |
| `breaker_stuck` | violation | a half-open breaker that refuses has a trial in flight | as `breaker` |
| `purchase` | pass | granted once if paid; clawback follows the money; an answered chargeback is settled; implements `CreditSale` | 2 payments of one buyer, 2 deliveries and 2 refunds at a time, 1 early stop; about 500 000 states |
| `purchase_live` | pass | a disputed purchase is refunded in the end | 1 payment, 2 deliveries, 1 refund, 2 early stops |
| `lost_grant` | violation | an acknowledged payment has its credits | 1 payment, 1 early stop |
| `refund_stuck` | violation | a refund that started at the PSP ends in the wallet | 1 payment, 1 early stop |
| `derby` | pass | resolved once, totals backed by supports and complete but for the increments that raced the reset or the resolution, only opened derbies double, every derby ends | 1 derby, 2 instances, 1 administrator, 2 supports of opposite sides, 1 stop, clock to 1, Redis may fail |
| `derby_stale` | violation | the by-il cache shows an active derby | 1 derby, 2 instances, 1 administrator, 1 support, Redis never fails |
| `game` | pass | sixteen invariants of the back end around the spend, one or two per module of `Game` | 34 starts, below; about 784 000 states |
| `battle_pass` | violation | no claim of an earned tier is refused | 2 users, 2 tiers, 2 claims |

Why the bounds are enough: three supports of one tribe and one derby support of the
other make a city be taken, held, lost and retaken on a tie; two users with two
requests in flight each meet on the same city, the same account, both or neither, which
are all the ways two spends share locks; one user can hold two cities, so day borders
(every second clock unit) fall between stamp and commit. Two deliveries of an event
are one more than the code expects, and two refunds with a chargeback put three workers
on one purchase row. One early stop per run already reaches every half-done state of one
worker; `purchase_live` allows two. The breaker needs Threshold + 1 writes.
Three workers on one derby are two more than the code's conditional UPDATEs must keep
apart, and a clock of two values makes it due, current and overdue at every step.
`MCDerby` also defines a second, overlapping derby of the same city; a run with it does
not fit the time of this configuration, so the choice among several active derbies
(`LoadDerby`) is not exercised by `derby`; the theorems of `DerbyProofs` cover it.

`game` asks its questions at 34 starts. Registration, login, social login and merge: two
phones, one identity that claims the first phone and an email, three calls, so that two calls
race for one marker and one token while a third signs in. Erasure: two workers on one or two
jobs of a user with sessions, one failing step and one crash, alone or with moderators
who change the user's status. Queue, friends, messages, referrals and consent: two users,
two moderators, two redemptions over two devices. Supports: two to four of five, by two
or three players, whose worths make the holder threatened, overtaken and restored, with one
fault and one expiry of each kind; two readers, one worker of the season run twice, two
push workers, two clients with a buffer of one. Inbox: three rows in two cities and two
mark-alls. Caches: readers of the control snapshot beside two supports, and readers of
both beside one that flips; a replica at every position. Tribes: two users, two tribes of which
one is seeded, a member and an administrator among the QA accounts, two requests, two edits, one
cooldown that passes; boots and erasures any number of times beside edits, beside requests and
beside presence; five presence events (heartbeats, expiries, prunes and clears, enough for a
heartbeat between two commands of a clear or a prune and one after it).
Store: one transaction sent by three requests under two promotions, three claims of two
tiers. Two actors are what each of these races needs; the third call, request or row
lets a race be followed by its consequence.

Deadlock is checked for the breaker and the supports, where a tribe switch or a tick or a
refused write is always possible or the run is otherwise bounded by its guards;
the purchase, derby, store and game configurations switch the check off, because a run
in which every payment, derby or request has been settled has nothing left to do (in
`game` also because the panic of the hub ends a process). Symmetry is used
over request ids, grant keys and workers, which the modules never order or name,
and only in runs without liveness.

Fairness of `WebPurchase` (`FairSpec`): a handler that is not stopped reaches its
answer (weak fairness of each worker's steps: Go serves every request, and stops are the
separate, unfair action `Fail`); the PSP repeats each unanswered event whatever other
events do (strong fairness of each event's delivery); the support team repeats a refund
(strong fairness of `StartRefund`), which only the violated property needs: it fails
even with an administrator who never gives up.

Fairness of `Derby` (`FairSpec`): time passes; each derby that is due while an instance
is idle is taken up by some instance (scheduler.go:31-58 ticks for ever, and a pass goes
through all due derbies); an instance's task goes on until it ends or stops. Supports and
administrators are not assumed to do anything.

### What the six violations show

* `support_midnight`: `now` is stamped before the wait for the account row
  (spend.go:246), so two supports of one user in two cities can commit in the opposite
  order of their days; the streak is reset and `last_support_date` moves back.
* `breaker_stuck`: a half-open trial that ends in, say, insufficient credits reports
  nothing; the trial flag stays set and every write is refused until a restart.
* `lost_grant`: the grant is emitted only by the delivery that moves the intent to
  succeeded; when that emit fails, the repeated delivery is answered 200.
* `refund_stuck`: `Service.Refund` refuses an intent that is already refunded, so a
  refund interrupted between the two databases can never be repeated to its end.
* `derby_stale`: the worker that activates a derby writes the by-il cache after its
  database update; when the derby is resolved in between, the entry that the resolution has
  deleted is written back, has no TTL, and doubles supports of a resolved derby.
* `battle_pass`: the ledger key of a tier's credits is `battle_pass:<season>:<tier>`
  (battlepass.go:151) and keys are unique over all accounts. The first user who claims the
  tier takes it; everyone else's claim fails with an idempotency conflict and is rolled
  back, cosmetics of other tiers included, and so does every later one.

## 5. The proofs

All constants are arbitrary, within the ASSUME of each module (`SpendAssumption`,
`BreakerAssumption`, `PurchaseAssumption`, `DerbyAssumption`, `SignInAssumption`,
`ErasureAssumption`, `ModerationAssumption`, `SocialAssumption`, `PipelineAssumption`,
`CacheAssumption`, `ProgressionAssumption`, `BoardsAssumption`, `AlertsAssumption`,
`RealtimeAssumption`, `InboxAssumption`, `TribeAssumption`, `GameAssumption`, and the store's
as `ShopAssumption`). They say that identifiers of different kinds differ (the value for
"nothing" is no user, no row, no notice), amounts and worths are positive, tribe ids are
numbers, bounds are natural numbers, and starts are well typed; TLC evaluates them in the runs.
Only cache readers and referral redemptions, which are counted, are assumed to be finitely
many; users, requests, workers, clients and rows may be any number.

Every invariant, action property and refinement the passing runs check is a theorem; only the
two liveness properties named at the end of this section are not. The inductive invariants were first
checked by TLC on the instances of the runs, then proved; each is named here with the reason it
has to be stronger than the property.

### The spend

`WalletProofs` shows what one movement preserves (`ApplyKeepsWallet`), as lemmas for every
module that moves credits. `SupportSpendProofs` has four parts.

* `IInv` (`TypeCorrect`, `BalanceCorrect`, `KeysCorrect`, `LogCorrect`,
  `SpendImplementsContest`). The new balance a request commits was computed when it locked
  the account, and the leader it compares with was read when it locked the city. `IInv`
  therefore adds that two requests never hold one lock (`Locks`), that what a request read
  under a lock is still true (`Reads`: its `next` is the balance minus its credits, its key is
  unused, its `prev` is the leader), that the time stamps of a city's log are at most the clock
  and below the stamp of whoever holds the city (`Times`), and that a city with a score has a
  leader (`Contested`). The refinement maps `CommitSupport` to `Support`, an applied `Grant` to
  `Receive`, and everything else to a stutter.
* `LocksCorrect`: `LocksNeverDeadlock` says, without ENABLED, that a request that waits for a
  row lock waits for exactly one request, and that this one can go on or waits for one that
  can (`Blocks`, `MayGoOn`). From `Locks` alone: whoever holds an account row holds its city row
  already and waits for nothing, so chains have at most two links.
* `RowsInv` (`SpendAtomic`, `AttributionCorrect`, `CausesCorrect`, `StreakCorrect`): the support
  rows are those of the requests that were answered, each was paid for by the ledger row with
  its key, and none is stamped later than the clock or than a transaction open on its city
  (`SupportTimes`). A flip attributes all open rows of its tribe at once, so that each row's
  capture has to be shown to be the first after it, and to stay it.
* `SumsInv` (`ScoresCorrect`): each score is the sum of the effective amounts of its supports.
  The sum is a fold over a finite set; that the fold's recursive function exists, that the sum
  does not depend on the order, and that one support adds its amount is shown by smallest
  counterexamples in the natural numbers (`TotalsExist` and the lemmas after it), since the
  library's induction theorems take an operator as parameter.

### The breaker, purchases, derbies

* `CircuitBreakerProofs`: `BreakerTypes`, `RefusalsCorrect`, `SingleTrialCorrect`, from an
  invariant that ties the count, the state and the history variable together.
* `WebPurchaseProofs`: `PurchaseTypes`, `GrantedOnce`, `ClawbackCorrect`,
  `ChargebacksSettled` and `PurchaseWallet`. `PInv` adds what the databases know of the money
  (`MoneyIsKnown`: an intent succeeded only if the money was taken, a chargeback is reported
  only of a dispute) and, as the heart of it, what each worker may rely on in its next step
  whatever the others have done since its last (`Tasks`): a grant under way has a paid payment,
  a clawback one whose money went back; a chargeback's user is flagged before its credits go;
  and what a clawback is about to take is at most what was granted. What these facts say only
  ever grows (`Grows`), which is why other workers cannot undo them.
  `PurchasesImplementSale` needs `ClawInv` as well: one worker at a time is between the two
  halves of a clawback of a payment, its purchase is still verified, and a refund key is in the
  ledger only when the purchase is refunded. So the debit of a commit is new, not a replay, and
  the commit is `TakeBack`; the grant of a payment without a row is `Grant`, of any other a
  stutter; `PspRefund` is `PayBack` unless the bank was faster.
* `DerbyProofs`: `DerbyTypes`, `PointsAreEarned` and the action property `ResolutionIsFinal`.
  `DInv` says that whatever may double a support leads back to a derby that was opened (the row,
  the stale cache, the worker that will write it, the support that will use it), that at most one
  worker is to publish a result and its UPDATE went through, and that the counters and every copy
  of them under way are backed by committed supports (`OnlyOpenedDouble`, `TotalsBacked`).
  `TimeInv` is the other bound (`PointsInTimeCount`): the counter, what a worker has read and is
  to write, and the total of a resolved derby have every support that was in time. It rests on
  the conditional UPDATE of the activation: a derby is opened once, no support can be committed
  for it before, and none is in time before the one reset, which therefore wipes out nobody's
  points that were in time.

### Accounts

`AccountsProofs` has the arguments, `AccountsMoveAlone` and its like in `GameProofs` carry them
to the composition: every step of `Game` is a step of the accounts or leaves their variables alone.

* `MarkersAreSpentOnce` (`MarkerInv`): a marker that is there has a verification not used yet.
* `SessionsStayInReach` (`SessionInv`): while a revocation is between its two steps, a session
  of its user that it has not listed has raced a revocation. Without that clause the deletion
  of the index could put an innocent session out of reach.
* `MergesAreConfirmed` (`MergeInv`): a merge is right because of what each call knows at each of
  its steps (`CallKnows`): before the token is taken, that it verified a phone; before the link
  is written, that its user exists and registered that phone. What it knows stays true while
  others act: no action removes a user row or changes a first phone, an erasure only clears
  `phone`, and no moderator sets a status of a row that is not there.
* `BlocksEndFriendships` (`FriendInv`): a blocked pair has no accept open that does not know of
  the block (`PairBlocked`), and a friendship that the DELETE of a block will not find was made
  while the block was open (`BlockFinds`).
* `ErasuresAreComplete` (`EraseInv`): what a job has recorded as done is removed, and its old
  sessions that live have raced (`JobRight`); a worker is never behind its job, also when the
  job has been claimed by a second worker (`WorkerRight`).
* `DecisionsAreExplained` (`AuditInv`): who decides holds the row's lock, so that the status
  or the verdict it read is still there when it writes the audit row (`LockRight`, `LocksAreHeld`).
* `ReferralsArePaidOnce` (`PayInv`): a referee has one redemption that was paid or still can be
  (`RefereesOnce`); of two unsuspicious redemptions by one device one was tested while the other
  was under way (`DevicesOnce`); and each redemption that came through was paid for.

### The store, tribes, inbox

* `StorePaysOnce` (`StoreInv`, in `StoreProofs`, over `WalletInv`): a purchase has its invoice and
  its ledger row or neither; an answered request was answered for the purchase's one user; a
  tier with a reward is claimed by those whose ledger has its key (`TierPaid`). `Game` has the
  store as an instance, and `GameProofs` cites the lemmas of an instance of `StoreProofs`.
* `TribesAreKept` (`TribeInv`): the types; that a user who still has its tribe and moved more
  often than cooldowns have passed is cooling (`Spacing`); that while no two edits of a tribe
  overlap, one edit at most is under way and it will write the `is_active` asked for last, unless
  a boot has written the tribe since (`Edits`). Who is online is listed unless `swept` says
  that a prune or a clear removed a live user, which the next heartbeat takes back.
* `MarksAreKept` (`InboxInv`): a row that counts as read without having been marked was committed
  after a later one of another city (`Accounted`); marks that do not overlap leave the cursor
  behind every row they have passed (`Marked`).

### After a support

`PipeInv` is common to the proofs about the calls that follow a commit: the commits name the
committed supports, each once, and a call that was passed stays so (`MovesOn`, `CommitSteps`).

* `ScoresOutliveSeasons` (`BoardInv`): a support whose increment was neither late nor missed is
  on the board until its key is archived and in the archive from then on, so that a dump in the
  archiver's hands has it as well (`KeptOf`), and only the fill of the tribe rank counts one
  again (`OnceOf`).
* `ControlStaysFresh` (`CacheInv`): a snapshot, and what a reader is about to store, has every
  support that was invalidated, or names it as overtaken or as not replayed on the replica it
  was loaded from (`SnapInv`); the readers between the lock and its release exceed the lock by
  one for each expiry (`LockInv`); those that load without the lock store nothing.
* `ClientsStayServed` (`LiveInv`): the wire holds the newest messages but for the lost
  (`WireInv`), a client's messages are older than what is still on its way to it (`OrderInv`),
  every message it should have has a place (`ServedInv`), and a send on a closed channel needs
  a client that closed in the window (`RaceInv`). `FlipInv` ties the published flips to the
  commits: without overlaps they are published in commit order.
* `RewardsStayPaidOnce` (`RewardInv`): one transaction at a time has a quest's row open and has
  read what it holds (`RowInv`, the row lock); a completed quest is paid, or one request is about
  to pay it, or the request that should have has broken off (`PaidInv`); the count is at
  least the supports that made it (`CountInv`); one support marks the first (`FirstInv`).
* `AlertsStayTrue`. For the limits (`AlertInv`): the announcements made under a cooldown
  key, and those about to be, are at most one more than its expiries and deletions, and only
  while the key is set. For the crossings (`CrossInv`), as long as requests follow one
  another: the scores a request reconstructs are those before its commit
  (`ScoresBefore`); a key that is set has been announced since the holder took the city, or is
  being announced (`KeysInv`), but for the commit of a flip that is still to delete the keys;
  and a level that was crossed is in the request's list or has been announced (`DueInv`).

### The types of the whole back end

`GameTypes` is `GameTypeOK`: the types of eleven modules in one state. Each component has its
part (`AccountsTypes`, `PipelineTypeOK`, `CacheTypeOK`, `ProgressTypeOK`, `BoardsTyped`,
`AlertsTyped`, `LiveTyped`, `TribeTyped`, and `StoreTyped` in `StoreProofs`) with a lemma for
its start and one for a step of `Game`. Types that are more than a set of rows lean on the
invariants above, and two would not have been inductive without a stronger statement:

* what the hub has on its wire, in its hands, in the buffers and with the clients are messages
  that were published; that follows from `LiveInv`, which puts every message in its order;
* a quest's row is completed exactly when its progress has come to the target, so that two
  transactions on one row leave one that is typed again;
* a board counts a support once, the rank board of the boot at most twice (`CountedOnce`): once
  for the request, once for the sums, of which the boot adds each tribe's once (`Seeded`);
* an erasure's worker is on a job that was requested, so that what it removes is of a user
  (`EraseInv`);
* a promotion stays within `PromoMaxPercent`, since `Activate` tests it and nothing else sets it.

### Only model-checked

The liveness properties `DisputedPurchasesAreRefunded` and `DerbiesEnd`, which rest on fairness
and are beyond the prover. The six violations are TLC's.

## 6. Not modelled

The components marked *left out* above: the rate limiter is one atomic script whose
arithmetic is over real time, and the rest is reads, formatting and wiring. In the
modelled parts: logging, metrics, answer formats, input parsing and localisation; word
classifiers and rate limits, which only refuse; the length of cooldowns and TTLs (they
end at any moment); invoices of web purchases, prices; the summary table behind
`support/control.go` and the reads of the activity feed; quests over sets of provinces,
which take the same steps with another criterion, and the XP of a resolved derby; derby
notifications; the creation of a tribe, and the removal of a user from the boards and of its
messages by an erasure; seasons after the first (one season id, which one archive row per key
belongs to); a replica behind the listings, which changes answers only; more than one heartbeat
or clear of a user, or prune, at a time; clocks of several instances that disagree (the model has one clock);
PostgreSQL's own deadlock detector and statement time-outs, which appear as `Abort`,
`Fail`, `AbortAccept` and `AbortRedemption`. External: the PSP, Apple, Google, the SMS
and push providers, whose answers are inputs. A second refund of one payment at the
provider is taken for a replay or an error.
