# По Рублю — a verification project for the donation backend

This directory holds TLA+ models of the backend under `src/backend/app`: modules, TLC
configurations that check them on small instances, and proofs checked by TLAPS. Everything is
translated from the code; documentation is quoted only where the code departs from it.

## 1. The system

A charity backend: users give one-time donations or daily/weekly/monthly subscriptions to campaigns.
FastAPI runs under `gunicorn -w 2`; a Taskiq scheduler and worker run the periodic tasks. All of them
share one PostgreSQL database at READ COMMITTED, with one session per request
(`core/database.py:18-25`: commit when the handler returns, rollback when it raises) and one session
per task run. Money is moved by YooKassa, which answers calls (`services/yookassa.py`) and sends
notifications to `POST /webhooks/yookassa`.

| component | state it keeps | operations | what makes it correct |
|---|---|---|---|
| Donations (`services/donation.py`, `webhook.py`, `refund.py`, `payment.py`) | `donations.status`, payment id, counters of campaigns and users, `campaign_donors` | create, payment succeeded / canceled, refund by the admin or by notification | status follows the money; counters equal the sums; a donor row for each supporter |
| Patron links (`services/patron.py`) | `patron_payment_links.status` | create, pay, expire | the link of a paid donation is paid |
| Pending reconciliation (`tasks/reconcile_pending_donations.py`) | none of its own; one transaction per batch | poll, mark success / failed, give up | every paid donation is resolved without notifications |
| Daily reconciliation (`tasks/reconciliation.py`) | none | rewrite counters that differ from the sums | drift does not last |
| Subscriptions (`services/subscription.py`, `subscription_limits.py`) | `subscriptions.status`, `next_billing_at`, card | create, bind card, change, pause, resume, cancel | at most five; a cancelled one is never charged again |
| Billing (`tasks/billing.py`, `webhook.py`) | `transactions`, attempts, `next_retry_at` | charge, skip, retry, notification | one charge per period; retries bounded |
| Campaigns and allocation (`api/v1/admin/campaigns.py`, `services/allocation.py`) | `campaigns.status`, subscription targets, offline payments | status machine, close early, reallocate, close by goal and by date | the status follows the state machine; a closing leaves no subscription behind |
| Payment methods (`services/payment_method.py`) | `payment_methods`, default flag | save, delete, set default, recover, backfill, deduplicate | one default; nobody loses a card |
| Accounts (`services/auth.py`, `account_merge.py`, `user.py`) | users, one-time codes, refresh tokens | device login, e-mail code, refresh, merge, anonymise, deactivate, clean up | a code or token is used once; a merge loses no donation; who has left is not charged |
| Impact (`services/impact.py`, `notification.py`, `payment.py:105-166`, `campaign.py`) | streak columns, achievements, notification log | streak, awards, cooldown and what the feed says of it, pushes | an award once; a streak counts days; list, detail and check agree |
| Content, configuration | documents, media, settings | CRUD and rendering | no state other components rely on |

How they interact: through rows. A webhook, a batch and an admin's request all change
`donations.status` and then run the same `process_successful_payment` /
`reverse_successful_payment`; those take the campaign's and the user's row locks by their UPDATE
statements and hold them to the commit. Nothing locks the donation's row when it is read. The tasks
read rows, call YooKassa and write later in the same transaction.

What is hard about it, and where, is the list `hazards` in `PROJECT.json`.

## 2. The modules

| module | what it is |
|---|---|
| `Books` | the counters, the goal and whether a campaign is active as a value, and what `process_successful_payment` and `reverse_successful_payment` make of them (pure operators) |
| `Ledger` | abstract specification: the documented life cycle of a donation, and `collected_amount` moving with it |
| `Donations` | requests, notifications, batch, daily tasks and YooKassa on the donations table |
| `Dunning` | abstract specification: the documented life cycle of a transaction, with its bounded attempts |
| `Billing` | requests on subscriptions, notifications of their payments, and the two billing tasks |
| `Campaigns` | status machine of a campaign, closing with reallocation, forced reallocation, closing by goal and date, offline payments, where a subscription's money goes |
| `Cards` | saved payment methods: saving by notifications, default, deletion, recovery of guests by their card, backfill, deduplication |
| `Sessions` | one-time codes, sign-in by e-mail, device and password, refresh tokens, linking, deactivation, deletion |
| `Accounts` | merge, cleanup and anonymisation of accounts beside payments that are posted and subscriptions that change; the limit of five |
| `Engagement` | the cooldown, links that do not ask for it, what the feed says of it, the streak, achievements, and what a merge of accounts makes of them |
| `MCDonations`, `MCBilling`, `MCCampaigns`, `MCCards`, `MCSessions`, `MCAccounts`, `MCEngagement` | instances for TLC |
| `BooksProof`, `DonationsProof` (with `Ledger`), `BillingProof`, `SessionsProof`, `EngagementProof`, `AccountsProof`, `CampaignsProof`, `CardsProof` | theorems and their proofs |

Several modules look at the same table from different sides: a donation's status is in `Donations`
(who changes it, and when), `Engagement` (when it was made and what posting it earns) and `Accounts`
(whose it is). Each module's header says which interleavings it leaves to another one.

### How `Donations` corresponds to the code

*Two steps per handler.* At READ COMMITTED a handler reads a row, tests it, and writes and commits
later. The model has a step for the read and the guard (`LoadSucceeded`, `LoadRefunded`,
`BeginRefund`, …; the session remembers its phase and donation) and a step for write and commit
(`PostSucceeded`, `PostCanceled`, `PostRefund`). `status` and `books` are the committed state.
A call to YooKassa in the middle is a step of its own (`CreatePayment`, `CreateRefund`). Between load
and commit anything may happen. A handler that returns early has changed nothing and is not a step.
Every request may also end in `Rollback` at any point, which is the exception path of
`get_db_session` and a dead worker alike; what it has done at YooKassa remains.

*Row locks.* The webhook's and the refund's writes happen at the end of their transaction, so they
are one step. The batch is longer: its UPDATEs take the locks of the donation, its campaign and its
user, and it keeps them until its one commit. A step that needs such a lock is disabled meanwhile
(`CanPost`, `LockedRow`). Lock-order deadlocks between batch and request end with one of them aborted
by PostgreSQL: `BatchAbort`, `Rollback`.

*The batch.* `BatchLoad` takes the oldest pending rows. SQLAlchemy's identity map returns the loaded
objects for the rest of the session, so the test `status == pending` in
`handle_payment_succeeded`, when the batch calls it, sees the value loaded and always passes:
`BatchWrite` has no guard on `status`. `BatchAsk` and `BatchWrite` are two steps because the answer
of `get_payment` may be overtaken. A batch whose `todo` is empty commits all verdicts at once.

*Creation.* `created_at` is `now()`, the start of the transaction, so `BeginCreate` sets it;
it is read by others only when the row is committed. The payment exists from
`CreatePayment` on. If the request then rolls back, a payable payment without a donation is left. A
notification that arrives before the commit finds no row and is acknowledged with 200
(`LoadSucceeded` needs a committed row); only the batch picks the donation up then.

*Daily tasks.* Each is one UPDATE. Its sums come from the statement's snapshot (`DailyScan`). If a
row is locked it waits, and then writes the sum from that snapshot all the same (`DailyWrite`).

*The goal.* `Books` keeps of a campaign whether it is active, and its goal (0: none, or permanent). A
posting closes an active campaign whose goal it reaches (`Process`), and only then does the code look at the
goal. An admin may meanwhile pause or complete the campaign (`CloseCampaign`, also by date), publish it
(`PublishCampaign`) or edit its goal (`EditGoal`), at any time no lock forbids. The history variable
`unchecked` has the campaigns whose goal was already collected when they were published, edited or corrected
by the daily task, until the next posting. Which status a closed campaign has is in `Campaigns`.

*Abstractions.* The clock is a bounded counter with ages in ticks. Amounts are small naturals.
`SUM(amount_kopecks)` is the constant `SumOf`, of which only additivity and its value on one row are
assumed (`SumAssumption`): TLC gets the real sum, the proofs hold for every such function and need no
recursion. The streak and the achievements a success also touches are in `Engagement`, the card it
saves in `Cards`. Not modelled: pushes, the validation of request fields, and donations without a
user (creation raises AUTH_REQUIRED for them).

*External.* YooKassa's payments and refunds (`payment`, `refund`) and time. Notifications are not
messages in a channel: whatever holds at YooKassa may be reported any number of times, in any order,
to several sessions at once, or never.

`Overlap = FALSE` is an assumption on the environment: no two sessions are at work on the same
donation at once (they may be at work on other donations of the same user and campaign). The
properties that need it say so, and a violation run shows what happens without it.

### How `Billing` corresponds to the code

*Rows.* `sub` and `row` are the committed rows of `subscriptions` and `transactions` with the columns
that decide anything: status, `next_billing_at`, whether there is a card; status, `attempt_number`,
`provider_payment_id`, `next_retry_at`. A subscription exists from the start, as
`create_subscription` inserts it. Time is left out: a timestamp is null, in the future or due, and
one in the future may become due at any moment (`PeriodEnds`, `DelayEnds`); a handler that writes
`now() + delta` writes "future".

*Requests.* A session keeps the two objects as it loaded them. SQLAlchemy's UPDATE has only the
columns that differ from the object as loaded; `Col` says what that makes of a row that another
session has written since. A success notification has three steps, because the SELECT of the
subscription flushes the transaction's new status: `LoadSucceeded` (found pending),
`ReadSubscription` (its row is locked from here on, the subscription is read), `PostSucceeded`.
`bind_card` has two: the row is visible only with `CommitBind`, the payment exists from `BindCard`
on. `Rollback` ends any request.

*The tasks.* A run selects its rows (`BillingLoad`, `RetryLoad`), calls YooKassa for each (`Charge`,
`RetryOne`), and commits everything at the end. What it has inserted or updated until then is in
`billing.rows` and `retry.rows`. The outcome of a call is one of three: answered; the payment was created but
the call raised; it raised and nothing was created. When it raises, the `except` of the loop
leaves the row as flushed and goes on: pending, without a payment (`Charge`) or with the payment of the attempt
before (`RetryOne`). A retry reads its subscription once per run (identity map, `seen`).
`BillingAbort` and `RetryAbort` are the worker's death before the commit. `Charge` may also find no
active campaign: a `skipped` row and the next period, without a call.

*Constants.* `Overlap = FALSE` assumes that no two requests, and no request and a retry run, are
at work on one subscription at once. `Outages = FALSE` assumes that no process dies, no request
fails, and no answer of YooKassa is lost after it created the payment; `billing_rerun` uses it, so
that its counterexample needs no crash.

*Abstractions.* Amounts, fees and the counters behind a success are left out (`Books` has them);
`posted` counts how often a success was posted minus how often a refund was. The limit of five
subscriptions is in `Accounts`, `update_subscription`, targets and reallocation in `Campaigns` (here
only its pause for want of a campaign, `LoadPause`). *External:* YooKassa's payments (`payment`,
`about`), notifications that nothing is found for (`Ignored`), time.

### The later modules: what they share

`Campaigns`, `Cards`, `Sessions`, `Accounts` and `Engagement` treat a request as above: it reads, then
writes and commits. `request` (in `Engagement`: `creator` and `poster`) is what it has read and
decided; the tables hold what is committed. A handler that writes rows it has read in the same
statement, or that nothing can come between, is one step. `Rollback` ends any request with nothing
written. What a request flushes before its commit locks those rows: steps that need them are disabled
(`Unlocked`, `Held`, `Free`). `MaxRequests` is only a bound on the requests of a behaviour.

Because reads lock nothing, most invariants are true only of rows that no two requests have worked on
at the same time. History variables record who has: `raced`, and `crowded` (`Accounts`), `hasty`
(`Engagement`); others record what a property excepts for another reason: `unchecked` (`Donations`),
`stranded` (`Sessions`), `brought`, `changed` and a row's `unclear` (`Engagement`). A property excepts exactly those rows, by name, so it says two things: the sequential
code is right whatever the order, and the listed overlap is the only way to break it. What a
merge does to a raced account it passes on: an account merged with a raced one is raced, because its
total has become part of the other's. History variables are read by no action.

### `Sessions`

`account` has users and admins with the identities (e-mail, device) they are found by; `code` and
`token` are the rows of `otp_codes` and `refresh_tokens`; `sent` is the Redis counter of codes sent with
its TTL. A sign-in has up to three steps. `EnterCode`, `EnterToken`, `Register`, `LoginAdmin` are the
first read. `Recognise`, `RecogniseLink`, `RecogniseToken` are the read of the account after the codes
or the token have been flushed as used. `Issue` inserts the new token, writes the account (create, attach an
e-mail, merge a guest away) and commits, if the partial unique indexes on e-mail and device allow it.
A mistyped code and a replayed refresh token flush something and then raise: phase `raised`, from which
only `Rollback` leads. `CountSend` and `StartWindow` are INCR and EXPIRE. `SwitchOff`, `Anonymize` and
`Logout` are single statements. A process may die between INCR and EXPIRE as anywhere else (`Rollback`): the
counter then has no TTL, and `stranded` remembers the e-mail.
External: time (`WindowEnds`, `CodeExpires`, `TokenExpires`).

### `Campaigns`

The first step of an admin's request reads the campaign and asks VALID_TRANSITIONS (`Transition`).
Publishing, pausing and archiving then commit (`CommitStatus`). A closing flushes the campaign as
completed, which locks it, and reads the subscriptions (`Close`); `Move` gives each a campaign by
`FindCampaign` (the strategies with their fallbacks) and flushes it; `CommitMoves` commits all. The
order by urgency, share and position may be edited at any time: any active campaign may be the first.
Payments and the nightly task complete a campaign with UPDATEs that have the status in their WHERE.
Users create, redirect, pause, resume and cancel subscriptions meanwhile. A campaign may be created or edited
with or without a goal; an edit that changes nothing sends no UPDATE and is no step. An offline payment is looked for
(`LoadOffline`), then inserted and added with one UPDATE (`CommitOffline`); the unique index admits one row for
each reference.

### `Cards`

`table` is `payment_methods` in the order of creation, so that "newest" is the larger index. A card's
`print` is the physical card or `None` when the notification did not describe it. A notification loads
its payment, looks for a live row (`FindCard`), inserts (`InsertCard`: the unique index makes the
second insert wait), gives the rouble of a binding back (`GiveBack`) and commits (`CommitCard`).
Deletion and default have a read and a commit between which the other cards may change; an attribute
is written only if it differs from the one loaded. `MergeAll` merges guests one after the other in any
order. `CommitDedupe` works on the rows as its first query loaded them.

`raced` collects the accounts that two requests have worked on at a time. A request works on the accounts it
has loaded and, because it writes rows by their id, on those that own these rows by now (`Users`): a
deletion may have loaded a guest's card that two merges in a row then take to a third account, whose default
it takes away although no other request ever loaded that account together with it.

### `Accounts`

Whoever has a token may donate and subscribe, also after the account has ended (`HasToken`: handlers
look only at the token). `LoadMerge`/`CommitMerge` is `merge_anonymous_into`: the totals are those
loaded, the rows moved are those found by the UPDATEs. `LoadClean`, `Decide`, `CommitClean` are the batch
of `cleanup_inactive_anonymous_users`, from the choice between deleting and keeping to the one
commit; foreign keys keep an account with a subscription (`RESTRICT`) and unlink a donation (`SET
NULL`). `CheckLimit`/`CommitSubscribe` count the open subscriptions and insert one.

### `Engagement`

`BeginDonation` is the cooldown check and `CommitDonation` the insert, a provider call later;
`created_at` is the time of the first. `BeginLink` (`create_payment_link`) checks nothing, and its donation
blocks others like any. `Merge` is `merge_anonymous_into` as these columns see it: donations and charges
change their owner, the counts are added, the streak is the higher and the date the later of the two, whichever
account has it (`MergedRow`); awards stay with the guest. Requests of either account may be under way
(a guest's token still works, and the row is then inserted for the guest); a posting may not, since what a
posting and a merge do to each other is a race of `Accounts`. A poster is a notification or a batch: it reads the date before it
has the user's row (`BeginPost`, `ReadDate`), and updates row, statistics and awards when it gets the
lock (`Post`), all visible with `CommitPost`. `total_amount` conditions of achievements behave like
`donations_count` and are left out.

## 3. The runs

| run | checks | instance | distinct states |
|---|---|---|---|
| `donations_batch` | `TypeOK`, `MoneyIsReal`, `LinkFollowsMoney`, `DonorsCountExact`, `SupportersAreDonors`, `GoalClosesCampaign` | one request session and the batch (of 2), clock to 2, no goal or the goal 2 | 951 578 |
| `donations_exact` | `BooksExact`, `ImplementsLedger` | two sessions and the batch, `Overlap = FALSE` | 47 884 |
| `donations_live` | `PaidIsResolved`, `DriftIsRepaired` | two users, one session, batches of one | 194 418 |
| `donations_double_count` | `NotCountedTwice` is violated | two sessions | |
| `billing_overlap` | `TypeOK`, `SuccessWasPaid`, `ActiveWasPaid`, `RetryIsTaken` | one session beside both tasks, two transactions, three payments | 99 711 |
| `billing_exact` | `PostedOnce`, `ImplementsDunning` | three transactions and payments, `Overlap = FALSE` | 612 299 |
| `billing_rerun` | `RunIsIdempotent` is violated | no outages | |
| `sessions` | `TypeOK`, `IssuedOnce`, `SignedOut`, `LimitIsLifted` | two users, two admins, two e-mails, one device, one code, three tokens; two requests at a time, three in all | 858 924 |
| `campaigns` | `TypeOK`, `CollectedExact`, `LifeCycle`, `ClosingEmpties`, `MovedToActive` | two campaigns of two foundations, one subscription, one payment; two requests at a time, three requests, donations and charges in all | 640 927 |
| `cards` | `TypeOK`, `OneDefault`, `NothingLeftBehind`, `GivenBackForACard`, `DedupeKeepsNewest` | two users, two cards, three payments; two requests at a time, three in all | 1 307 574 |
| `accounts` | `TypeOK`, `TotalsExact`, `EndedIsNotCharged`, `LimitKept`, `HistoryIsKept` | two users, two payments, limit 2, cleanup batch 2; two requests at a time, four in all | 1 165 311 |
| `engagement` | `TypeOK`, `CooldownKept`, `FeedAgrees`, `StreakExact`, `AwardsExact` | a user and a guest, two payments, three days, two posters, two creators | 1 672 794 |

Deadlock is not checked: with bounded clocks and request counts, and settled payments, nothing is left to do.

*Why the bounds are enough.* Every property of `Donations` is about one donation, or about two that
share a user and a campaign. Its runs have two, of 1 and 2 kopecks, to one campaign without a goal or with
the goal 2, which an admin may change at any time (the first payment does not reach it and the second
does, alone or together, and either may be posted while the campaign is paused); one may belong to a patron's
link. A batch of two has a donation already written and one still being asked
about. Two sessions with the batch and `Overlap` have many millions of states; the invariants of
`donations_batch` are proved for any number of sessions instead. The clock goes from "too young to
poll" over "pollable" to "older than `MaxAge`". `BeginCreate` is only taken while the clock can still
carry the new donation past `MaxAge`, so that the bound itself never keeps a donation pending.
`donations_live` has batches of one, so that one pending donation waits behind the other.

The properties of `Billing` are about one subscription and its transactions, so there is one
subscription; what several in one run share is the run's commit. Two transactions and three
payments are the first payment, a charge, and a retry of that charge; `billing_exact` has a third
transaction for a second period. Two attempts (`MaxAttempts = 2`, in the code 4) are one retry and the
end of the schedule. Two overlapping sessions with two transactions have over five million states;
for them the invariants of `billing_overlap` are proved.

The interesting cases of the later modules are two requests that meet, with a third before or after
them: a code entered twice and a token rotated while the account is merged (`sessions`, where one more token
is there to be the successor; `SendLimit = 1` so that the second code is refused); a closing beside the
opening of the campaign it moves to, or beside the user (`campaigns`); two saves of one card, and a
deduplication beside a deletion (`cards`: three payments are two cards of one physical card and a
third to be the default). `accounts` has four requests because what breaks a total takes a donation, its
posting, a merge and a refund; `MaxSubs = 2` is reached and exceeded, and a cleanup batch of two has one
account deleted for good and one kept. `Offline = {o1, o2}` in `campaigns` is one payment and its repetition;
the goal 2 is reached by a donation and an offline payment. In `engagement` a day is one hour long and the cooldown too, so
that three days are three ticks (yesterday, today, tomorrow), the boundary `at + Cooldown = now` is hit,
and both achievements ask for two. Two payments are enough for a pair within the cooldown and for a streak of
two; the guest has one of them at most (`MaxGuestRows`), so that a merge brings a payment of his, or his
date, to one of the other's. One charge may be skipped (`MaxSkips`) and one achievement switched
off (`MaxChanges`); `RowsLeft` keeps a row for every open request.

*Fairness* (`donations_live`). The scheduler starts its tasks again and again, so
`ReconcilePending`, `DailyScan` and `DailyWrite` are weakly fair, and so is the clock. A request ends
(weak fairness of `Rollback`, disabled once it has ended otherwise). `OutagesEnd`: eventually YooKassa answers
`get_payment` and the task is not killed any more; without it `PaidIsResolved` is false
(a payment whose polling always raises stays the oldest candidate for ever). Nothing is assumed of notifications, users
or payments: all notifications may be lost.

In `billing_overlap` the steps of both tasks' runs are weakly fair (a cron
schedule, one run after the other), as are the steps of a request that has started, time, and
YooKassa's decision. YooKassa repeats a notification until it is answered, so loading a notification is
strongly fair until it was. `OutagesEnd`: from some time on runs and requests are no longer killed. Nothing is
assumed of users. The other runs check safety only: in their modules nothing is promised to happen
eventually, except that the send limit is lifted: `LimitIsLifted` says when a window has no TTL and so is not.

## 4. Where the code departs from its texts

Two departures are violation runs and `findings` in `PROJECT.json`: a payment counted twice by two
deliveries that overlap (`donations_double_count`), and a second charge by a run half an hour later
(`billing_rerun`). Paths below are relative to `src/backend/app`. Of the texts
`docs/docs/porubly_functional_requirements_v3.md` is cited as `v3.md`,
`docs/docs/technical/full_specification_and_demo.md` as `full_specification`, `docs/docs/api_client_guide.md`
as `api_client_guide`.

The models have the following behaviours too, each an action or a pair of actions one can point at;
no run is spent on them.

*Donations and billing.*
- The batch overwrites a committed success with failed (`tasks/reconcile_pending_donations.py:160`), and
  gives a donation up on an outdated answer.
- The billing run commits once, at the end: a crash loses the rows of charges already made
  (`tasks/billing.py:53`, against BILL-02 in v3.md:594).
- A transaction becomes visible only after YooKassa knows its payment: a notification that is faster is
  answered 200 and forgotten (`services/webhook.py:101`, against v3.md:596); no task polls transactions.
- The last of the four retry delays is never used (`services/webhook.py:229`, against api_client_guide:1853).
- A cancelled subscription is made active or paused again by a request that had loaded it before
  (`services/subscription.py:135`).
- `DriftIsRepaired` shows that sums are repaired by the daily tasks; a campaign that was completed early
  on a double count stays completed, as no transition leads back.
- The goal is looked at only when a payment is posted, and only of an active campaign
  (`services/payment.py:94`). A campaign paid while it is paused and then published, one whose goal is lowered or
  whose permanence is taken off while active (`api/v1/admin/campaigns.py:141-185, 263-271`), and one the daily
  task corrects upwards stay active with the goal collected until the next payment: `unchecked`.

*Campaigns.* Completion by goal or by end date reallocates no subscription (`services/payment.py:84`,
against full_specification:309 and v3.md:619). A subscription paused for want of campaigns is not
resumed when there is one (against v3.md:601, 716). A subscription created for a specific campaign keeps no
foundation to fall back on (against full_specification:303). `_find_foundation_pool` does not ask whether
the foundation is active. Resuming leaves a subscription on a campaign that is closed; billing then
looks for another one.

*Cards.* Two first saves at a time give two default cards, until a merge or a deduplication
(`services/account_merge.py:79`) repairs them. `api/v1/admin/payment_methods.py:15-17` says that
duplicates are prevented on writing; they are not. The card of a binding is saved for the account its
metadata names, which may have been merged or deleted. A refund of the rouble that YooKassa refuses is
never tried again.

*Accounts and sessions.* The revocation after a replayed refresh token, and the count of mistyped
codes, are rolled back by the exception that follows them (`services/auth.py:236-240`, `439-453`,
`core/database.py:18-25`). FOR UPDATE does not keep two requests from both counting four subscriptions
(`services/subscription_limits.py:20`). A merge does not move `campaign_donors`, achievements and shown
thanks. The cleanup leaves paused subscriptions as they are. A process that dies between INCR and EXPIRE
leaves a counter without TTL, and after the limit the e-mail is refused for ever, whatever later requests do
(`services/auth.py:78-80`; `stranded`). The access token of an account that has
ended works until it expires. An admin can activate a deleted user (`api/v1/admin/users.py:150`).

*Engagement.* `next_streak_push_at` is written by nothing, so the streak push is never sent, and
`push_daily_streak` is not asked. A patron's link passes no cooldown check (`services/patron.py:30-43`): it may
follow a donation, or another link, at once. A merge brings the donations of two users together, whatever
their distance, and takes the higher streak and the later date independently (`services/account_merge.py:51-53,
139-145`): a guest's streak of three that ended long ago and a target's streak of one from today make three
today. The guest's awards are lost with his account. A skipped charge after a gap carries an old streak on, and a
payment on the day of a skip is not counted (against v3.md:286-289, 634, 877: history variable
`unclear`). `get_impact` shows a streak that is over. The feed says `can_donate_now` while a pending donation makes
`create_donation` refuse (schemas/campaign.py:71). A reminder may be missed or sent twice around the
hour (`tasks/donation_reminder.py:31`). The feed pages by `created_at` while it sorts by urgency.

## 5. What is proved

For every set of donations, campaigns, users, sessions, subscriptions, transactions, payments, accounts,
codes, tokens, foundations, offline payments and requests, every bound, and both values of `Overlap` and
of `Billing`'s `Outages` (except where said):

| theorem | statement |
|---|---|
| `DonationsProof!TypeCorrect` | `Spec => []TypeOK` |
| `DonationsProof!DonorsCountCorrect` | `Spec => []DonorsCountExact` |
| `DonationsProof!MoneyCorrect` | `Spec => []MoneyIsReal` |
| `DonationsProof!LinkCorrect` | `Spec => []LinkFollowsMoney` |
| `DonationsProof!SupportersCorrect` | `Spec => []SupportersAreDonors` |
| `DonationsProof!BooksCorrect` | `~Overlap` implies `Spec => []BooksExact` |
| `DonationsProof!GoalCorrect` | `Spec => []GoalClosesCampaign` |
| `DonationsProof!LedgerCorrect` | `~Overlap` implies `Spec => ImplementsLedger` |
| `DonationsProof!LedgerExact` | `Spec => []Exact` of `Ledger`, over variables of its own |
| `BillingProof!TypeCorrect` | `Spec => []TypeOK` |
| `BillingProof!SuccessCorrect` | `Spec => []SuccessWasPaid` |
| `BillingProof!ActiveCorrect` | `Spec => []ActiveWasPaid` |
| `BillingProof!PostedCorrect` | `~Overlap` implies `Spec => []PostedOnce` |
| `BillingProof!DunningCorrect` | `~Overlap` implies `Spec => ImplementsDunning` |
| `SessionsProof!TypeCorrect` | `Spec => []TypeOK` |
| `SessionsProof!IssuedOnceCorrect` | `Spec => []IssuedOnce` |
| `SessionsProof!SignedOutCorrect` | `Spec => []SignedOut` |
| `SessionsProof!LimitCorrect` | `Spec => []LimitIsLifted` |
| `EngagementProof!TypeCorrect` | `Spec => []TypeOK` |
| `EngagementProof!CooldownCorrect` | `Spec => []CooldownKept` |
| `EngagementProof!StreakCorrect` | `Spec => []StreakExact` |
| `EngagementProof!FeedCorrect` | `Spec => []FeedAgrees` |
| `EngagementProof!AwardsCorrect` | `Spec => []AwardsExact` |
| `AccountsProof!TypeCorrect` | `Spec => []TypeOK` |
| `AccountsProof!TotalsCorrect` | `Spec => []TotalsExact` |
| `AccountsProof!LimitCorrect` | `Spec => []LimitKept` |
| `AccountsProof!EndedCorrect` | `Spec => []EndedIsNotCharged` |
| `AccountsProof!HistoryCorrect` | `Spec => HistoryIsKept` |
| `CampaignsProof!TypeCorrect` | `Spec => []TypeOK` |
| `CampaignsProof!LifeCycleCorrect` | `Spec => LifeCycle` |
| `CampaignsProof!ClosingCorrect` | `Spec => ClosingEmpties` |
| `CampaignsProof!MovedCorrect` | `Spec => MovedToActive` |
| `CampaignsProof!CollectedCorrect` | `Spec => []CollectedExact` |
| `CardsProof!TypeCorrect` | `Spec => []TypeOK` |
| `CardsProof!DefaultCorrect` | `Spec => []OneDefault` |
| `CardsProof!MergeCorrect` | `Spec => []NothingLeftBehind` |
| `CardsProof!GivenBackCorrect` | `Spec => []GivenBackForACard` |
| `CardsProof!DedupeCorrect` | `Spec => DedupeKeepsNewest` |

*Assumptions.* `ContributionAssumption` (finite sets, positive amounts), `SumAssumption`
(additivity), `DonationAssumption` (bounds are natural numbers, `NoDonation` is no donation),
`BillingAssumption` (each transaction has a subscription, `None` is none of them),
`SessionsAssumption` (users and admins, e-mails and devices, codes and tokens are different things),
`EngagementAssumption` (a day has an hour, payments are finitely many, `None` is no number),
`AccountsAssumption` (finite sets, positive limits, `None` is nobody),
`CampaignsAssumption` (payments are finitely many, goals are positive, `None` is none of the things it stands
in for), `CardsAssumption` (users are finitely many, `None` is none of the things it stands in for).

*Argument.* `TypeOK` is inductive; the counters stay natural because `GREATEST(0, ..)` is.
`DonorsCountExact` is inductive with it: every step leaves the books alone or processes, reverses,
corrects or closes (`BooksSteps`), and `Process` and `Reverse` keep the count
(`BooksProof!ProcessCount`, `ReverseCount`, from the library's cardinality theorems). `MoneyIsReal` and
`LinkFollowsMoney` are not inductive: what justifies a commit is what the session knew at its load.
`MoneyInv` therefore adds `SessionsAreRight` (a phase stands for what YooKassa has done, and YooKassa
never takes it back), `BatchIsRight` (an answer held and a verdict written are backed by a payment),
`RefundedWasPaid`, and `CreationIsExclusive` (a row being inserted is nobody else's).
`SupportersAreDonors` needs that a refund's count and its DELETE are in one step with the commit, under the
campaign's row lock. `GoalClosesCampaign` is inductive with `TypeOK`, whatever overlaps: a posting, also a
second one of the same payment, leaves no campaign it touched active with its goal collected and raises no
other's amount (`GoalProcess`), a refund only lowers an amount (`GoalReverse`), and a correction, a publication
or an edit puts into `unchecked` what it leaves so (`GoalCorrected`, `GoalManage`).

What needs `Overlap = FALSE` has the invariant `ExactInv`. It adds what that hypothesis gives: two sessions
at work are at work on two donations, and the batch on others (`Alone`); so what a session or the batch
loaded is still the committed status of its donation (`SessionsCurrent`, `BatchCurrent`), although the
counters of the same campaign and user change all the time. Then each posting moves one donation in or out of the
sum (`SumsProcess` and its mirror image, from the additivity of the sum alone: `BooksProof`), a batch moves all it
has posted at once, the daily tasks never find a difference (`daily.job = "none"`), and every step is a
step of `Ledger` or leaves it alone (`LedgerStep`).

`Billing` is argued the same way. `MoneyInv` adds `SessionsKnow` (what a phase stands for) and
`RowsBacked`, which says the same of a row wherever it is, committed or put aside by a run: its payment
id belongs to this transaction, and a status of success has a payment behind it. Both are facts that last
(`Lasting`: no payment changes its transaction, no outcome is taken back), so a step only has to account for the one row
or session it writes. For `PostedOnce` and the refinement of `Dunning` under `Overlap = FALSE`, `OnceInv` says of
each row that its columns, what was posted for it and what YooKassa says of its payment agree (`RowRight`);
that what the runs have put aside is the first attempt of a row not yet there (`Inserting`) or the next
attempt of one that failed and has attempts left (`Retrying`); and that what a request loaded is the
committed row (`Current`), as nobody else but the billing run is at work on its subscription (`Exclusive`).
`Dunned` says of every step what it does to a row in the terms of `Dunning`.

`Sessions`: `IssuedOnce` alone says nothing of a request that is still at work, so the invariant has
what a request knows of its code, its token and its account (`RequestsKnow`), and that this still holds
unless another request has met it (`OverlapsRaced`: two requests at work on one thing have made it
`raced`). With `OneSuccessor`, a code or token that has a successor is used, and one that a request is about to
exchange has none. `AdminsStay` and `TokensExist` say that an owner of a token exists. `LimitIsLifted`
is an equivalence, so it needs more than itself (`Window`): at most one request has begun a window and is still
before its EXPIRE, that window is not stranded, and only a counter that has counted has a TTL. A window with a TTL may end and be
begun again; a stranded one has none, and so never ends.

`Engagement`: the streak is compared with the dates themselves. `StreakOK` is kept by `Posted` and by a
skip (`PostedOK`, `SkippedOK`, from what the next date does to a run: `RunJoined`, `RunBegins`); `RowsRight`
says it of every row, committed or put aside by a poster, and that no date read lies ahead of the clock, which no
step turns back. `TakenByOne` (what is being posted is pending, and posted by one) keeps a posting from
reviving a payment, and `Spaced` carries the cooldown from a request's check to its insert (`Apart` of two
donations, `After` of a donation and a request, which asks nothing of a link; `Past`: neither is of a time to
come). A merge keeps both, since it joins the donations of two users into pairs that are `brought`, and
makes its target hasty if a request of his is open. The bound of the streak by the days up to the last date
survives a merge because the target gets the days of both and the later date (`MergedOK`). That the feed
agrees needs the last donation to exist: `Largest`, from the well-foundedness of the natural
numbers. `AwardsExact` compares the awards with the user's history, so `AwardsInv` says of every row,
committed or put aside, that it counts exactly the payments given (for a row put aside: with those of the
batch, `Pending`), and that its awards are those of the most there has been. Rows put aside are right until their
commit because nobody else has them (`Locks`: a refund or a skip waits for the row). A posting
reaches what its streak reaches and what had been reached before (`ReachedByPost`), a skip nothing new. A
merge adds the payments of two users, and the target has earned what he had earned: what it brings
counts from his next payment on (`MergedRight`), which is when the code looks.

`Accounts`: a merge writes totals it read before the commits of others, a cleanup deletes whom it found without a
donation, a posting writes a status for a subscription it loaded: the invariant (`Inv`) says for each request at work
what it may still rely on (`Paying`, `Writing`, `Merging`, `Cleaning`, `Asking`) unless its accounts are
`raced`. One lemma (`KnowsPass`) reduces "another's step leaves that true" to `Passes`, what a step may
change without being noticed, so each action has one short argument about the others and one about itself.
`OverlapsRaced` gives the rest: whoever ends an account while another request has it makes both raced. `Stopped`
is `EndedIsNotCharged` with all the statuses that could become active. `TotalsExact` is a
sum that moves between owners: a posting and a refund add and remove one element, a merge unites two disjoint
sets (lemmas on cardinalities); `LimitKept` likewise.

`Campaigns`: its action properties except what two requests touched at once, so the invariant says that two
requests at work on one row have made it `raced` (`Apart`) and what each request may rely on otherwise
(`Held`): the status it saw still stands (`Seen`), rows still to be moved are as they were read
(`TodoCurrent`), a planned move goes to a campaign that is still active (`PlanCurrent`), and a closing has every
subscription of the campaign among those to be moved or planned (`Swept`). `MovedToActive` and
`ClosingEmpties` are what is left of the last two when nothing is to be moved any more. `CollectedExact`
needs that a payment is posted only once it was made (`MadeFirst`).

`Cards`: `OneDefault` holds of the accounts nobody raced although flags are computed from reads. `Inv` says
what each request may rely on (`Open`: what its phase means, `Shape`; whose its rows are, `Held`; that what it
read of an account not raced is still so, `Fresh`) and that requests with an account in common have raced
it (`Apart`). A step names the accounts whose rows it writes (`Works`): another request either works on none
of them, and what it has read stands (`OpenAside`), or is raced on them from this step on; `StepKeeps` puts that
together once for all actions, which then account for their own accounts only. A live card has an
owner (`Owners`), so no card changes hands unseen. A recovery merges several guests one by one: `Merges` is a
function on the numbers up to their count, and what holds after each merge (`MergesIs`: the owners moved so far, one
default with the recovering account, all others as before) goes from one to the next by the least
number for which it would fail (`Stepwise`). `Followed` (an account that was merged has no donation from before the merge)
carries `NothingLeftBehind`, `Covered` carries `GivenBackForACard`, and that a deduplication has read the
table as it is, or every account is raced, carries `DedupeKeepsNewest`.

*Only model-checked:* liveness (`PaidIsResolved`, `DriftIsRepaired`, `RetryIsTaken`), which is out of the prover's
reach. `BooksExact`, `PostedOnce` and the two refinements are stated under `~Overlap`, in the
runs as in the theorems: the code does not keep them otherwise, as the run `donations_double_count` shows.

## 6. What is left

No invariant or action property that a run checks is without its theorem. `donations_exact`, `billing_exact`
and their theorems take two sessions on one donation or subscription as excluded; what remains true
of the books when they overlap is stated only of `donors_count`, the donor rows and the goal, and of the sums only
that the nightly task repairs them. What a posting and a merge of the same user do to each other is in
`Accounts` (totals), and not in `Engagement` (streak, awards).

*Not modelled, and why.* Payouts and statistics: single statements on rows, or reads of rows, that nothing
else depends on. Content (documents, media, thanks and their texts) and rendering: I/O. Pushes and
reminders: a row in a log and a call to Firebase; nothing reads either. Profile, notification
preferences, admins' own data: one UPDATE of columns no handler's decision depends on. Lock-order deadlocks as such:
PostgreSQL aborts one of the transactions, and `BatchAbort`, `AbortPost` and `Rollback` are that
abort; who waits for whom is not tracked. The width of integers: 32-bit counters overflow at 21 474 836.47
roubles (hazard in `PROJECT.json`); the modules count in natural numbers. HTTP, the encoding of
requests to YooKassa, schemas, migrations, logging, configuration: no behaviour of their own.
