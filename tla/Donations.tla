------------------------------ MODULE Donations ------------------------------
(***************************************************************************)
(* One-time donations from creation to refund, with everything that works  *)
(* on a row of the donations table at the same time:                       *)
(*                                                                         *)
(*   - API requests (services/donation.py, services/patron.py) and the     *)
(*     admin's refund (services/refund.py);                                *)
(*   - YooKassa's notifications (services/webhook.py), which may come      *)
(*     twice, late, in another order or never;                             *)
(*   - the task that polls YooKassa for pending donations                  *)
(*     (tasks/reconcile_pending_donations.py), one transaction per batch;  *)
(*   - the daily tasks that rewrite drifted counters                       *)
(*     (tasks/reconciliation.py).                                          *)
(*                                                                         *)
(* Each request has a database session of its own, committed when the      *)
(* handler returns and rolled back when it raises (core/database.py), at   *)
(* PostgreSQL's READ COMMITTED.  So a handler is two steps: it loads the   *)
(* row and tests its status, and later it writes and commits, on the       *)
(* status it has seen.  An UPDATE waits for a row lock, hence a write is   *)
(* not enabled while the batch holds a row it needs.  `books' and `status' *)
(* are the committed state.                                                *)
(***************************************************************************)
EXTENDS Books

CONSTANTS
  Session,      \* database sessions that may be open at a time
  NoDonation,   \* "no row"
  PatronLink,   \* the donations created for a patron's payment link
  MinAge,       \* RECONCILE_MIN_AGE_MINUTES
  Cooldown,     \* DONATION_COOLDOWN_HOURS
  MaxAge,       \* RECONCILE_MAX_AGE_HOURS
  LinkTTL,      \* PATRON_LINK_TTL_HOURS
  BatchSize,    \* RECONCILE_BATCH_SIZE
  MaxTime,      \* bound of the clock
  Overlap       \* may two sessions work on the same donation at once?

ASSUME DonationAssumption ==
  /\ NoDonation \notin Contribution
  /\ PatronLink \subseteq Contribution
  /\ MinAge \in Nat /\ Cooldown \in Nat /\ MaxAge \in Nat /\ LinkTTL \in Nat
  /\ MaxTime \in Nat
  /\ BatchSize \in Nat \ {0}
  /\ Overlap \in BOOLEAN

Donation == Contribution

VARIABLES
  now,       \* the clock
  status,    \* donations.status, "none" while there is no committed row
  created,   \* donations.created_at
  link,      \* patron_payment_links.status of the donation's link
  payment,   \* external: status of the donation's payment at YooKassa
  refund,    \* external: status of its refund at YooKassa
  session,   \* the requests in progress: the phase and the donation of each
  batch,     \* the transaction of reconcile_pending_donations
  daily,     \* the UPDATE of a task of tasks/reconciliation.py
  books,     \* the counters
  unchecked  \* history: the campaigns published, given a goal or corrected by
             \* the daily task when that goal was collected, and not paid since

vars == <<now, status, created, link, payment, refund, session, batch, daily, books, unchecked>>

DonationStatus == {"none", "pending", "success", "failed", "refunded"}
LinkStatus     == {"none", "pending", "paid", "expired"}
PaymentStatus  == {"none", "pending", "succeeded", "canceled"}
RefundStatus   == {"none", "pending", "succeeded"}

(***************************************************************************)
(* The phases of a request on donation d:                                  *)
(*   creating    create_donation has inserted the row, not yet committed   *)
(*   created     ... and YooKassa has returned the payment                 *)
(*   paid        a payment.succeeded handler has found d pending           *)
(*   canceled    a payment.canceled handler has found d                    *)
(*   refunded    a refund.succeeded handler has found d successful         *)
(*   refunding   refund_donation has found d successful                    *)
(*   refundDone  ... and YooKassa has answered that the refund succeeded   *)
(***************************************************************************)
Phase == {"creating", "created", "paid", "canceled", "refunded", "refunding", "refundDone"}

Idle == [phase |-> "idle", d |-> NoDonation]

NoBatch == [on     |-> FALSE,
            start  |-> 0,                              \* `now' of the run
            todo   |-> {},                             \* candidates left
            d      |-> NoDonation,                     \* the one asked about
            answer |-> "none",                         \* what YooKassa said
            wrote  |-> [d \in Donation |-> "none"]]    \* uncommitted status

\* The tasks of tasks/reconciliation.py.
Job == {"collected", "donors", "impact"}

NoDaily == [job |-> "none", rows |-> {}, success |-> {}]

SessionState == [phase : Phase, d : Donation] \cup {Idle}

BatchState == [on     : BOOLEAN,
               start  : Nat,
               todo   : SUBSET Donation,
               d      : Donation \cup {NoDonation},
               answer : PaymentStatus,
               wrote  : [Donation -> {"none", "success", "failed"}]]

DailyState ==
  [job : {"none", "collected", "donors"}, rows : SUBSET Campaign, success : SUBSET Donation]
  \cup [job : {"impact"}, rows : SUBSET User, success : SUBSET Donation]

TypeOK ==
  /\ now \in Nat
  /\ status \in [Donation -> DonationStatus]
  /\ created \in [Donation -> Nat]
  /\ link \in [Donation -> LinkStatus]
  /\ payment \in [Donation -> PaymentStatus]
  /\ refund \in [Donation -> RefundStatus]
  /\ session \in [Session -> SessionState]
  /\ batch \in BatchState
  /\ daily \in DailyState
  /\ books \in BooksType
  /\ unchecked \subseteq Campaign

Init ==
  /\ now = 0
  /\ status  = [d \in Donation |-> "none"]
  /\ created = [d \in Donation |-> 0]
  /\ link    = [d \in Donation |-> "none"]
  /\ payment = [d \in Donation |-> "none"]
  /\ refund  = [d \in Donation |-> "none"]
  /\ session = [s \in Session |-> Idle]
  /\ batch   = NoBatch
  /\ daily   = NoDaily
  /\ \E goal \in [Campaign -> Goals] : books = EmptyBooks(goal)
  /\ unchecked = {}

-----------------------------------------------------------------------------
\* The rows with committed status `success'.
Successful == {d \in Donation : status[d] = "success"}

\* The rows the batch has flushed as `success', and the locks that gives it:
\* the donation's row, its campaign's and its user's, up to its commit.
WroteSuccess == {d \in Donation : batch.wrote[d] = "success"}
LockedRow(d) == batch.wrote[d] # "none"
LockedCampaign(c) == To(WroteSuccess, c) # {}
LockedUser(u) == From(WroteSuccess, u) # {}

CanPost(d) ==
  /\ ~LockedRow(d)
  /\ ~LockedCampaign(Target[d])
  /\ ~LockedUser(Owner[d])

\* Is some session, or the batch, working on row d?
Occupied(d) ==
  \/ \E s \in Session : session[s].d = d
  \/ d \in batch.todo \cup {batch.d}
  \/ LockedRow(d)

Available(d) == Overlap \/ ~Occupied(d)

Enter(s, phase, d) == session' = [session EXCEPT ![s] = [phase |-> phase, d |-> d]]
Leave(s) == session' = [session EXCEPT ![s] = Idle]
In(s, phase) == session[s].phase = phase

\* External: time passes.
Tick ==
  /\ now < MaxTime
  /\ now' = now + 1
  /\ UNCHANGED <<status, created, link, payment, refund, session, batch, daily, books, unchecked>>

-----------------------------------------------------------------------------
(***************************************************************************)
(* POST /donations and POST /patron/payment-links.                         *)
(***************************************************************************)

\* _check_donation_cooldown: no pending or successful donation of the user to
\* the campaign is younger than the cooldown.
CooldownOver(u, c) ==
  \A d \in From(To(Donation, c), u) :
    status[d] \in {"success", "pending"} => created[d] + Cooldown <= now

\* The checks of create_donation (of create_payment_link, which has no
\* cooldown), and the INSERT: created_at is the start of the transaction.
\* The clock's bound leaves every donation the time to grow stale.
BeginCreate(s, d) ==
  /\ In(s, "idle")
  /\ status[d] = "none" /\ payment[d] = "none" /\ ~Occupied(d)
  /\ now + MaxAge < MaxTime
  /\ Target[d] \in books.active
  /\ d \in PatronLink \/ CooldownOver(Owner[d], Target[d])
  /\ Enter(s, "creating", d)
  /\ created' = [created EXCEPT ![d] = now]
  /\ UNCHANGED <<now, status, link, payment, refund, batch, daily, books, unchecked>>

\* YooKassa accepts create_payment.  The payment exists from here on, and may
\* be paid, while the row is still invisible to every other session.
CreatePayment(s) ==
  /\ In(s, "creating")
  /\ Enter(s, "created", session[s].d)
  /\ payment' = [payment EXCEPT ![session[s].d] = "pending"]
  /\ UNCHANGED <<now, status, created, link, refund, batch, daily, books, unchecked>>

CommitCreate(s) ==
  LET d == session[s].d IN
  /\ In(s, "created")
  /\ Leave(s)
  /\ status' = [status EXCEPT ![d] = "pending"]
  /\ link' = IF d \in PatronLink THEN [link EXCEPT ![d] = "pending"] ELSE link
  /\ UNCHANGED <<now, created, payment, refund, batch, daily, books, unchecked>>

\* A handler raises, or its worker dies: get_db_session rolls back.  What the
\* request has already done at YooKassa stays done.
Rollback(s) ==
  /\ ~In(s, "idle")
  /\ Leave(s)
  /\ UNCHANGED <<now, status, created, link, payment, refund, batch, daily, books, unchecked>>

-----------------------------------------------------------------------------
(***************************************************************************)
(* External: YooKassa.  A payment is captured at once, so it ends as       *)
(* succeeded or canceled; a full refund is made at most once, by the admin *)
(* endpoint or in the merchant's account.                                  *)
(***************************************************************************)
Pay(d) ==
  /\ payment[d] = "pending"
  /\ payment' = [payment EXCEPT ![d] = "succeeded"]
  /\ UNCHANGED <<now, status, created, link, refund, session, batch, daily, books, unchecked>>

CancelPayment(d) ==
  /\ payment[d] = "pending"
  /\ payment' = [payment EXCEPT ![d] = "canceled"]
  /\ UNCHANGED <<now, status, created, link, refund, session, batch, daily, books, unchecked>>

RefundOutside(d) ==
  /\ payment[d] = "succeeded" /\ refund[d] = "none"
  /\ refund' = [refund EXCEPT ![d] = "succeeded"]
  /\ UNCHANGED <<now, status, created, link, payment, session, batch, daily, books, unchecked>>

SettleRefund(d) ==
  /\ refund[d] = "pending"
  /\ refund' = [refund EXCEPT ![d] = "succeeded"]
  /\ UNCHANGED <<now, status, created, link, payment, session, batch, daily, books, unchecked>>

-----------------------------------------------------------------------------
(***************************************************************************)
(* Notifications.  Whatever has happened at YooKassa may be reported any   *)
(* number of times, to several sessions at once, or not at all.  A report  *)
(* the guard turns away changes nothing and is not a step.                 *)
(***************************************************************************)

\* Mutant: without the check that the donation is still pending.
LoadSucceededUnguarded(s, d) ==
  /\ In(s, "idle")
  /\ payment[d] = "succeeded"
  /\ status[d] # "none"
  /\ Available(d)
  /\ Enter(s, "paid", d)
  /\ UNCHANGED <<now, status, created, link, payment, refund, batch, daily, books, unchecked>>

\* handle_payment_succeeded: the row is found, and is pending.
LoadSucceeded(s, d) ==
  /\ In(s, "idle")
  /\ payment[d] = "succeeded"
  /\ status[d] = "pending"
  /\ Available(d)
  /\ Enter(s, "paid", d)
  /\ UNCHANGED <<now, status, created, link, payment, refund, batch, daily, books, unchecked>>

\* ... success, process_successful_payment, and the patron's link is paid
\* whatever has become of it meanwhile.
PostSucceeded(s) ==
  LET d == session[s].d IN
  /\ In(s, "paid")
  /\ CanPost(d)
  /\ status' = [status EXCEPT ![d] = "success"]
  /\ books' = Process(books, {d})
  /\ unchecked' = unchecked \ {Target[d]}
  /\ link' = IF d \in PatronLink THEN [link EXCEPT ![d] = "paid"] ELSE link
  /\ Leave(s)
  /\ UNCHANGED <<now, created, payment, refund, batch, daily>>

\* handle_payment_canceled does not look at the status it finds.
LoadCanceled(s, d) ==
  /\ In(s, "idle")
  /\ payment[d] = "canceled"
  /\ status[d] # "none"
  /\ Available(d)
  /\ Enter(s, "canceled", d)
  /\ UNCHANGED <<now, status, created, link, payment, refund, batch, daily, books, unchecked>>

PostCanceled(s) ==
  LET d == session[s].d IN
  /\ In(s, "canceled")
  /\ ~LockedRow(d)
  /\ status' = [status EXCEPT ![d] = "failed"]
  /\ Leave(s)
  /\ UNCHANGED <<now, created, link, payment, refund, batch, daily, books, unchecked>>

\* handle_refund_succeeded: only a successful row.
LoadRefunded(s, d) ==
  /\ In(s, "idle")
  /\ refund[d] = "succeeded"
  /\ status[d] = "success"
  /\ Available(d)
  /\ Enter(s, "refunded", d)
  /\ UNCHANGED <<now, status, created, link, payment, refund, batch, daily, books, unchecked>>

\* The user's other successful contributions to the campaign of d, counted
\* after d has left `success'.
Remaining(d) == From(To(Successful \ {d}, Target[d]), Owner[d]) # {}

\* The common end of the webhook and of the admin's refund.
PostRefund(s) ==
  LET d == session[s].d IN
  /\ session[s].phase \in {"refunded", "refundDone"}
  /\ CanPost(d)
  /\ status' = [status EXCEPT ![d] = "refunded"]
  /\ books' = Reverse(books, d, Remaining(d))
  /\ Leave(s)
  /\ UNCHANGED <<now, created, link, payment, refund, batch, daily, unchecked>>

-----------------------------------------------------------------------------
(***************************************************************************)
(* POST /admin/donations/{id}/refund: refund_donation.                     *)
(***************************************************************************)
BeginRefund(s, d) ==
  /\ In(s, "idle")
  /\ status[d] = "success"
  /\ Available(d)
  /\ Enter(s, "refunding", d)
  /\ UNCHANGED <<now, status, created, link, payment, refund, batch, daily, books, unchecked>>

\* YooKassa answers create_refund at once or leaves the refund pending, and
\* then refund_donation returns with nothing written.  It refuses to refund a
\* second time: refund_donation raises, which is a Rollback.
CreateRefund(s) ==
  LET d == session[s].d IN
  /\ In(s, "refunding")
  /\ refund[d] = "none"
  /\ \/ /\ refund' = [refund EXCEPT ![d] = "succeeded"]
        /\ Enter(s, "refundDone", d)
     \/ /\ refund' = [refund EXCEPT ![d] = "pending"]
        /\ Leave(s)
  /\ UNCHANGED <<now, status, created, link, payment, batch, daily, books, unchecked>>

-----------------------------------------------------------------------------
(***************************************************************************)
(* reconcile_pending_donations: one session loads the candidates, asks     *)
(* YooKassa about each, and commits at the end.  The rows it has loaded    *)
(* stay `pending' in its identity map whatever others commit meanwhile.    *)
(***************************************************************************)
\* Mutant: the task leaves donations older than MaxAge alone.
CandidatesNotStale ==
  {d \in Donation : /\ status[d] = "pending"
                    /\ created[d] + MinAge < now /\ now <= created[d] + MaxAge}

Candidates == {d \in Donation : status[d] = "pending" /\ created[d] + MinAge < now}

\* ORDER BY created_at LIMIT BatchSize
OldestOf(S, n) ==
  {T \in SUBSET S :
     /\ Cardinality(T) <= n
     /\ Cardinality(T) < n => T = S
     /\ \A d \in T, e \in S \ T : created[d] <= created[e]}

BatchLoad ==
  /\ ~batch.on
  /\ \E T \in OldestOf(Candidates, BatchSize) :
       /\ T # {}
       /\ \A d \in T : Available(d)
       /\ batch' = [NoBatch EXCEPT !.on = TRUE, !.start = now, !.todo = T]
  /\ UNCHANGED <<now, status, created, link, payment, refund, session, daily, books, unchecked>>

\* The next candidate: get_payment answers ...
BatchNext(d) ==
  /\ batch.on /\ batch.d = NoDonation
  /\ d \in batch.todo
  /\ \A e \in batch.todo : created[d] <= created[e]

BatchAsk(d) ==
  /\ BatchNext(d)
  /\ batch' = [batch EXCEPT !.todo = @ \ {d}, !.d = d, !.answer = payment[d]]
  /\ UNCHANGED <<now, status, created, link, payment, refund, session, daily, books, unchecked>>

\* ... or raises, and the loop goes on with the next one.
BatchSkip(d) ==
  /\ BatchNext(d)
  /\ batch' = [batch EXCEPT !.todo = @ \ {d}]
  /\ UNCHANGED <<now, status, created, link, payment, refund, session, daily, books, unchecked>>

\* Mutant: whatever is not canceled is taken for paid.
VerdictOptimistic ==
  IF batch.answer = "canceled" THEN "failed" ELSE "success"

\* What _reconcile_one writes for the answer it got: success by way of
\* handle_payment_succeeded, failed for a canceled payment and for one that is
\* still pending after MaxAge, and nothing for a younger one.
Verdict ==
  CASE batch.answer = "succeeded" -> "success"
    [] batch.answer = "canceled"  -> "failed"
    [] OTHER -> IF created[batch.d] + MaxAge < batch.start THEN "failed" ELSE "none"

BatchWrite ==
  /\ batch.d # NoDonation
  /\ batch' = [batch EXCEPT !.d = NoDonation, !.answer = "none",
                            !.wrote = [@ EXCEPT ![batch.d] = Verdict]]
  /\ UNCHANGED <<now, status, created, link, payment, refund, session, daily, books, unchecked>>

\* Mutant: the batch does not touch the patron's links.
BatchCommitForgetsLinks ==
  /\ batch.on /\ batch.todo = {} /\ batch.d = NoDonation
  /\ status' = [d \in Donation |->
                  IF LockedRow(d) THEN batch.wrote[d] ELSE status[d]]
  /\ books' = Process(books, WroteSuccess)
  /\ unchecked' = unchecked \ {Target[d] : d \in WroteSuccess}
  /\ batch' = NoBatch
  /\ UNCHANGED <<now, created, link, payment, refund, session, daily>>

\* Mutant: the batch sets the status and does not run the success handler.
BatchCommitWithoutCounters ==
  /\ batch.on /\ batch.todo = {} /\ batch.d = NoDonation
  /\ status' = [d \in Donation |->
                  IF LockedRow(d) THEN batch.wrote[d] ELSE status[d]]
  /\ link' = [d \in Donation |->
                IF d \in WroteSuccess \cap PatronLink THEN "paid" ELSE link[d]]
  /\ batch' = NoBatch
  /\ UNCHANGED <<now, created, payment, refund, session, daily, books, unchecked>>

BatchCommit ==
  /\ batch.on /\ batch.todo = {} /\ batch.d = NoDonation
  /\ status' = [d \in Donation |->
                  IF LockedRow(d) THEN batch.wrote[d] ELSE status[d]]
  /\ books' = Process(books, WroteSuccess)
  /\ unchecked' = unchecked \ {Target[d] : d \in WroteSuccess}
  /\ link' = [d \in Donation |->
                IF d \in WroteSuccess \cap PatronLink THEN "paid" ELSE link[d]]
  /\ batch' = NoBatch
  /\ UNCHANGED <<now, created, payment, refund, session, daily>>

\* The worker dies, or PostgreSQL aborts the transaction (a deadlock with
\* requests that lock the same campaigns and users in another order).
BatchAbort ==
  /\ batch.on
  /\ batch' = NoBatch
  /\ UNCHANGED <<now, status, created, link, payment, refund, session, daily, books, unchecked>>

-----------------------------------------------------------------------------
(***************************************************************************)
(* The daily tasks.  Each is one UPDATE over the rows that differ from the *)
(* real sums.  The sums are taken from the snapshot of the statement; when *)
(* a row is locked the statement waits for it and still writes the sum of  *)
(* its snapshot.  With no difference a task writes nothing.                *)
(***************************************************************************)
RealCollected(S, c) == SumOf[To(S, c)]
RealDonated(S, u)   == SumOf[From(S, u)]
RealGifts(S, u)     == Cardinality(From(S, u))

\* Mutant: only a counter below the real sum is corrected.
DifferingBelow(job) ==
  CASE job = "collected" ->
         {c \in Campaign : books.collected[c] < RealCollected(Successful, c)}
    [] job = "donors" -> {}
    [] job = "impact" ->
         {u \in User : books.donated[u] < RealDonated(Successful, u)}

Differing(job) ==
  CASE job = "collected" ->
         {c \in Campaign : books.collected[c] # RealCollected(Successful, c)}
    [] job = "donors" ->
         {c \in Campaign : books.donorsCount[c] # Cardinality(DonorsOf(books.donors, c))}
    [] job = "impact" ->
         {u \in User : \/ books.donated[u] # RealDonated(Successful, u)
                       \/ books.gifts[u] # RealGifts(Successful, u)}

DailyScan(job) ==
  /\ daily.job = "none"
  /\ Differing(job) # {}
  /\ daily' = [job |-> job, rows |-> Differing(job), success |-> Successful]
  /\ UNCHANGED <<now, status, created, link, payment, refund, session, batch, books, unchecked>>

\* The books with the rows R corrected to the sums over the donations S.
Corrected(job, R, S) ==
  CASE job = "collected" ->
         [books EXCEPT !.collected =
            [c \in Campaign |-> IF c \in R THEN RealCollected(S, c) ELSE @[c]]]
    [] job = "donors" ->
         [books EXCEPT !.donorsCount =
            [c \in Campaign |-> IF c \in R THEN Cardinality(DonorsOf(books.donors, c)) ELSE @[c]]]
    [] job = "impact" ->
         [books EXCEPT
            !.donated = [u \in User |-> IF u \in R THEN RealDonated(S, u) ELSE @[u]],
            !.gifts   = [u \in User |-> IF u \in R THEN RealGifts(S, u) ELSE @[u]]]

\* The campaigns of C whose goal is collected.
AtGoal(b, C) == {c \in C : GoalReached(b.goal[c], b.collected[c])}

DailyWrite ==
  /\ daily.job # "none"
  /\ \A r \in daily.rows :
       IF daily.job = "impact" THEN ~LockedUser(r) ELSE ~LockedCampaign(r)
  /\ books' = Corrected(daily.job, daily.rows, daily.success)
  /\ unchecked' = unchecked \cup
       (IF daily.job = "collected" THEN AtGoal(books', daily.rows) ELSE {})
  /\ daily' = NoDaily
  /\ UNCHANGED <<now, status, created, link, payment, refund, session, batch>>

\* expire_patron_links: one UPDATE over the links past their time.  It waits
\* for a link the batch has paid, and then finds it no longer pending.
ExpiredLinks ==
  {d \in PatronLink \ WroteSuccess : link[d] = "pending" /\ created[d] + LinkTTL < now}

ExpireLinks ==
  /\ ExpiredLinks # {}
  /\ link' = [d \in Donation |-> IF d \in ExpiredLinks THEN "expired" ELSE link[d]]
  /\ UNCHANGED <<now, status, created, payment, refund, session, batch, daily, books, unchecked>>

\* An admin pauses or completes the campaign, or auto_close_expired_campaigns
\* completes it.
CloseCampaign(c) ==
  /\ c \in books.active
  /\ ~LockedCampaign(c)
  /\ books' = [books EXCEPT !.active = @ \ {c}]
  /\ UNCHANGED <<now, status, created, link, payment, refund, session, batch, daily, unchecked>>

\* publish_campaign, of a draft or a paused campaign, or of one that was paid
\* and completed since its status was read (which of the statuses other than
\* active a campaign has is the subject of Campaigns).  No look at the goal.
PublishCampaign(c) ==
  /\ c \notin books.active
  /\ ~LockedCampaign(c)
  /\ books' = [books EXCEPT !.active = @ \cup {c}]
  /\ unchecked' = unchecked \cup AtGoal(books', {c})
  /\ UNCHANGED <<now, status, created, link, payment, refund, session, batch, daily>>

\* update_campaign with another goal_amount or is_permanent: whatever has been
\* collected, and whatever the campaign's status.
EditGoal(c, goal) ==
  /\ goal # books.goal[c]
  /\ ~LockedCampaign(c)
  /\ books' = [books EXCEPT !.goal[c] = goal]
  /\ unchecked' = unchecked \cup AtGoal(books', {c})
  /\ UNCHANGED <<now, status, created, link, payment, refund, session, batch, daily>>

-----------------------------------------------------------------------------
Request(s) ==
  \/ \E d \in Donation : \/ BeginCreate(s, d)
                         \/ LoadSucceeded(s, d)
                         \/ LoadCanceled(s, d)
                         \/ LoadRefunded(s, d)
                         \/ BeginRefund(s, d)
  \/ CreatePayment(s)
  \/ CommitCreate(s)
  \/ PostSucceeded(s)
  \/ PostCanceled(s)
  \/ CreateRefund(s)
  \/ PostRefund(s)
  \/ Rollback(s)

YooKassa ==
  \E d \in Donation : Pay(d) \/ CancelPayment(d) \/ RefundOutside(d) \/ SettleRefund(d)

ReconcilePending ==
  \/ BatchLoad
  \/ \E d \in Donation : BatchAsk(d) \/ BatchSkip(d)
  \/ BatchWrite
  \/ BatchCommit
  \/ BatchAbort

Scheduled ==
  \/ \E job \in Job : DailyScan(job)
  \/ DailyWrite
  \/ ExpireLinks

Manage(c) ==
  \/ CloseCampaign(c)
  \/ PublishCampaign(c)
  \/ \E goal \in Goals : EditGoal(c, goal)

Next ==
  \/ Tick
  \/ \E s \in Session : Request(s)
  \/ YooKassa
  \/ ReconcilePending
  \/ Scheduled
  \/ \E c \in Campaign : Manage(c)

Spec == Init /\ [][Next]_vars

(***************************************************************************)
(* Fairness: the scheduler starts its tasks again and again, a run that    *)
(* has started goes on, time goes on, and a request ends one way or the    *)
(* other.  OutagesEnd: from some time on YooKassa answers get_payment and  *)
(* no run of the task is killed.  Nothing is assumed of notifications, of  *)
(* users or of the payments themselves.                                    *)
(***************************************************************************)
OutagesEnd == <>[][~BatchAbort /\ \A d \in Donation : ~BatchSkip(d)]_vars

Fairness ==
  /\ WF_vars(Tick)
  /\ WF_vars(ReconcilePending)
  /\ \A s \in Session : WF_vars(Rollback(s))
  /\ \A job \in Job : WF_vars(DailyScan(job))
  /\ WF_vars(DailyWrite)
  /\ OutagesEnd

FairSpec == Spec /\ Fairness

-----------------------------------------------------------------------------
(***************************************************************************)
(* Properties, however the sessions overlap.                               *)
(***************************************************************************)

\* A donation is successful only when YooKassa has the money, and refunded
\* only when YooKassa has given it back: no order of late, repeated and
\* polled answers, and no rollback in between, invents either.
MoneyIsReal ==
  \A d \in Donation :
    /\ status[d] \in {"success", "refunded"} => payment[d] = "succeeded"
    /\ status[d] = "refunded" => refund[d] = "succeeded"

\* donors_count is the number of campaign_donors rows at every commit: the
\* increment and the decrement follow what INSERT .. ON CONFLICT and DELETE
\* did, so double handling of a payment does not show here.
DonorsCountExact ==
  \A c \in Campaign : books.donorsCount[c] = Cardinality(DonorsOf(books.donors, c))

\* A refund never drops a donor who still has a successful donation to the
\* campaign, not even when a batch or another webhook is adding one.
SupportersAreDonors ==
  \A d \in Successful : <<Target[d], Owner[d]>> \in books.donors

\* The link of a successful patron donation is paid, though it may have
\* expired before the notification came; and a link is never paid for nothing.
LinkFollowsMoney ==
  \A d \in PatronLink :
    /\ status[d] = "success" => link[d] = "paid"
    /\ link[d] = "paid" => payment[d] = "succeeded"

\* Every paid donation is resolved in the end, when all notifications are
\* lost and the batch takes fewer rows than there are.
PaidIsResolved ==
  \A d \in Donation : (status[d] = "pending" /\ payment[d] = "succeeded") ~> (status[d] # "pending")

\* The counters as the sums over the successful donations.
CollectedExact ==
  \A c \in Campaign : books.collected[c] = RealCollected(Successful, c)

ImpactExact ==
  \A u \in User : /\ books.donated[u] = RealDonated(Successful, u)
                  /\ books.gifts[u] = RealGifts(Successful, u)

\* Whatever drift overlapping sessions have left, the daily tasks bring the sums
\* back to the donations, for good once the donations have settled.
DriftIsRepaired == <>[](CollectedExact /\ ImpactExact)

\* A payment closes the campaign whose goal it reaches, by webhook or by batch
\* and even when it is posted twice: an active campaign has collected its goal
\* only if, since the last posting to it, an admin has published it so (nothing
\* completes a campaign that is paid while paused) or given it a goal already
\* collected, or the daily task has raised its amount.
GoalClosesCampaign == AtGoal(books, books.active) \subseteq unchecked

-----------------------------------------------------------------------------
(***************************************************************************)
(* What the texts beside the code say, and overlapping sessions do not     *)
(* keep.                                                                   *)
(***************************************************************************)

\* A repeated payment.succeeded does not add to collected_amount twice: no
\* campaign has collected more than has been paid to it.
NotCountedTwice ==
  \A c \in Campaign :
    books.collected[c] <= RealCollected({d \in Donation : payment[d] = "succeeded"}, c)

-----------------------------------------------------------------------------
(***************************************************************************)
(* Properties when no two sessions work on the same donation at once.      *)
(***************************************************************************)
\* A campaign_donors row is there only for a user with a successful donation.
DonorsAreSupporters ==
  \A c \in Campaign, u \in User :
    <<c, u>> \in books.donors => From(To(Successful, c), u) # {}

\* The counters agree with the donations at every commit, through repeated and
\* reordered notifications, rollbacks, batches that hold several donations, and
\* requests on other donations of the same user or campaign in between.
BooksExact == CollectedExact /\ ImpactExact /\ DonorsAreSupporters

\* The donations implement the ledger: the documented life cycle, and amounts
\* that move with it.
Abstract == INSTANCE Ledger WITH collected <- books.collected

ImplementsLedger == Abstract!Spec

=============================================================================
