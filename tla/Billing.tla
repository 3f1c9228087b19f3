------------------------------- MODULE Billing -------------------------------
(***************************************************************************)
(* Subscriptions and their charges, with everything that works on the rows *)
(* of subscriptions and transactions at the same time:                     *)
(*                                                                         *)
(*   - the user's requests (services/subscription.py), and the admin's     *)
(*     reallocation that finds no campaign (services/allocation.py);       *)
(*   - YooKassa's notifications (services/webhook.py);                     *)
(*   - the two tasks of tasks/billing.py, each of which works through all  *)
(*     its rows, calls YooKassa for each, and commits once at the end.     *)
(*                                                                         *)
(* Handlers are steps as in Donations: load, then write and commit.  A     *)
(* session keeps the objects as it has loaded them, and its UPDATE has the *)
(* columns it changed with respect to those objects and no others, so two  *)
(* sessions can mix their columns in one row.                              *)
(*                                                                         *)
(* Time is left out: a timestamp is in the future or due, and becomes due  *)
(* at any moment.  The effect of process_successful_payment and of its     *)
(* reversal on the counters is in Books; here `posted' counts them.        *)
(***************************************************************************)
EXTENDS Integers, FiniteSets

CONSTANTS
  Subscription,  \* rows of subscriptions, each created by its user
  Txn,           \* identifiers of transactions
  SubOf,         \* SubOf[t]: the subscription that row t would belong to
  Payment,       \* payments YooKassa may be asked for
  Session,       \* database sessions of requests
  None,          \* no transaction, no payment, no subscription
  MaxAttempts,   \* len(SOFT_DECLINE_RETRY_DAYS)
  Overlap,       \* may two sessions work on one subscription at once?
  Outages        \* may processes die and answers of YooKassa get lost?

ASSUME BillingAssumption ==
  /\ SubOf \in [Txn -> Subscription]
  /\ Txn \subseteq Nat /\ Payment \subseteq Nat
  /\ None \notin Txn \cup Payment \cup Subscription
  /\ MaxAttempts \in Nat \ {0}
  /\ Overlap \in BOOLEAN /\ Outages \in BOOLEAN

VARIABLES
  sub,       \* subscriptions: status, next_billing_at, payment_method_id
  row,       \* transactions: status, attempt_number, provider_payment_id, next_retry_at
  payment,   \* external: status of each payment at YooKassa
  about,     \* external: metadata.entity_id of each payment
  acked,     \* external: payments whose outcome was notified and answered 200
  posted,    \* successes of each transaction that were posted, minus refunds
  session,   \* the requests in progress
  billing,   \* the transaction of process_recurring_billing
  retry      \* the transaction of retry_failed_transactions

vars == <<sub, row, payment, about, acked, posted, session, billing, retry>>

SubStatus == {"pending_payment_method", "active", "paused", "cancelled"}
TxnStatus == {"none", "pending", "success", "failed", "refunded", "skipped"}
Moment    == {"null", "future", "due"}

SubRow == [status : SubStatus, next : Moment, card : BOOLEAN]
TxnRow == [status : TxnStatus, attempt : Nat, pid : Payment \cup {None}, retryAt : Moment]

\* create_subscription, and a row that is not there.
NewSub == [status |-> "pending_payment_method", next |-> "null", card |-> FALSE]
NoRow  == [status |-> "none", attempt |-> 0, pid |-> None, retryAt |-> "null"]

\* A first attempt, with the payment YooKassa has answered with, if it has.
NewRow(p) == [status |-> "pending", attempt |-> 1, pid |-> p, retryAt |-> "null"]
Skipped   == [status |-> "skipped", attempt |-> 1, pid |-> None, retryAt |-> "null"]

PaymentStatus == {"none", "pending", "succeeded", "canceled", "refunded"}
Taken == {"succeeded", "refunded"}

(***************************************************************************)
(* The phases of a request:                                                *)
(*   binding     bind_card has inserted its transaction, with a payment    *)
(*   pausing     pause_subscription, or a reallocation without a campaign  *)
(*   resuming, cancelling                                                  *)
(*   succeeded   payment.succeeded: the transaction was found pending      *)
(*   posting     ... its row is updated, hence locked, and the             *)
(*               subscription is read                                      *)
(*   canceled    payment.canceled: the transaction was found               *)
(*   refunded    refund.succeeded: the transaction was found successful    *)
(* with the subscription and the transaction it is about, and both as      *)
(* loaded.  (binding: the row to be inserted.)                             *)
(***************************************************************************)
Phase == {"binding", "pausing", "resuming", "cancelling",
          "succeeded", "posting", "canceled", "refunded"}

Idle == [phase |-> "idle", s |-> None, t |-> None, sub |-> NewSub, row |-> NoRow]

SessionState ==
  [phase : Phase, s : Subscription, t : Txn \cup {None}, sub : SubRow, row : TxnRow]
    \cup {Idle}

NoBilling == [on      |-> FALSE,
              todo    |-> {},                       \* subscriptions left
              rows    |-> [t \in Txn |-> NoRow],    \* inserted, not committed
              skipped |-> {}]                       \* next_billing_at moved on

NoRetry == [on   |-> FALSE,
            todo |-> {},                            \* transactions left
            rows |-> [t \in Txn |-> NoRow],         \* updated, not committed
            seen |-> [s \in Subscription |-> {}]]   \* {sub[s]} once it was read

BillingState == [on : BOOLEAN, todo : SUBSET Subscription, rows : [Txn -> TxnRow],
                 skipped : SUBSET Subscription]

RetryState == [on : BOOLEAN, todo : SUBSET Txn, rows : [Txn -> TxnRow],
               seen : [Subscription -> SUBSET SubRow]]

TypeOK ==
  /\ sub \in [Subscription -> SubRow]
  /\ row \in [Txn -> TxnRow]
  /\ payment \in [Payment -> PaymentStatus]
  /\ about \in [Payment -> Txn \cup {None}]
  /\ acked \subseteq Payment \cup {None}
  /\ posted \in [Txn -> Int]
  /\ session \in [Session -> SessionState]
  /\ billing \in BillingState
  /\ retry \in RetryState

Init ==
  /\ sub     = [s \in Subscription |-> NewSub]
  /\ row     = [t \in Txn |-> NoRow]
  /\ payment = [p \in Payment |-> "none"]
  /\ about   = [p \in Payment |-> None]
  /\ acked   = {}
  /\ posted  = [t \in Txn |-> 0]
  /\ session = [k \in Session |-> Idle]
  /\ billing = NoBilling
  /\ retry   = NoRetry

-----------------------------------------------------------------------------
\* What a column becomes in an UPDATE: unchanged unless the session's object
\* was loaded with another value.
Col(current, loaded, new) == IF loaded = new THEN current ELSE new

In(k, phase) == session[k].phase = phase

\* Mutant: the objects of a request stay in its session.
LeaveKeepsObjects(k) == session' = [session EXCEPT ![k].phase = "idle"]

Leave(k) == session' = [session EXCEPT ![k] = Idle]

Enter(k, phase, s, t, r) ==
  session' = [session EXCEPT ![k] = [phase |-> phase, s |-> s, t |-> t, sub |-> sub[s], row |-> r]]

\* Row locks held until a commit.
LockedSub(s) == s \in billing.skipped
LockedTxn(t) == retry.rows[t] # NoRow \/ \E k \in Session : In(k, "posting") /\ session[k].t = t

RetryWorksOn(s) == \E t \in Txn : SubOf[t] = s /\ (t \in retry.todo \/ retry.rows[t] # NoRow)

Available(s) ==
  Overlap \/ (~RetryWorksOn(s) /\ \A k \in Session : session[k].s # s)

Lowest(S) == {x \in S : \A y \in S : x <= y}

\* A new row of subscription s, and the next payment.
FreshTxn(s) ==
  Lowest({t \in Txn : /\ SubOf[t] = s
                      /\ row[t] = NoRow /\ billing.rows[t] = NoRow
                      /\ \A k \in Session : session[k].t # t
                      /\ \A p \in Payment : about[p] # t})

FreshPayment == Lowest({p \in Payment : payment[p] = "none"})

\* YooKassa creates payment p for transaction t.
Ask(p, t) ==
  /\ payment' = [payment EXCEPT ![p] = "pending"]
  /\ about' = [about EXCEPT ![p] = t]

-----------------------------------------------------------------------------
(***************************************************************************)
(* The user's requests.                                                    *)
(***************************************************************************)

\* POST /subscriptions/{id}/bind-card, up to YooKassa's answer.  (When
\* create_payment raises, this is followed by Rollback.)
BindCard(k, s) ==
  /\ In(k, "idle") /\ Available(s)
  /\ sub[s].status = "pending_payment_method"
  /\ \E t \in FreshTxn(s), p \in FreshPayment :
       /\ Ask(p, t)
       /\ Enter(k, "binding", s, t, NewRow(p))
  /\ UNCHANGED <<sub, row, acked, posted, billing, retry>>

CommitBind(k) ==
  /\ In(k, "binding")
  /\ row' = [row EXCEPT ![session[k].t] = session[k].row]
  /\ Leave(k)
  /\ UNCHANGED <<sub, payment, about, acked, posted, billing, retry>>

\* pause_subscription; reallocate_subscription without a campaign, which takes
\* paused subscriptions too.
LoadPause(k, s) ==
  /\ In(k, "idle") /\ Available(s)
  /\ sub[s].status \in {"active", "paused"}
  /\ Enter(k, "pausing", s, None, NoRow)
  /\ UNCHANGED <<sub, row, payment, about, acked, posted, billing, retry>>

\* Mutant: only the final status is refused.
LoadResumeUnlessCancelled(k, s) ==
  /\ In(k, "idle") /\ Available(s)
  /\ sub[s].status # "cancelled"
  /\ Enter(k, "resuming", s, None, NoRow)
  /\ UNCHANGED <<sub, row, payment, about, acked, posted, billing, retry>>

LoadResume(k, s) ==
  /\ In(k, "idle") /\ Available(s)
  /\ sub[s].status = "paused"
  /\ Enter(k, "resuming", s, None, NoRow)
  /\ UNCHANGED <<sub, row, payment, about, acked, posted, billing, retry>>

\* cancel_subscription does not look at the status.
LoadCancel(k, s) ==
  /\ In(k, "idle") /\ Available(s)
  /\ Enter(k, "cancelling", s, None, NoRow)
  /\ UNCHANGED <<sub, row, payment, about, acked, posted, billing, retry>>

\* What the three write.  A timestamp is always another than the one loaded.
StatusAfter == [pausing |-> "paused", resuming |-> "active", cancelling |-> "cancelled"]

CommitChange(k) ==
  LET s == session[k].s
      loaded == session[k].sub
  IN  /\ session[k].phase \in DOMAIN StatusAfter
      /\ ~LockedSub(s)
      /\ sub' = [sub EXCEPT
           ![s].status = Col(@, loaded.status, StatusAfter[session[k].phase]),
           ![s].next = IF In(k, "resuming") THEN "future" ELSE Col(@, loaded.next, "null")]
      /\ Leave(k)
      /\ UNCHANGED <<row, payment, about, acked, posted, billing, retry>>

\* A handler raises or its worker dies; YooKassa keeps what it was asked for.
Rollback(k) ==
  /\ Outages
  /\ ~In(k, "idle")
  /\ Leave(k)
  /\ UNCHANGED <<sub, row, payment, about, acked, posted, billing, retry>>

-----------------------------------------------------------------------------
(***************************************************************************)
(* External: YooKassa decides on a payment, a successful one may be        *)
(* refunded in the merchant's account, and timestamps become due.          *)
(***************************************************************************)
Decide(p) ==
  /\ payment[p] = "pending"
  /\ \E outcome \in {"succeeded", "canceled"} : payment' = [payment EXCEPT ![p] = outcome]
  /\ UNCHANGED <<sub, row, about, acked, posted, session, billing, retry>>

RefundPayment(p) ==
  /\ payment[p] = "succeeded"
  /\ payment' = [payment EXCEPT ![p] = "refunded"]
  /\ UNCHANGED <<sub, row, about, acked, posted, session, billing, retry>>

PeriodEnds(s) ==
  /\ sub[s].next = "future"
  /\ sub' = [sub EXCEPT ![s].next = "due"]
  /\ UNCHANGED <<row, payment, about, acked, posted, session, billing, retry>>

DelayEnds(t) ==
  /\ row[t].retryAt = "future"
  /\ row' = [row EXCEPT ![t].retryAt = "due"]
  /\ UNCHANGED <<sub, payment, about, acked, posted, session, billing, retry>>

-----------------------------------------------------------------------------
(***************************************************************************)
(* Notifications.  A handler looks the transaction up by its               *)
(* provider_payment_id.  What it does not find, or finds settled, it       *)
(* answers with 200 all the same.                                          *)
(***************************************************************************)

\* Mutant: a second notification is handled like the first.
LoadSucceededRepeats(k, t) ==
  /\ In(k, "idle") /\ Available(SubOf[t])
  /\ row[t].pid # None /\ payment[row[t].pid] \in Taken
  /\ Enter(k, "succeeded", SubOf[t], t, row[t])
  /\ UNCHANGED <<sub, row, payment, about, acked, posted, billing, retry>>

LoadSucceeded(k, t) ==
  /\ In(k, "idle") /\ Available(SubOf[t])
  /\ row[t].pid # None /\ payment[row[t].pid] \in Taken
  /\ row[t].status = "pending"
  /\ Enter(k, "succeeded", SubOf[t], t, row[t])
  /\ UNCHANGED <<sub, row, payment, about, acked, posted, billing, retry>>

\* The SELECT of the subscription flushes the new status first.
ReadSubscription(k) ==
  /\ In(k, "succeeded")
  /\ ~LockedTxn(session[k].t)
  /\ Enter(k, "posting", session[k].s, session[k].t, session[k].row)
  /\ UNCHANGED <<sub, row, payment, about, acked, posted, billing, retry>>

\* The counters, the next period, and for a first payment the activation, with
\* the card if YooKassa has saved one.
PostSucceeded(k) ==
  LET s == session[k].s
      t == session[k].t
      first == session[k].sub.status = "pending_payment_method"
  IN  /\ In(k, "posting")
      /\ ~LockedSub(s)
      /\ row' = [row EXCEPT ![t].status = "success"]
      /\ posted' = [posted EXCEPT ![t] = @ + 1]
      /\ \E saved \in BOOLEAN :
           sub' = [sub EXCEPT ![s] =
                     [status |-> IF first THEN "active" ELSE @.status,
                      next   |-> "future",
                      card   |-> @.card \/ (first /\ saved)]]
      /\ acked' = acked \cup {session[k].row.pid}
      /\ Leave(k)
      /\ UNCHANGED <<payment, about, billing, retry>>

\* handle_payment_canceled does not look at the status it finds.
LoadCanceled(k, t) ==
  /\ In(k, "idle") /\ Available(SubOf[t])
  /\ row[t].pid # None /\ payment[row[t].pid] = "canceled"
  /\ Enter(k, "canceled", SubOf[t], t, row[t])
  /\ UNCHANGED <<sub, row, payment, about, acked, posted, billing, retry>>

PostCanceled(k) ==
  LET t == session[k].t
      loaded == session[k].row
  IN  /\ In(k, "canceled")
      /\ ~LockedTxn(t)
      /\ row' = [row EXCEPT
           ![t].status = Col(@, loaded.status, "failed"),
           ![t].retryAt = IF loaded.attempt < MaxAttempts THEN "future" ELSE @]
      /\ acked' = acked \cup {loaded.pid}
      /\ Leave(k)
      /\ UNCHANGED <<sub, payment, about, posted, billing, retry>>

LoadRefunded(k, t) ==
  /\ In(k, "idle") /\ Available(SubOf[t])
  /\ row[t].pid # None /\ payment[row[t].pid] = "refunded"
  /\ row[t].status = "success"
  /\ Enter(k, "refunded", SubOf[t], t, row[t])
  /\ UNCHANGED <<sub, row, payment, about, acked, posted, billing, retry>>

PostRefunded(k) ==
  LET t == session[k].t
  IN  /\ In(k, "refunded")
      /\ ~LockedTxn(t)
      /\ row' = [row EXCEPT ![t].status = "refunded"]
      /\ posted' = [posted EXCEPT ![t] = @ - 1]
      /\ Leave(k)
      /\ UNCHANGED <<sub, payment, about, acked, billing, retry>>

\* The outcome of p is notified, nothing is found for it, and YooKassa does
\* not send it again.
Ignored(p) ==
  /\ p \notin acked
  /\ \/ payment[p] \in Taken /\ \A t \in Txn : ~(row[t].pid = p /\ row[t].status = "pending")
     \/ payment[p] = "canceled" /\ \A t \in Txn : row[t].pid # p
  /\ acked' = acked \cup {p}
  /\ UNCHANGED <<sub, row, payment, about, posted, session, billing, retry>>

-----------------------------------------------------------------------------
(***************************************************************************)
(* process_recurring_billing.                                              *)
(***************************************************************************)
Due == {s \in Subscription : sub[s].status = "active" /\ sub[s].next = "due" /\ sub[s].card}

BillingLoad ==
  /\ ~billing.on
  /\ Due # {}
  /\ billing' = [NoBilling EXCEPT !.on = TRUE, !.todo = Due]
  /\ UNCHANGED <<sub, row, payment, about, acked, posted, session, retry>>

Insert(s, t, r) == billing' = [billing EXCEPT !.todo = @ \ {s}, !.rows[t] = r]

\* _charge_subscription.  With no active campaign nothing is charged and the
\* next period begins.  Otherwise YooKassa is asked; when the call raises, the
\* row stays without a payment and the loop goes on, whether YooKassa has
\* created the payment or not.
Charge(s) ==
  /\ billing.on /\ s \in billing.todo
  /\ \E t \in FreshTxn(s) :
       \/ /\ billing' = [billing EXCEPT !.todo = @ \ {s}, !.rows[t] = Skipped,
                                        !.skipped = @ \cup {s}]
          /\ UNCHANGED <<payment, about>>
       \/ \E p \in FreshPayment :
            /\ Ask(p, t)
            /\ Insert(s, t, NewRow(p)) \/ (Outages /\ Insert(s, t, NewRow(None)))
       \/ /\ Insert(s, t, NewRow(None))
          /\ UNCHANGED <<payment, about>>
  /\ UNCHANGED <<sub, row, acked, posted, session, retry>>

BillingCommit ==
  /\ billing.on /\ billing.todo = {}
  /\ row' = [t \in Txn |-> IF billing.rows[t] = NoRow THEN row[t] ELSE billing.rows[t]]
  /\ sub' = [s \in Subscription |->
               IF s \in billing.skipped THEN [sub[s] EXCEPT !.next = "future"] ELSE sub[s]]
  /\ billing' = NoBilling
  /\ UNCHANGED <<payment, about, acked, posted, session, retry>>

\* The worker dies, or the transaction is aborted.
BillingAbort ==
  /\ Outages
  /\ billing.on
  /\ billing' = NoBilling
  /\ UNCHANGED <<sub, row, payment, about, acked, posted, session, retry>>

-----------------------------------------------------------------------------
(***************************************************************************)
(* retry_failed_transactions.                                              *)
(***************************************************************************)
\* Mutant: transactions of stopped subscriptions are not looked at.
RetriableOfActive ==
  {t \in Txn : row[t].status = "failed" /\ row[t].retryAt = "due" /\ sub[SubOf[t]].status = "active"}

Retriable == {t \in Txn : row[t].status = "failed" /\ row[t].retryAt = "due"}

RetryLoad ==
  /\ ~retry.on
  /\ Retriable # {}
  /\ Overlap \/ \A t \in Retriable, k \in Session : session[k].s # SubOf[t]
  /\ retry' = [NoRetry EXCEPT !.on = TRUE, !.todo = Retriable]
  /\ UNCHANGED <<sub, row, payment, about, acked, posted, session, billing>>

Update(t, seen, r) ==
  retry' = [retry EXCEPT !.todo = @ \ {t}, !.rows[t] = r, !.seen[SubOf[t]] = {seen}]

\* Mutant: what YooKassa is asked for counts as paid.
AgainTakenForGranted(t, p) ==
  [status |-> "success", attempt |-> row[t].attempt + 1, pid |-> p, retryAt |-> "null"]

\* Mutant: the attempt is not counted.
AgainUncounted(t, p) ==
  [status |-> "pending", attempt |-> row[t].attempt, pid |-> p, retryAt |-> "null"]

Again(t, p) ==
  [status |-> "pending", attempt |-> row[t].attempt + 1, pid |-> p, retryAt |-> "null"]

\* _retry_transaction.  The subscription is read once in a run.  It must be
\* active and have a card; then the transaction is pending again, with the new
\* payment, or with the old one when the call to YooKassa has raised.
RetryOne(t) ==
  /\ retry.on /\ t \in retry.todo
  /\ ~LockedTxn(t)
  /\ \E seen \in IF retry.seen[SubOf[t]] = {} THEN {sub[SubOf[t]]} ELSE retry.seen[SubOf[t]] :
       IF seen.status # "active" \/ ~seen.card
       THEN /\ Update(t, seen, [row[t] EXCEPT !.retryAt = "null"])
            /\ UNCHANGED <<payment, about>>
       ELSE \/ \E p \in FreshPayment :
                 /\ Ask(p, t)
                 /\ \/ Update(t, seen, Again(t, p))
                    \/ Outages /\ Update(t, seen, Again(t, row[t].pid))
            \/ /\ Update(t, seen, Again(t, row[t].pid))
               /\ UNCHANGED <<payment, about>>
  /\ UNCHANGED <<sub, row, acked, posted, session, billing>>

RetryCommit ==
  /\ retry.on /\ retry.todo = {}
  /\ row' = [t \in Txn |-> IF retry.rows[t] = NoRow THEN row[t] ELSE retry.rows[t]]
  /\ retry' = NoRetry
  /\ UNCHANGED <<sub, payment, about, acked, posted, session, billing>>

RetryAbort ==
  /\ Outages
  /\ retry.on
  /\ retry' = NoRetry
  /\ UNCHANGED <<sub, row, payment, about, acked, posted, session, billing>>

-----------------------------------------------------------------------------
Load(k) ==
  \/ \E s \in Subscription : \/ BindCard(k, s)
                             \/ LoadPause(k, s)
                             \/ LoadResume(k, s)
                             \/ LoadCancel(k, s)
  \/ \E t \in Txn : LoadSucceeded(k, t) \/ LoadCanceled(k, t) \/ LoadRefunded(k, t)

Finish(k) ==
  \/ CommitBind(k)
  \/ CommitChange(k)
  \/ ReadSubscription(k)
  \/ PostSucceeded(k)
  \/ PostCanceled(k)
  \/ PostRefunded(k)

YooKassa == \E p \in Payment : Decide(p) \/ RefundPayment(p) \/ Ignored(p)

Time == (\E s \in Subscription : PeriodEnds(s)) \/ (\E t \in Txn : DelayEnds(t))

BillingRun ==
  BillingLoad \/ (\E s \in Subscription : Charge(s)) \/ BillingCommit

RetryRun ==
  RetryLoad \/ (\E t \in Txn : RetryOne(t)) \/ RetryCommit

Next ==
  \/ \E k \in Session : Load(k) \/ Finish(k) \/ Rollback(k)
  \/ YooKassa
  \/ Time
  \/ BillingRun \/ BillingAbort
  \/ RetryRun \/ RetryAbort

Spec == Init /\ [][Next]_vars

(***************************************************************************)
(* Fairness: the scheduler starts its tasks again and again and a run that *)
(* has started goes on, from some time on without being killed; a request  *)
(* goes on or fails; timestamps become due; YooKassa decides, and repeats  *)
(* a notification until it is answered.  Nothing is assumed of users.      *)
(***************************************************************************)
OutagesEnd ==
  <>[][~BillingAbort /\ ~RetryAbort /\ \A k \in Session : ~Rollback(k)]_vars

Fairness ==
  /\ WF_vars(BillingRun)
  /\ WF_vars(RetryRun)
  /\ \A k \in Session : WF_vars(Finish(k))
  /\ WF_vars(Time)
  /\ \A p \in Payment : WF_vars(Decide(p)) /\ WF_vars(Ignored(p))
  /\ \A t \in Txn :
       SF_vars(/\ row[t].pid \notin acked
               /\ \E k \in Session : LoadSucceeded(k, t) \/ LoadCanceled(k, t))
  /\ OutagesEnd

FairSpec == Spec /\ Fairness

-----------------------------------------------------------------------------
(***************************************************************************)
(* Properties, however sessions and runs overlap.                          *)
(***************************************************************************)

\* A transaction is successful only when YooKassa has taken a payment for it,
\* and refunded only when it has given one back, though retries replace the
\* payment of a row while notifications of the earlier one are on their way.
SuccessWasPaid ==
  \A t \in Txn :
    /\ row[t].status \in {"success", "refunded"} =>
         \E p \in Payment : about[p] = t /\ payment[p] \in Taken
    /\ row[t].status = "refunded" =>
         \E p \in Payment : about[p] = t /\ payment[p] = "refunded"

\* A subscription becomes active, and from then on may be charged without its
\* user, only by a payment that went through: no order of pause, resume,
\* cancellation and stale objects gets it there otherwise.
ActiveWasPaid ==
  \A s \in Subscription : sub[s].status \in {"active", "paused"} =>
    \E p \in Payment : /\ about[p] # None /\ SubOf[about[p]] = s
                       /\ payment[p] \in Taken

\* A retry that has become due is made, or dropped, although the row may be
\* written by notifications in between.
RetryIsTaken ==
  \A t \in Txn : (row[t].status = "failed" /\ row[t].retryAt = "due")
                   ~> ~(row[t].status = "failed" /\ row[t].retryAt = "due")

-----------------------------------------------------------------------------
(***************************************************************************)
(* Properties when requests and retries on one subscription do not         *)
(* overlap.                                                                *)
(***************************************************************************)

\* The counters have a successful transaction exactly once, and no other.
PostedOnce == \A t \in Txn : posted[t] = IF row[t].status = "success" THEN 1 ELSE 0

\* The documented life cycle of transactions with its bounded attempts.
Abstract == INSTANCE Dunning WITH status <- [t \in Txn |-> row[t].status],
                                  attempt <- [t \in Txn |-> row[t].attempt]

ImplementsDunning == Abstract!Spec

-----------------------------------------------------------------------------
(***************************************************************************)
(* What the texts beside the code say, and the code does not keep.         *)
(***************************************************************************)

\* process_recurring_billing may be run again: a subscription it has charged is
\* not due any more when the run commits.
RunIsIdempotent ==
  [][\A t \in Txn :
       (billing.rows[t].status = "pending" /\ row'[t] = billing.rows[t]) => SubOf[t] \notin Due']_vars

=============================================================================
