---------------------------- MODULE BillingProof -----------------------------
(***************************************************************************)
(* Safety of Billing for every set of subscriptions, transactions,         *)
(* payments and sessions, every bound on the attempts, and whether or not  *)
(* sessions overlap and processes die.                                     *)
(***************************************************************************)
EXTENDS Billing, TLAPS

-----------------------------------------------------------------------------
(***************************************************************************)
(* Types.                                                                  *)
(***************************************************************************)
LEMMA NewSubType == NewSub \in SubRow
  BY DEF NewSub, SubRow, SubStatus, Moment

LEMMA NoRowType == NoRow \in TxnRow
  BY DEF NoRow, TxnRow, TxnStatus, Moment

LEMMA NewRowType ==
  ASSUME NEW p \in Payment \cup {None}
  PROVE  NewRow(p) \in TxnRow
  BY DEF NewRow, TxnRow, TxnStatus, Moment

LEMMA SkippedType == Skipped \in TxnRow
  BY DEF Skipped, TxnRow, TxnStatus, Moment

LEMMA NoBillingType == NoBilling \in BillingState
  BY NoRowType DEF NoBilling, BillingState

LEMMA NoRetryType == NoRetry \in RetryState
  BY NoRowType DEF NoRetry, RetryState

LEMMA InitType == Init => TypeOK
<1> SUFFICES ASSUME Init PROVE TypeOK
  OBVIOUS
<1>1. sub \in [Subscription -> SubRow] /\ row \in [Txn -> TxnRow]
  BY NewSubType, NoRowType DEF Init
<1>2. billing \in BillingState /\ retry \in RetryState
  BY NoBillingType, NoRetryType DEF Init
<1>3. session \in [Session -> SessionState]
  BY DEF Init, SessionState
<1>4. /\ payment \in [Payment -> PaymentStatus] /\ about \in [Payment -> Txn \cup {None}]
      /\ posted \in [Txn -> Int] /\ acked \subseteq Payment \cup {None}
  BY DEF Init, PaymentStatus
<1>5. QED
  BY <1>1, <1>2, <1>3, <1>4 DEF TypeOK

\* What a session that is at work holds.
LEMMA SessionType ==
  ASSUME TypeOK, NEW k \in Session, ~In(k, "idle")
  PROVE  /\ session[k].phase \in Phase /\ session[k].s \in Subscription
         /\ session[k].t \in Txn \cup {None}
         /\ session[k].sub \in SubRow /\ session[k].row \in TxnRow
  BY DEF TypeOK, SessionState, In, Idle

LEMMA EnterType ==
  ASSUME TypeOK, NEW k \in Session, NEW phase \in Phase, NEW s \in Subscription,
         NEW t \in Txn \cup {None}, NEW r \in TxnRow, Enter(k, phase, s, t, r)
  PROVE  session' \in [Session -> SessionState]
  BY DEF TypeOK, SessionState, Enter

LEMMA LeaveType ==
  ASSUME TypeOK, NEW k \in Session, Leave(k)
  PROVE  session' \in [Session -> SessionState]
  BY DEF TypeOK, SessionState, Leave

\* YooKassa's new payment.
LEMMA AskType ==
  ASSUME TypeOK, NEW p \in Payment, NEW t \in Txn, Ask(p, t)
  PROVE  payment' \in [Payment -> PaymentStatus] /\ about' \in [Payment -> Txn \cup {None}]
  BY DEF TypeOK, Ask, PaymentStatus

\* Writing into a row, if it is one.
LEMMA WriteType ==
  ASSUME TypeOK, NEW t, NEW s \in TxnStatus, NEW m \in Moment
  PROVE  /\ [row EXCEPT ![t].status = s] \in [Txn -> TxnRow]
         /\ [row EXCEPT ![t].status = s, ![t].retryAt = m] \in [Txn -> TxnRow]
<1>1. row \in [Txn -> TxnRow]
  BY DEF TypeOK
<1>2. CASE t \in Txn
  <2>1. row[t] \in TxnRow
    BY <1>1, <1>2
  <2>2. /\ [row[t] EXCEPT !.status = s] \in TxnRow
        /\ [row[t] EXCEPT !.status = s, !.retryAt = m] \in TxnRow
    BY <2>1 DEF TxnRow
  <2>3. QED
    BY <1>1, <1>2, <2>2
<1>3. CASE t \notin Txn
  BY <1>1, <1>3
<1>4. QED
  BY <1>2, <1>3

LEMMA PostType ==
  ASSUME TypeOK, NEW t
  PROVE  /\ [posted EXCEPT ![t] = @ + 1] \in [Txn -> Int]
         /\ [posted EXCEPT ![t] = @ - 1] \in [Txn -> Int]
<1>1. posted \in [Txn -> Int]
  BY DEF TypeOK
<1>2. CASE t \in Txn
  <2>1. posted[t] + 1 \in Int /\ posted[t] - 1 \in Int
    BY <1>1, <1>2
  <2>2. QED
    BY <1>1, <2>1
<1>3. CASE t \notin Txn
  BY <1>1, <1>3
<1>4. QED
  BY <1>2, <1>3

LEMMA LoadType ==
  ASSUME TypeOK, NEW k \in Session, Load(k)
  PROVE  TypeOK'
<1>1. ASSUME NEW s \in Subscription, BindCard(k, s) PROVE TypeOK'
  <2>1. PICK t \in Txn, p \in Payment : Ask(p, t) /\ Enter(k, "binding", s, t, NewRow(p))
    BY <1>1 DEF BindCard, FreshTxn, FreshPayment, Lowest
  <2>2. session' \in [Session -> SessionState]
    BY <2>1, EnterType, NewRowType DEF Phase
  <2>3. QED
    BY <1>1, <2>1, <2>2, AskType DEF BindCard, TypeOK
<1>2. ASSUME NEW s \in Subscription, LoadPause(k, s) \/ LoadResume(k, s) \/ LoadCancel(k, s)
      PROVE  TypeOK'
  <2>1. session' \in [Session -> SessionState]
    BY <1>2, EnterType, NoRowType DEF LoadPause, LoadResume, LoadCancel, Phase
  <2>2. QED
    BY <1>2, <2>1 DEF LoadPause, LoadResume, LoadCancel, TypeOK
<1>3. ASSUME NEW t \in Txn, LoadSucceeded(k, t) \/ LoadCanceled(k, t) \/ LoadRefunded(k, t)
      PROVE  TypeOK'
  <2>1. SubOf[t] \in Subscription /\ row[t] \in TxnRow
    BY BillingAssumption DEF TypeOK
  <2>2. session' \in [Session -> SessionState]
    BY <1>3, <2>1, EnterType DEF LoadSucceeded, LoadCanceled, LoadRefunded, Phase
  <2>3. QED
    BY <1>3, <2>2 DEF LoadSucceeded, LoadCanceled, LoadRefunded, TypeOK
<1>4. QED
  BY <1>1, <1>2, <1>3 DEF Load

LEMMA FinishType ==
  ASSUME TypeOK, NEW k \in Session, Finish(k) \/ Rollback(k)
  PROVE  TypeOK'
<1>1. CASE CommitBind(k)
  <2>1. session[k].row \in TxnRow
    BY <1>1, SessionType DEF CommitBind, In
  <2>2. row' \in [Txn -> TxnRow]
    BY <1>1, <2>1 DEF CommitBind, TypeOK
  <2>3. QED
    BY <1>1, <2>2, LeaveType DEF CommitBind, TypeOK
<1>2. CASE CommitChange(k)
  <2> DEFINE s == session[k].s
             status == Col(sub[s].status, session[k].sub.status, StatusAfter[session[k].phase])
             next == IF In(k, "resuming") THEN "future"
                     ELSE Col(sub[s].next, session[k].sub.next, "null")
  <2>1. session[k].phase \in {"pausing", "resuming", "cancelling"}
    BY <1>2 DEF CommitChange, StatusAfter
  <2>2. s \in Subscription
    BY <2>1, SessionType DEF In
  <2>3. sub[s] \in SubRow
    BY <2>2 DEF TypeOK
  <2>4. status \in SubStatus
    BY <2>1, <2>3 DEF StatusAfter, Col, SubStatus, SubRow
  <2>5. next \in Moment
    BY <2>3 DEF Col, Moment, SubRow
  <2>6. sub' = [sub EXCEPT ![s] = [sub[s] EXCEPT !.status = status, !.next = next]]
    BY <1>2 DEF CommitChange
  <2> HIDE DEF s, status, next
  <2>7. [sub[s] EXCEPT !.status = status, !.next = next] \in SubRow
    BY <2>3, <2>4, <2>5 DEF SubRow
  <2>8. sub' \in [Subscription -> SubRow]
    BY <2>6, <2>7 DEF TypeOK
  <2>9. QED
    BY <1>2, <2>8, LeaveType DEF CommitChange, TypeOK
<1>3. CASE ReadSubscription(k)
  <2>1. session' \in [Session -> SessionState]
    BY <1>3, SessionType, EnterType DEF ReadSubscription, In, Phase
  <2>2. QED
    BY <1>3, <2>1 DEF ReadSubscription, TypeOK
<1>4. CASE PostSucceeded(k)
  <2> DEFINE s == session[k].s
             t == session[k].t
             first == session[k].sub.status = "pending_payment_method"
  <2>1. s \in Subscription /\ session[k].row \in TxnRow
    BY <1>4, SessionType DEF PostSucceeded, In
  <2>2. PICK saved \in BOOLEAN :
          sub' = [sub EXCEPT ![s] =
                    [status |-> IF first THEN "active" ELSE sub[s].status,
                     next |-> "future",
                     card |-> sub[s].card \/ (first /\ saved)]]
    BY <1>4 DEF PostSucceeded
  <2>3. sub' \in [Subscription -> SubRow]
    BY <2>1, <2>2 DEF TypeOK, SubRow, SubStatus, Moment
  <2>4. row' \in [Txn -> TxnRow]
    BY <1>4, WriteType DEF PostSucceeded, TxnStatus, Moment
  <2>5. posted' \in [Txn -> Int]
    BY <1>4, PostType DEF PostSucceeded
  <2>6. acked' \subseteq Payment \cup {None}
    <3>1. session[k].row.pid \in Payment \cup {None}
      BY <2>1 DEF TxnRow
    <3>2. acked' = acked \cup {session[k].row.pid}
      BY <1>4 DEF PostSucceeded
    <3>3. QED
      BY <3>1, <3>2 DEF TypeOK
  <2>7. session' \in [Session -> SessionState]
    BY <1>4, LeaveType DEF PostSucceeded
  <2>8. QED
    BY <1>4, <2>3, <2>4, <2>5, <2>6, <2>7 DEF PostSucceeded, TypeOK
<1>5. CASE PostCanceled(k)
  <2> DEFINE t == session[k].t
             loaded == session[k].row
             status == Col(row[t].status, loaded.status, "failed")
             retryAt == IF loaded.attempt < MaxAttempts THEN "future" ELSE row[t].retryAt
  <2>1. loaded \in TxnRow
    BY <1>5, SessionType DEF PostCanceled, In
  <2>2. row' = [row EXCEPT ![t].status = status, ![t].retryAt = retryAt]
    BY <1>5 DEF PostCanceled
  <2>3. row' \in [Txn -> TxnRow]
    <3>1. CASE t \in Txn
      <4>1. status \in TxnStatus /\ retryAt \in Moment
        BY <3>1 DEF TypeOK, TxnRow, TxnStatus, Moment, Col
      <4>2. QED
        BY <2>2, <4>1, WriteType
    <3>2. CASE t \notin Txn
      BY <2>2, <3>2 DEF TypeOK
    <3>3. QED
      BY <3>1, <3>2
  <2>4. acked' \subseteq Payment \cup {None}
    <3>1. loaded.pid \in Payment \cup {None}
      BY <2>1 DEF TxnRow
    <3>2. acked' = acked \cup {loaded.pid}
      BY <1>5 DEF PostCanceled
    <3>3. QED
      BY <3>1, <3>2 DEF TypeOK
  <2>5. session' \in [Session -> SessionState]
    BY <1>5, LeaveType DEF PostCanceled
  <2>6. QED
    BY <1>5, <2>3, <2>4, <2>5 DEF PostCanceled, TypeOK
<1>6. CASE PostRefunded(k)
  <2>1. row' \in [Txn -> TxnRow]
    BY <1>6, WriteType DEF PostRefunded, TxnStatus, Moment
  <2>2. posted' \in [Txn -> Int]
    BY <1>6, PostType DEF PostRefunded
  <2>3. session' \in [Session -> SessionState]
    BY <1>6, LeaveType DEF PostRefunded
  <2>4. QED
    BY <1>6, <2>1, <2>2, <2>3 DEF PostRefunded, TypeOK
<1>7. CASE Rollback(k)
  BY <1>7, LeaveType DEF Rollback, TypeOK
<1>8. QED
  BY <1>1, <1>2, <1>3, <1>4, <1>5, <1>6, <1>7 DEF Finish

\* YooKassa and time.
LEMMA OutsideType ==
  ASSUME TypeOK, YooKassa \/ Time
  PROVE  TypeOK'
<1>1. ASSUME NEW p \in Payment, Decide(p) \/ RefundPayment(p) PROVE TypeOK'
  <2>1. payment' \in [Payment -> PaymentStatus]
    BY <1>1 DEF Decide, RefundPayment, TypeOK, PaymentStatus
  <2>2. QED
    BY <1>1, <2>1 DEF Decide, RefundPayment, TypeOK
<1>2. ASSUME NEW p \in Payment, Ignored(p) PROVE TypeOK'
  BY <1>2 DEF Ignored, TypeOK
<1>3. ASSUME NEW s \in Subscription, PeriodEnds(s) PROVE TypeOK'
  <2>1. [sub[s] EXCEPT !.next = "due"] \in SubRow
    BY DEF TypeOK, SubRow, Moment
  <2>2. sub' \in [Subscription -> SubRow]
    BY <1>3, <2>1 DEF PeriodEnds, TypeOK
  <2>3. QED
    BY <1>3, <2>2 DEF PeriodEnds, TypeOK
<1>4. ASSUME NEW t \in Txn, DelayEnds(t) PROVE TypeOK'
  <2>1. [row[t] EXCEPT !.retryAt = "due"] \in TxnRow
    BY DEF TypeOK, TxnRow, Moment
  <2>2. row' \in [Txn -> TxnRow]
    BY <1>4, <2>1 DEF DelayEnds, TypeOK
  <2>3. QED
    BY <1>4, <2>2 DEF DelayEnds, TypeOK
<1>5. QED
  BY <1>1, <1>2, <1>3, <1>4 DEF YooKassa, Time

LEMMA ChargeType ==
  ASSUME TypeOK, NEW s \in Subscription, Charge(s)
  PROVE  TypeOK'
<1>1. PICK t \in Txn :
        \/ /\ billing' = [billing EXCEPT !.todo = @ \ {s}, !.rows[t] = Skipped,
                                         !.skipped = @ \cup {s}]
           /\ UNCHANGED <<payment, about>>
        \/ \E p \in Payment :
             Ask(p, t) /\ (Insert(s, t, NewRow(p)) \/ Insert(s, t, NewRow(None)))
        \/ Insert(s, t, NewRow(None)) /\ UNCHANGED <<payment, about>>
  BY DEF Charge, FreshTxn, FreshPayment, Lowest
<1>2. billing \in BillingState
  BY DEF TypeOK
<1>3. ASSUME NEW r \in TxnRow PROVE [billing.rows EXCEPT ![t] = r] \in [Txn -> TxnRow]
  BY <1>2 DEF BillingState
<1>4. ASSUME NEW r \in TxnRow, Insert(s, t, r) PROVE billing' \in BillingState
  BY <1>2, <1>3, <1>4 DEF Insert, BillingState
<1>5. CASE /\ billing' = [billing EXCEPT !.todo = @ \ {s}, !.rows[t] = Skipped,
                                       !.skipped = @ \cup {s}]
           /\ UNCHANGED <<payment, about>>
  <2>1. billing' \in BillingState
    BY <1>2, <1>3, <1>5, SkippedType DEF BillingState
  <2>2. QED
    BY <1>5, <2>1 DEF Charge, TypeOK
<1>6. ASSUME NEW p \in Payment,
             Ask(p, t) /\ (Insert(s, t, NewRow(p)) \/ Insert(s, t, NewRow(None)))
      PROVE  TypeOK'
  <2>1. billing' \in BillingState
    BY <1>4, <1>6, NewRowType
  <2>2. QED
    BY <1>6, <2>1, AskType DEF Charge, TypeOK
<1>7. CASE Insert(s, t, NewRow(None)) /\ UNCHANGED <<payment, about>>
  <2>1. billing' \in BillingState
    BY <1>4, <1>7, NewRowType
  <2>2. QED
    BY <1>7, <2>1 DEF Charge, TypeOK
<1>8. QED
  BY <1>1, <1>5, <1>6, <1>7

LEMMA BillingType ==
  ASSUME TypeOK, BillingRun \/ BillingAbort
  PROVE  TypeOK'
<1>1. CASE BillingLoad
  <2>1. billing' \in BillingState
    BY <1>1, NoBillingType DEF BillingLoad, BillingState, Due
  <2>2. QED
    BY <1>1, <2>1 DEF BillingLoad, TypeOK
<1>2. CASE BillingCommit
  <2>1. row' \in [Txn -> TxnRow]
    BY <1>2 DEF BillingCommit, TypeOK, BillingState
  <2>2. ASSUME NEW s \in Subscription PROVE [sub[s] EXCEPT !.next = "future"] \in SubRow
    BY DEF TypeOK, SubRow, Moment
  <2>3. sub' \in [Subscription -> SubRow]
    BY <1>2, <2>2 DEF BillingCommit, TypeOK
  <2>4. QED
    BY <1>2, <2>1, <2>3, NoBillingType DEF BillingCommit, TypeOK
<1>3. CASE BillingAbort
  BY <1>3, NoBillingType DEF BillingAbort, TypeOK
<1>4. QED
  BY <1>1, <1>2, <1>3, ChargeType DEF BillingRun

\* What _retry_transaction makes of a row.
Retried(t, r) ==
  \/ r = [row[t] EXCEPT !.retryAt = "null"] /\ UNCHANGED <<payment, about>>
  \/ \E p \in FreshPayment : Ask(p, t) /\ r \in {Again(t, p), Again(t, row[t].pid)}
  \/ r = Again(t, row[t].pid) /\ UNCHANGED <<payment, about>>

LEMMA AgainType ==
  ASSUME TypeOK, NEW t \in Txn, NEW p \in Payment \cup {None}
  PROVE  Again(t, p) \in TxnRow
  BY DEF TypeOK, Again, TxnRow, TxnStatus, Moment

LEMMA RetryOneCases ==
  ASSUME TypeOK, NEW t \in Txn, RetryOne(t)
  PROVE  \E seen \in SubRow, r \in TxnRow : Update(t, seen, r) /\ Retried(t, r)
<1>1. SubOf[t] \in Subscription
  BY BillingAssumption
<1>2. PICK seen \in IF retry.seen[SubOf[t]] = {} THEN {sub[SubOf[t]]} ELSE retry.seen[SubOf[t]] :
        IF seen.status # "active" \/ ~seen.card
        THEN /\ Update(t, seen, [row[t] EXCEPT !.retryAt = "null"])
             /\ UNCHANGED <<payment, about>>
        ELSE \/ \E p \in FreshPayment :
                  /\ Ask(p, t)
                  /\ \/ Update(t, seen, Again(t, p))
                     \/ Outages /\ Update(t, seen, Again(t, row[t].pid))
             \/ /\ Update(t, seen, Again(t, row[t].pid))
                /\ UNCHANGED <<payment, about>>
  BY DEF RetryOne
<1>3. seen \in SubRow
  <2>1. sub[SubOf[t]] \in SubRow /\ retry.seen[SubOf[t]] \subseteq SubRow
    BY <1>1 DEF TypeOK, RetryState
  <2>2. QED
    BY <2>1
<1>4. FreshPayment \subseteq Payment
  BY DEF FreshPayment, Lowest
<1>5. row[t] \in TxnRow /\ row[t].pid \in Payment \cup {None}
  BY DEF TypeOK, TxnRow
<1>6. [row[t] EXCEPT !.retryAt = "null"] \in TxnRow
  BY <1>5 DEF TxnRow, Moment
<1>7. /\ Again(t, row[t].pid) \in TxnRow
      /\ \A p \in FreshPayment : Again(t, p) \in TxnRow
  BY <1>4, <1>5, AgainType
<1>8. \E r \in TxnRow : Update(t, seen, r) /\ Retried(t, r)
  BY <1>2, <1>6, <1>7 DEF Retried
<1>9. QED
  BY <1>3, <1>8

LEMMA RetryOneType ==
  ASSUME TypeOK, NEW t \in Txn, RetryOne(t)
  PROVE  TypeOK'
<1>1. PICK seen \in SubRow, r \in TxnRow : Update(t, seen, r) /\ Retried(t, r)
  BY RetryOneCases
<1>2. payment' \in [Payment -> PaymentStatus] /\ about' \in [Payment -> Txn \cup {None}]
  BY <1>1, AskType DEF Retried, TypeOK, FreshPayment, Lowest
<1>3. retry \in RetryState
  BY DEF TypeOK
<1>4. [retry.rows EXCEPT ![t] = r] \in [Txn -> TxnRow]
  BY <1>3 DEF RetryState
<1>5. [retry.seen EXCEPT ![SubOf[t]] = {seen}] \in [Subscription -> SUBSET SubRow]
  BY <1>3 DEF RetryState
<1>6. retry' \in RetryState
  BY <1>1, <1>3, <1>4, <1>5 DEF Update, RetryState
<1>7. QED
  BY <1>2, <1>6 DEF RetryOne, TypeOK

LEMMA RetryType ==
  ASSUME TypeOK, RetryRun \/ RetryAbort
  PROVE  TypeOK'
<1>1. CASE RetryLoad
  <2>1. retry' \in RetryState
    BY <1>1, NoRetryType DEF RetryLoad, RetryState, Retriable
  <2>2. QED
    BY <1>1, <2>1 DEF RetryLoad, TypeOK
<1>2. CASE RetryCommit
  <2>1. row' \in [Txn -> TxnRow]
    BY <1>2 DEF RetryCommit, TypeOK, RetryState
  <2>2. QED
    BY <1>2, <2>1, NoRetryType DEF RetryCommit, TypeOK
<1>3. CASE RetryAbort
  BY <1>3, NoRetryType DEF RetryAbort, TypeOK
<1>4. QED
  BY <1>1, <1>2, <1>3, RetryOneType DEF RetryRun

LEMMA NextType == TypeOK /\ [Next]_vars => TypeOK'
<1> SUFFICES ASSUME TypeOK, [Next]_vars PROVE TypeOK'
  OBVIOUS
<1>1. CASE UNCHANGED vars
  BY <1>1 DEF vars, TypeOK
<1>2. CASE Next
  BY <1>2, LoadType, FinishType, OutsideType, BillingType, RetryType DEF Next
<1>3. QED
  BY <1>1, <1>2

\* Every variable keeps its type: the rows of the tables and of both runs stay
\* within the enumerations of the models, whoever writes them.
THEOREM TypeCorrect == Spec => []TypeOK
<1>1. Init => TypeOK
  BY InitType
<1>2. TypeOK /\ [Next]_vars => TypeOK'
  BY NextType
<1>3. QED
  BY <1>1, <1>2, PTL DEF Spec

-----------------------------------------------------------------------------
(***************************************************************************)
(* Money.  A commit is justified by what its session knew when it loaded,  *)
(* and by what a run has put aside: both must be facts that YooKassa never *)
(* takes back.  The facts are stated of any a and y in the place of about  *)
(* and payment.                                                            *)
(***************************************************************************)
PaidFor(t, a, y) == \E p \in Payment : a[p] = t /\ y[p] \in Taken

ReturnedFor(t, a, y) == \E p \in Payment : a[p] = t /\ y[p] = "refunded"

SubPaid(s, a, y) ==
  \E p \in Payment : a[p] # None /\ SubOf[a[p]] = s /\ y[p] \in Taken

\* What the columns of row t, wherever they are, stand for.
Backed(r, t, a, y) ==
  /\ r.pid # None => r.pid \in Payment /\ a[r.pid] = t /\ y[r.pid] # "none"
  /\ r.status \in {"success", "refunded"} => PaidFor(t, a, y)
  /\ r.status = "refunded" => ReturnedFor(t, a, y)

\* No payment changes its transaction, and no outcome is taken back.
Lasting(a, y, a2, y2) ==
  \A p \in Payment : /\ y[p] # "none" => a2[p] = a[p] /\ y2[p] # "none"
                     /\ y[p] \in Taken => y2[p] \in Taken
                     /\ y[p] = "refunded" => y2[p] = "refunded"

RowsBacked ==
  \A t \in Txn : /\ Backed(row[t], t, about, payment)
                 /\ Backed(billing.rows[t], t, about, payment)
                 /\ Backed(retry.rows[t], t, about, payment)

\* What request k has seen, or asked for, in phase ph.
Knows(ph, k) ==
  /\ ph = "binding" =>
       session[k].t \in Txn /\ Backed(session[k].row, session[k].t, about, payment)
  /\ ph \in {"succeeded", "posting"} =>
       /\ session[k].t \in Txn /\ session[k].s = SubOf[session[k].t]
       /\ PaidFor(session[k].t, about, payment)
  /\ ph = "refunded" => session[k].t \in Txn /\ ReturnedFor(session[k].t, about, payment)
  /\ ph \in {"pausing", "resuming"} => SubPaid(session[k].s, about, payment)

SessionsKnow == \A k \in Session : Knows(session[k].phase, k)

MoneyInv == TypeOK /\ RowsBacked /\ SessionsKnow /\ ActiveWasPaid

LEMMA BackedLasts ==
  ASSUME NEW r, NEW t \in Txn, NEW a, NEW y, NEW a2, NEW y2,
         Lasting(a, y, a2, y2), Backed(r, t, a, y)
  PROVE  Backed(r, t, a2, y2)
  BY DEF Lasting, Backed, PaidFor, ReturnedFor, Taken

LEMMA PaidLasts ==
  ASSUME NEW a, NEW y, NEW a2, NEW y2, Lasting(a, y, a2, y2)
  PROVE  /\ \A t \in Txn : PaidFor(t, a, y) => PaidFor(t, a2, y2)
         /\ \A t \in Txn : ReturnedFor(t, a, y) => ReturnedFor(t, a2, y2)
         /\ \A s \in Subscription : SubPaid(s, a, y) => SubPaid(s, a2, y2)
  BY DEF Lasting, PaidFor, ReturnedFor, SubPaid, Taken

\* Money paid for a transaction is paid for its subscription.
LEMMA PaidForSub ==
  ASSUME NEW t \in Txn, NEW a, NEW y, PaidFor(t, a, y)
  PROVE  SubPaid(SubOf[t], a, y)
  BY BillingAssumption DEF PaidFor, SubPaid

LEMMA NoRowBacked ==
  ASSUME NEW t, NEW a, NEW y
  PROVE  Backed(NoRow, t, a, y)
  BY DEF Backed, NoRow

LEMMA AskLasts ==
  ASSUME TypeOK, NEW p \in FreshPayment, NEW t \in Txn, Ask(p, t)
  PROVE  /\ Lasting(about, payment, about', payment')
         /\ p \in Payment /\ about'[p] = t /\ payment'[p] = "pending"
<1>1. p \in Payment /\ payment[p] = "none"
  BY DEF FreshPayment, Lowest
<1>2. \A q \in Payment : /\ payment'[q] = IF q = p THEN "pending" ELSE payment[q]
                         /\ about'[q] = IF q = p THEN t ELSE about[q]
  BY <1>1 DEF TypeOK, Ask
<1>3. QED
  BY <1>1, <1>2 DEF Lasting, Taken

LEMMA SameLasts ==
  ASSUME UNCHANGED <<payment, about>>
  PROVE  Lasting(about, payment, about', payment')
  BY DEF Lasting

LEMMA InitMoney == Init => MoneyInv
<1> SUFFICES ASSUME Init PROVE MoneyInv
  OBVIOUS
<1>1. RowsBacked
  BY NoRowBacked DEF Init, RowsBacked, NoBilling, NoRetry
<1>2. SessionsKnow
  BY DEF Init, SessionsKnow, Knows, Idle
<1>3. ActiveWasPaid
  BY DEF Init, ActiveWasPaid, NewSub
<1>4. QED
  BY <1>1, <1>2, <1>3, InitType DEF MoneyInv

\* The parts of the invariant after a step, from what the step changes.
LEMMA RowsLast ==
  ASSUME MoneyInv, Lasting(about, payment, about', payment'),
         \A t \in Txn : /\ row'[t] = row[t] \/ Backed(row'[t], t, about', payment')
                       /\ \/ billing'.rows[t] = billing.rows[t]
                          \/ Backed(billing'.rows[t], t, about', payment')
                       /\ \/ retry'.rows[t] = retry.rows[t]
                          \/ Backed(retry'.rows[t], t, about', payment')
  PROVE  RowsBacked'
  BY BackedLasts DEF MoneyInv, RowsBacked

LEMMA KnowledgeLasts ==
  ASSUME MoneyInv, Lasting(about, payment, about', payment'),
         NEW j \in Session, session'[j] = session[j]
  PROVE  Knows(session[j].phase, j)'
<1>1. Knows(session[j].phase, j)
  BY DEF MoneyInv, SessionsKnow
<1>2. CASE In(j, "idle")
  BY <1>2 DEF Knows, In
<1>3. CASE ~In(j, "idle")
  <2>1. session[j].s \in Subscription
    BY <1>3, SessionType DEF MoneyInv
  <2>2. QED
    BY <1>1, <2>1, BackedLasts, PaidLasts DEF Knows
<1>4. QED
  BY <1>2, <1>3

LEMMA SessionsLast ==
  ASSUME MoneyInv, Lasting(about, payment, about', payment'), UNCHANGED session
  PROVE  SessionsKnow'
  BY KnowledgeLasts DEF SessionsKnow

LEMMA EnterKnows ==
  ASSUME MoneyInv, Lasting(about, payment, about', payment'),
         NEW k \in Session, NEW phase, NEW s, NEW t, NEW r, Enter(k, phase, s, t, r),
         /\ session'[k] = [phase |-> phase, s |-> s, t |-> t, sub |-> sub[s], row |-> r]
              => Knows(session[k].phase, k)'
  PROVE  SessionsKnow'
<1>1. session'[k] = [phase |-> phase, s |-> s, t |-> t, sub |-> sub[s], row |-> r]
  BY DEF MoneyInv, TypeOK, Enter
<1>2. \A j \in Session \ {k} : session'[j] = session[j]
  BY DEF MoneyInv, TypeOK, Enter
<1>3. QED
  BY <1>1, <1>2, KnowledgeLasts DEF SessionsKnow

LEMMA LeaveKnows ==
  ASSUME MoneyInv, Lasting(about, payment, about', payment'), NEW k \in Session, Leave(k)
  PROVE  SessionsKnow'
<1>1. session'[k] = Idle /\ \A j \in Session \ {k} : session'[j] = session[j]
  BY DEF MoneyInv, TypeOK, Leave
<1>2. Knows(session[k].phase, k)'
  BY <1>1 DEF Knows, Idle
<1>3. QED
  BY <1>1, <1>2, KnowledgeLasts DEF SessionsKnow

LEMMA SubsLast ==
  ASSUME MoneyInv, Lasting(about, payment, about', payment'),
         \A s \in Subscription : sub'[s].status \in {"active", "paused"} =>
           sub[s].status \in {"active", "paused"} \/ SubPaid(s, about', payment')
  PROVE  ActiveWasPaid'
<1>1. \A s \in Subscription :
        sub[s].status \in {"active", "paused"} => SubPaid(s, about, payment)
  BY DEF MoneyInv, ActiveWasPaid, SubPaid
<1>2. \A s \in Subscription :
        sub'[s].status \in {"active", "paused"} => SubPaid(s, about', payment')
  BY <1>1, PaidLasts
<1>3. QED
  BY <1>2 DEF ActiveWasPaid, SubPaid

LEMMA LoadMoney ==
  ASSUME MoneyInv, NEW k \in Session, Load(k)
  PROVE  RowsBacked' /\ SessionsKnow' /\ ActiveWasPaid'
<1>1. ASSUME NEW s \in Subscription, BindCard(k, s)
      PROVE  RowsBacked' /\ SessionsKnow' /\ ActiveWasPaid'
  <2>1. PICK t \in Txn, p \in FreshPayment : Ask(p, t) /\ Enter(k, "binding", s, t, NewRow(p))
    BY <1>1 DEF BindCard, FreshTxn, Lowest
  <2>2. /\ Lasting(about, payment, about', payment')
        /\ p \in Payment /\ about'[p] = t /\ payment'[p] = "pending"
    BY <2>1, AskLasts DEF MoneyInv
  <2>3. Backed(NewRow(p), t, about', payment')
    BY <2>2 DEF Backed, NewRow
  <2>4. session'[k] = [phase |-> "binding", s |-> s, t |-> t, sub |-> sub[s], row |-> NewRow(p)]
          => Knows(session[k].phase, k)'
    BY <2>3 DEF Knows
  <2>5. SessionsKnow'
    BY <2>1, <2>2, <2>4, EnterKnows
  <2>6. QED
    BY <1>1, <2>2, <2>5, RowsLast, SubsLast DEF BindCard
<1>2. ASSUME NEW s \in Subscription, LoadPause(k, s) \/ LoadResume(k, s) \/ LoadCancel(k, s)
      PROVE  RowsBacked' /\ SessionsKnow' /\ ActiveWasPaid'
  <2>1. /\ UNCHANGED <<sub, row, payment, about, billing, retry>>
        /\ Lasting(about, payment, about', payment')
    BY <1>2, SameLasts DEF LoadPause, LoadResume, LoadCancel
  <2>2. PICK phase \in {"pausing", "resuming", "cancelling"} :
          /\ Enter(k, phase, s, None, NoRow)
          /\ phase # "cancelling" => sub[s].status \in {"active", "paused"}
    BY <1>2 DEF LoadPause, LoadResume, LoadCancel
  <2>3. phase # "cancelling" => SubPaid(s, about, payment)
    BY <2>2 DEF MoneyInv, ActiveWasPaid, SubPaid
  <2>4. session'[k] = [phase |-> phase, s |-> s, t |-> None, sub |-> sub[s], row |-> NoRow]
          => Knows(session[k].phase, k)'
    BY <2>1, <2>2, <2>3 DEF Knows
  <2>5. SessionsKnow'
    BY <2>1, <2>2, <2>4, EnterKnows
  <2>6. QED
    BY <2>1, <2>5, RowsLast, SubsLast
<1>3. ASSUME NEW t \in Txn, LoadSucceeded(k, t) \/ LoadCanceled(k, t) \/ LoadRefunded(k, t)
      PROVE  RowsBacked' /\ SessionsKnow' /\ ActiveWasPaid'
  <2>1. /\ UNCHANGED <<sub, row, payment, about, billing, retry>>
        /\ Lasting(about, payment, about', payment')
    BY <1>3, SameLasts DEF LoadSucceeded, LoadCanceled, LoadRefunded
  <2>2. PICK phase \in {"succeeded", "canceled", "refunded"} :
          /\ Enter(k, phase, SubOf[t], t, row[t])
          /\ row[t].pid # None
          /\ phase = "succeeded" => payment[row[t].pid] \in Taken
          /\ phase = "refunded" => payment[row[t].pid] = "refunded"
    BY <1>3 DEF LoadSucceeded, LoadCanceled, LoadRefunded
  <2>3. row[t].pid \in Payment /\ about[row[t].pid] = t
    BY <2>2 DEF MoneyInv, RowsBacked, Backed
  <2>4. /\ phase = "succeeded" => PaidFor(t, about, payment)
        /\ phase = "refunded" => ReturnedFor(t, about, payment)
    BY <2>2, <2>3 DEF PaidFor, ReturnedFor
  <2>5. session'[k] = [phase |-> phase, s |-> SubOf[t], t |-> t, sub |-> sub[SubOf[t]],
                       row |-> row[t]]
          => Knows(session[k].phase, k)'
    BY <2>1, <2>2, <2>4 DEF Knows
  <2>6. SessionsKnow'
    BY <2>1, <2>2, <2>5, EnterKnows
  <2>7. QED
    BY <2>1, <2>6, RowsLast, SubsLast
<1>4. QED
  BY <1>1, <1>2, <1>3 DEF Load

LEMMA FinishMoney ==
  ASSUME MoneyInv, NEW k \in Session, Finish(k) \/ Rollback(k)
  PROVE  RowsBacked' /\ SessionsKnow' /\ ActiveWasPaid'
<1> DEFINE s == session[k].s
           t == session[k].t
<1>1. Lasting(about, payment, about', payment') /\ UNCHANGED <<payment, about, billing, retry>>
  BY SameLasts DEF Finish, Rollback, CommitBind, CommitChange, ReadSubscription, PostSucceeded,
                   PostCanceled, PostRefunded
<1>2. /\ row \in [Txn -> TxnRow] /\ sub \in [Subscription -> SubRow]
      /\ Knows(session[k].phase, k)
      /\ \A u \in Txn : Backed(row[u], u, about, payment)
  BY DEF MoneyInv, TypeOK, SessionsKnow, RowsBacked
<1>3. CASE CommitBind(k)
  <2>1. SessionsKnow'
    BY <1>1, <1>3, LeaveKnows DEF CommitBind
  <2>2. t \in Txn /\ Backed(session[k].row, t, about, payment)
    BY <1>2, <1>3 DEF CommitBind, In, Knows
  <2>3. \A u \in Txn : row'[u] = row[u] \/ Backed(row'[u], u, about', payment')
    BY <1>1, <1>2, <1>3, <2>2 DEF CommitBind
  <2>4. QED
    BY <1>1, <1>3, <2>1, <2>3, RowsLast, SubsLast DEF CommitBind
<1>4. CASE CommitChange(k)
  <2>1. SessionsKnow'
    BY <1>1, <1>4, LeaveKnows DEF CommitChange
  <2>2. session[k].phase \in {"pausing", "resuming", "cancelling"}
    BY <1>4 DEF CommitChange, StatusAfter
  <2>3. s \in Subscription
    BY <2>2, SessionType DEF In, MoneyInv
  <2>4. /\ \A r \in Subscription \ {s} : sub'[r].status = sub[r].status
        /\ sub'[s].status = Col(sub[s].status, session[k].sub.status,
                                StatusAfter[session[k].phase])
    BY <1>2, <1>4, <2>3 DEF CommitChange, SubRow
  <2>5. sub'[s].status # sub[s].status => sub'[s].status = StatusAfter[session[k].phase]
    BY <2>4 DEF Col
  <2>6. session[k].phase # "cancelling" => SubPaid(s, about, payment)
    BY <1>2, <2>2 DEF Knows
  <2>7. sub'[s].status \in {"active", "paused"} =>
          sub[s].status \in {"active", "paused"} \/ SubPaid(s, about', payment')
    BY <1>1, <2>2, <2>5, <2>6 DEF StatusAfter
  <2>8. ActiveWasPaid'
    BY <1>1, <2>4, <2>7, SubsLast
  <2>9. QED
    BY <1>1, <1>4, <2>1, <2>8, RowsLast DEF CommitChange
<1>5. CASE ReadSubscription(k)
  <2>1. t \in Txn /\ s = SubOf[t] /\ PaidFor(t, about, payment)
    BY <1>2, <1>5 DEF ReadSubscription, In, Knows
  <2>2. session'[k] = [phase |-> "posting", s |-> s, t |-> t, sub |-> sub[s],
                       row |-> session[k].row]
          => Knows(session[k].phase, k)'
    BY <1>1, <2>1 DEF Knows
  <2>3. SessionsKnow'
    BY <1>1, <1>5, <2>2, EnterKnows DEF ReadSubscription
  <2>4. QED
    BY <1>1, <1>5, <2>3, RowsLast, SubsLast DEF ReadSubscription
<1>6. CASE PostSucceeded(k)
  <2>1. SessionsKnow'
    BY <1>1, <1>6, LeaveKnows DEF PostSucceeded
  <2>2. t \in Txn /\ s = SubOf[t] /\ PaidFor(t, about, payment)
    BY <1>2, <1>6 DEF PostSucceeded, In, Knows
  <2>3. Backed([row[t] EXCEPT !.status = "success"], t, about', payment')
    BY <1>1, <1>2, <2>2 DEF Backed, TxnRow
  <2>4. \A u \in Txn : row'[u] = IF u = t THEN [row[t] EXCEPT !.status = "success"] ELSE row[u]
    BY <1>2, <1>6 DEF PostSucceeded
  <2>5. SubPaid(s, about', payment')
    BY <1>1, <2>2, PaidForSub
  <2>6. \A r \in Subscription \ {s} : sub'[r] = sub[r]
    BY <1>2, <1>6 DEF PostSucceeded
  <2>7. ActiveWasPaid'
    BY <1>1, <2>5, <2>6, SubsLast
  <2>8. RowsBacked'
    BY <1>1, <2>3, <2>4, RowsLast
  <2>9. QED
    BY <2>1, <2>7, <2>8
<1>7. CASE PostCanceled(k)
  <2> DEFINE status == Col(row[t].status, session[k].row.status, "failed")
             retryAt == IF session[k].row.attempt < MaxAttempts THEN "future" ELSE row[t].retryAt
             written == [row[t] EXCEPT !.status = status, !.retryAt = retryAt]
  <2>1. SessionsKnow'
    BY <1>1, <1>7, LeaveKnows DEF PostCanceled
  <2>2. row' = [row EXCEPT ![t] = written]
    BY <1>7 DEF PostCanceled
  <2>3. status \in {row[t].status, "failed"}
    BY DEF Col
  <2> HIDE DEF status, retryAt
  <2>4. t \in Txn => Backed(written, t, about', payment')
    BY <1>1, <1>2, <2>3 DEF Backed, TxnRow
  <2>5. \A u \in Txn : row'[u] = IF u = t THEN written ELSE row[u]
    BY <1>2, <2>2
  <2>6. QED
    BY <1>1, <1>7, <2>1, <2>4, <2>5, RowsLast, SubsLast DEF PostCanceled
<1>8. CASE PostRefunded(k)
  <2>1. SessionsKnow'
    BY <1>1, <1>8, LeaveKnows DEF PostRefunded
  <2>2. t \in Txn /\ ReturnedFor(t, about, payment)
    BY <1>2, <1>8 DEF PostRefunded, In, Knows
  <2>3. PaidFor(t, about, payment)
    BY <2>2 DEF PaidFor, ReturnedFor, Taken
  <2>4. Backed([row[t] EXCEPT !.status = "refunded"], t, about', payment')
    BY <1>1, <1>2, <2>2, <2>3 DEF Backed, TxnRow
  <2>5. \A u \in Txn : row'[u] = IF u = t THEN [row[t] EXCEPT !.status = "refunded"] ELSE row[u]
    BY <1>2, <1>8 DEF PostRefunded
  <2>6. QED
    BY <1>1, <1>8, <2>1, <2>4, <2>5, RowsLast, SubsLast DEF PostRefunded
<1>9. CASE Rollback(k)
  <2>1. SessionsKnow'
    BY <1>1, <1>9, LeaveKnows DEF Rollback
  <2>2. QED
    BY <1>1, <1>9, <2>1, RowsLast, SubsLast DEF Rollback
<1>10. QED
  BY <1>3, <1>4, <1>5, <1>6, <1>7, <1>8, <1>9 DEF Finish

LEMMA OutsideMoney ==
  ASSUME MoneyInv, YooKassa \/ Time
  PROVE  RowsBacked' /\ SessionsKnow' /\ ActiveWasPaid'
<1>1. ASSUME NEW p \in Payment, Decide(p) \/ RefundPayment(p)
      PROVE  RowsBacked' /\ SessionsKnow' /\ ActiveWasPaid'
  <2>1. Lasting(about, payment, about', payment')
    BY <1>1 DEF Decide, RefundPayment, Lasting, Taken, MoneyInv, TypeOK
  <2>2. UNCHANGED <<sub, row, session, billing, retry>>
    BY <1>1 DEF Decide, RefundPayment
  <2>3. QED
    BY <2>1, <2>2, RowsLast, SessionsLast, SubsLast
<1>2. ASSUME NEW p \in Payment, Ignored(p)
      PROVE  RowsBacked' /\ SessionsKnow' /\ ActiveWasPaid'
  BY <1>2, SameLasts, RowsLast, SessionsLast, SubsLast DEF Ignored
<1>3. ASSUME NEW s \in Subscription, PeriodEnds(s)
      PROVE  RowsBacked' /\ SessionsKnow' /\ ActiveWasPaid'
  <2>1. \A r \in Subscription : sub'[r].status = sub[r].status
    BY <1>3 DEF PeriodEnds, MoneyInv, TypeOK, SubRow
  <2>2. QED
    BY <1>3, <2>1, SameLasts, RowsLast, SessionsLast, SubsLast DEF PeriodEnds
<1>4. ASSUME NEW t \in Txn, DelayEnds(t)
      PROVE  RowsBacked' /\ SessionsKnow' /\ ActiveWasPaid'
  <2>1. Backed([row[t] EXCEPT !.retryAt = "due"], t, about, payment)
    BY DEF MoneyInv, TypeOK, TxnRow, RowsBacked, Backed
  <2>2. \A u \in Txn : row'[u] = IF u = t THEN [row[t] EXCEPT !.retryAt = "due"] ELSE row[u]
    BY <1>4 DEF DelayEnds, MoneyInv, TypeOK
  <2>3. \A u \in Txn : row'[u] = row[u] \/ Backed(row'[u], u, about', payment')
    BY <1>4, <2>1, <2>2 DEF DelayEnds
  <2>4. QED
    BY <1>4, <2>3, SameLasts, RowsLast, SessionsLast, SubsLast DEF DelayEnds
<1>5. QED
  BY <1>1, <1>2, <1>3, <1>4 DEF YooKassa, Time

LEMMA ChargeMoney ==
  ASSUME MoneyInv, NEW s \in Subscription, Charge(s)
  PROVE  RowsBacked' /\ SessionsKnow' /\ ActiveWasPaid'
<1>1. UNCHANGED <<sub, row, session, retry>>
  BY DEF Charge
<1>2. PICK t \in Txn, r \in TxnRow :
        /\ \A u \in Txn : billing'.rows[u] = IF u = t THEN r ELSE billing.rows[u]
        /\ Lasting(about, payment, about', payment')
        /\ Backed(r, t, about', payment')
  <2>1. billing \in BillingState
    BY DEF MoneyInv, TypeOK
  <2>2. ASSUME NEW u \in Txn, NEW r \in TxnRow, Insert(s, u, r)
        PROVE  \A v \in Txn : billing'.rows[v] = IF v = u THEN r ELSE billing.rows[v]
    BY <2>1, <2>2 DEF Insert, BillingState
  <2>3. ASSUME NEW u \in FreshTxn(s),
               billing' = [billing EXCEPT !.todo = @ \ {s}, !.rows[u] = Skipped,
                                          !.skipped = @ \cup {s}]
        PROVE  \A v \in Txn : billing'.rows[v] = IF v = u THEN Skipped ELSE billing.rows[v]
    BY <2>1, <2>3 DEF BillingState
  <2>4. \A u \in Txn : /\ Backed(Skipped, u, about', payment')
                       /\ Backed(NewRow(None), u, about', payment')
    BY DEF Backed, Skipped, NewRow
  <2>5. ASSUME NEW u \in Txn, NEW p \in FreshPayment, Ask(p, u)
        PROVE  /\ Lasting(about, payment, about', payment') /\ NewRow(p) \in TxnRow
               /\ Backed(NewRow(p), u, about', payment')
    BY <2>5, AskLasts, NewRowType DEF MoneyInv, Backed, NewRow
  <2>6. NewRow(None) \in TxnRow /\ Skipped \in TxnRow
    BY NewRowType, SkippedType
  <2>7. PICK u \in FreshTxn(s) :
          \/ /\ billing' = [billing EXCEPT !.todo = @ \ {s}, !.rows[u] = Skipped,
                                           !.skipped = @ \cup {s}]
             /\ UNCHANGED <<payment, about>>
          \/ \E p \in FreshPayment :
               Ask(p, u) /\ (Insert(s, u, NewRow(p)) \/ Insert(s, u, NewRow(None)))
          \/ Insert(s, u, NewRow(None)) /\ UNCHANGED <<payment, about>>
    BY DEF Charge
  <2>8. u \in Txn
    BY DEF FreshTxn, Lowest
  <2>9. CASE /\ billing' = [billing EXCEPT !.todo = @ \ {s}, !.rows[u] = Skipped,
                                          !.skipped = @ \cup {s}]
             /\ UNCHANGED <<payment, about>>
    BY <2>3, <2>4, <2>6, <2>8, <2>9, SameLasts
  <2>10. ASSUME NEW p \in FreshPayment,
                Ask(p, u) /\ (Insert(s, u, NewRow(p)) \/ Insert(s, u, NewRow(None)))
         PROVE  \E r \in TxnRow :
                  /\ \A v \in Txn : billing'.rows[v] = IF v = u THEN r ELSE billing.rows[v]
                  /\ Lasting(about, payment, about', payment')
                  /\ Backed(r, u, about', payment')
    BY <2>2, <2>4, <2>5, <2>6, <2>8, <2>10
  <2>11. CASE Insert(s, u, NewRow(None)) /\ UNCHANGED <<payment, about>>
    BY <2>2, <2>4, <2>6, <2>8, <2>11, SameLasts
  <2>12. QED
    BY <2>7, <2>8, <2>9, <2>10, <2>11
<1>3. QED
  BY <1>1, <1>2, RowsLast, SessionsLast, SubsLast

LEMMA BillingMoney ==
  ASSUME MoneyInv, BillingRun \/ BillingAbort
  PROVE  RowsBacked' /\ SessionsKnow' /\ ActiveWasPaid'
<1>1. \A t \in Txn : NoBilling.rows[t] = NoRow /\ Backed(NoRow, t, about, payment)
  BY NoRowBacked DEF NoBilling
<1>2. CASE BillingLoad \/ BillingAbort
  <2>1. UNCHANGED <<sub, row, payment, about, session, retry>>
    BY <1>2 DEF BillingLoad, BillingAbort
  <2>2. \A t \in Txn : billing'.rows[t] = NoRow
    <3>1. billing'.rows = NoBilling.rows
      BY <1>2 DEF BillingLoad, BillingAbort, NoBilling
    <3>2. QED
      BY <1>1, <3>1
  <2>3. QED
    BY <1>1, <2>1, <2>2, SameLasts, RowsLast, SessionsLast, SubsLast
<1>3. CASE BillingCommit
  <2>1. UNCHANGED <<payment, about, session, retry>>
    BY <1>3 DEF BillingCommit
  <2>2. \A t \in Txn : billing'.rows[t] = NoRow /\ row'[t] \in {row[t], billing.rows[t]}
    BY <1>1, <1>3 DEF BillingCommit
  <2>3. \A t \in Txn : Backed(billing.rows[t], t, about, payment)
    BY DEF MoneyInv, RowsBacked
  <2>4. \A s \in Subscription : sub'[s].status = sub[s].status
    BY <1>3 DEF BillingCommit, MoneyInv, TypeOK, SubRow
  <2>5. QED
    BY <1>1, <2>1, <2>2, <2>3, <2>4, SameLasts, RowsLast, SessionsLast, SubsLast
<1>4. QED
  BY <1>2, <1>3, ChargeMoney DEF BillingRun

LEMMA RetryOneMoney ==
  ASSUME MoneyInv, NEW t \in Txn, RetryOne(t)
  PROVE  RowsBacked' /\ SessionsKnow' /\ ActiveWasPaid'
<1>1. UNCHANGED <<sub, row, session, billing>>
  BY DEF RetryOne
<1>2. PICK seen \in SubRow, r \in TxnRow : Update(t, seen, r) /\ Retried(t, r)
  BY RetryOneCases DEF MoneyInv
<1>3. row[t] \in TxnRow /\ Backed(row[t], t, about, payment)
  BY DEF MoneyInv, TypeOK, RowsBacked
<1>4. Lasting(about, payment, about', payment')
  BY <1>2, AskLasts, SameLasts DEF Retried, MoneyInv
<1>5. Backed(r, t, about', payment')
  <2>1. CASE r = [row[t] EXCEPT !.retryAt = "null"] /\ UNCHANGED <<payment, about>>
    BY <1>3, <2>1 DEF Backed, TxnRow
  <2>2. Backed(row[t], t, about', payment')
    BY <1>3, <1>4, BackedLasts
  <2>3. Backed(Again(t, row[t].pid), t, about', payment')
    BY <2>2 DEF Again, Backed
  <2>4. ASSUME NEW p \in FreshPayment, Ask(p, t) PROVE Backed(Again(t, p), t, about', payment')
    BY <2>4, AskLasts DEF MoneyInv, Again, Backed
  <2>5. QED
    BY <1>2, <2>1, <2>3, <2>4 DEF Retried
<1>6. \A u \in Txn : retry'.rows[u] = IF u = t THEN r ELSE retry.rows[u]
  BY <1>2 DEF Update, MoneyInv, TypeOK, RetryState
<1>7. QED
  BY <1>1, <1>4, <1>5, <1>6, RowsLast, SessionsLast, SubsLast

LEMMA RetryMoney ==
  ASSUME MoneyInv, RetryRun \/ RetryAbort
  PROVE  RowsBacked' /\ SessionsKnow' /\ ActiveWasPaid'
<1>1. /\ \A t \in Txn : Backed(NoRow, t, about, payment) /\ Backed(retry.rows[t], t, about, payment)
      /\ \A t \in Txn : NoRetry.rows[t] = NoRow
  BY NoRowBacked DEF MoneyInv, RowsBacked, NoRetry
<1>2. CASE RetryLoad \/ RetryAbort
  <2>1. UNCHANGED <<sub, row, payment, about, session, billing>>
    BY <1>2 DEF RetryLoad, RetryAbort
  <2>2. \A t \in Txn : retry'.rows[t] = NoRow
    <3>1. retry'.rows = NoRetry.rows
      BY <1>2 DEF RetryLoad, RetryAbort, NoRetry
    <3>2. QED
      BY <1>1, <3>1
  <2>3. QED
    BY <1>1, <2>1, <2>2, SameLasts, RowsLast, SessionsLast, SubsLast
<1>3. CASE RetryCommit
  <2>1. UNCHANGED <<sub, payment, about, session, billing>>
    BY <1>3 DEF RetryCommit
  <2>2. \A t \in Txn : retry'.rows[t] = NoRow /\ row'[t] \in {row[t], retry.rows[t]}
    BY <1>3 DEF RetryCommit, NoRetry
  <2>3. QED
    BY <1>1, <2>1, <2>2, SameLasts, RowsLast, SessionsLast, SubsLast
<1>4. QED
  BY <1>2, <1>3, RetryOneMoney DEF RetryRun

LEMMA NextMoney == MoneyInv /\ [Next]_vars => MoneyInv'
<1> SUFFICES ASSUME MoneyInv, [Next]_vars PROVE MoneyInv'
  OBVIOUS
<1>1. TypeOK'
  BY NextType DEF MoneyInv
<1>2. RowsBacked' /\ SessionsKnow' /\ ActiveWasPaid'
  <2>1. CASE UNCHANGED vars
    BY <2>1, SameLasts, RowsLast, SessionsLast, SubsLast DEF vars
  <2>2. CASE Next
    BY <2>2, LoadMoney, FinishMoney, OutsideMoney, BillingMoney, RetryMoney DEF Next
  <2>3. QED
    BY <2>1, <2>2
<1>3. QED
  BY <1>1, <1>2 DEF MoneyInv

LEMMA MoneyAlways == Spec => []MoneyInv
<1>1. Init => MoneyInv
  BY InitMoney
<1>2. MoneyInv /\ [Next]_vars => MoneyInv'
  BY NextMoney
<1>3. QED
  BY <1>1, <1>2, PTL DEF Spec

\* A transaction is successful or refunded only with YooKassa's payment or
\* refund behind it, however retries and notifications overtake each other.
THEOREM SuccessCorrect == Spec => []SuccessWasPaid
<1>1. MoneyInv => SuccessWasPaid
  BY DEF MoneyInv, RowsBacked, Backed, PaidFor, ReturnedFor, SuccessWasPaid
<1>2. QED
  BY <1>1, MoneyAlways, PTL

\* No subscription becomes active, or is paused, that has not been paid for.
THEOREM ActiveCorrect == Spec => []ActiveWasPaid
<1>1. MoneyInv => ActiveWasPaid
  BY DEF MoneyInv
<1>2. QED
  BY <1>1, MoneyAlways, PTL

-----------------------------------------------------------------------------
(***************************************************************************)
(* Without overlap.  A session or the run of retries has a subscription to *)
(* itself, so what it loaded is what is there when it writes.  The billing *)
(* run may overlap with all of them: it only inserts rows.                 *)
(***************************************************************************)
\* The columns of row t agree with each other, with the counters and with
\* what YooKassa says of the payment.
RowRight(t) ==
  /\ row[t].status = "none" => row[t] = NoRow
  /\ row[t].status \in {"none", "skipped"} => row[t].pid = None
  /\ row[t].status \in {"success", "refunded"} => row[t].pid # None /\ payment[row[t].pid] \in Taken
  /\ row[t].retryAt # "null" => row[t].status = "failed" /\ row[t].attempt < MaxAttempts
  /\ posted[t] = IF row[t].status = "success" THEN 1 ELSE 0

FirstAttempt(r) ==
  /\ r.status \in {"pending", "skipped"} /\ r.attempt = 1 /\ r.retryAt = "null"
  /\ r.status = "skipped" => r.pid = None

\* What the billing run has inserted is not there yet.
Inserting(t) == billing.rows[t] # NoRow => row[t] = NoRow /\ FirstAttempt(billing.rows[t])

NextAttempt(r, old) ==
  /\ r.retryAt = "null"
  /\ \/ r.status = "failed" /\ r.attempt = old.attempt
     \/ r.status = "pending" /\ r.attempt = old.attempt + 1

\* What the run of retries works on is failed and has attempts left.
Retrying(t) ==
  /\ (t \in retry.todo \/ retry.rows[t] # NoRow) =>
       row[t].status = "failed" /\ row[t].attempt < MaxAttempts
  /\ retry.rows[t] # NoRow => NextAttempt(retry.rows[t], row[t])

Loaded == {"succeeded", "posting", "canceled", "refunded"}

\* What session k has seen of its transaction is still so.
Current(k) ==
  LET q == session[k]
      r == row[session[k].t]
  IN
  /\ q.phase \in Loaded \cup {"binding"} => q.t \in Txn /\ q.s = SubOf[q.t]
  /\ q.phase = "binding" => r = NoRow /\ billing.rows[q.t] = NoRow
                            /\ FirstAttempt(q.row) /\ q.row.status = "pending"
  /\ q.phase \in Loaded => /\ r.pid # None /\ q.row.pid = r.pid
                           /\ q.row.status = r.status /\ q.row.attempt = r.attempt
  /\ q.phase \in {"succeeded", "posting"} => r.status = "pending" /\ payment[r.pid] \in Taken
  /\ q.phase = "canceled" => payment[r.pid] = "canceled"
  /\ q.phase = "refunded" => r.status = "success" /\ payment[r.pid] = "refunded"

\* The subscription of session k is nobody else's.
Exclusive(k) ==
  session[k].s # None => /\ ~RetryWorksOn(session[k].s)
                         /\ \A j \in Session : session[j].s = session[k].s => j = k

Rows     == \A t \in Txn : RowRight(t) /\ Inserting(t) /\ Retrying(t)
Requests == \A k \in Session : Current(k) /\ Exclusive(k)
OnceInv  == TypeOK /\ Rows /\ Requests

\* What YooKassa has decided stays so.
Decided ==
  \A p \in Payment : /\ payment[p] \in Taken => payment'[p] \in Taken
                     /\ payment[p] \in {"canceled", "refunded"} => payment'[p] = payment[p]

\* Row t is as it was, or only its time of retry is another.
Kept(t) ==
  /\ row[t] = NoRow => row'[t] = NoRow
  /\ row'[t].status = row[t].status /\ row'[t].pid = row[t].pid /\ row'[t].attempt = row[t].attempt

LEMMA InitOnce == Init => OnceInv
<1> SUFFICES ASSUME Init PROVE OnceInv
  OBVIOUS
<1>1. Rows
  BY DEF Init, Rows, RowRight, Inserting, Retrying, NoRow, NoBilling, NoRetry
<1>2. Requests
  BY DEF Init, Requests, Current, Exclusive, Idle, Loaded
<1>3. QED
  BY <1>1, <1>2, InitType DEF OnceInv

\* A row that no step writes.
LEMMA RowStays ==
  ASSUME OnceInv, Decided, NEW t \in Txn, row'[t] = row[t], posted'[t] = posted[t]
  PROVE  RowRight(t)'
<1>1. row[t] \in TxnRow /\ RowRight(t)
  BY DEF OnceInv, TypeOK, Rows
<1>2. row[t].pid \in Payment \cup {None}
  BY <1>1 DEF TxnRow
<1>3. QED
  BY <1>1, <1>2 DEF RowRight, Decided

LEMMA InsertStays ==
  ASSUME OnceInv, NEW t \in Txn, billing'.rows[t] = billing.rows[t],
         row[t] = NoRow => row'[t] = NoRow
  PROVE  Inserting(t)'
  BY DEF OnceInv, Rows, Inserting

LEMMA RetryStays ==
  ASSUME OnceInv, NEW t \in Txn, retry'.rows[t] = retry.rows[t],
         t \in retry'.todo => t \in retry.todo,
         (t \in retry.todo \/ retry.rows[t] # NoRow) => Kept(t)
  PROVE  Retrying(t)'
<1>1. Retrying(t)
  BY DEF OnceInv, Rows
<1>2. QED
  BY <1>1 DEF Retrying, Kept, NextAttempt

\* A session that does not move, while others write other rows.
LEMMA CurrentStays ==
  ASSUME OnceInv, Decided, NEW k \in Session, session'[k] = session[k],
         session[k].phase \in Loaded \cup {"binding"} => Kept(session[k].t),
         session[k].phase = "binding" => billing'.rows[session[k].t] = billing.rows[session[k].t]
  PROVE  Current(k)'
<1>1. Current(k)
  BY DEF OnceInv, Requests
<1>2. CASE session[k].phase \in Loaded
  <2> DEFINE t == session[k].t
  <2>1. t \in Txn /\ row[t].pid # None /\ Kept(t)
    BY <1>1, <1>2 DEF Current
  <2>2. row[t].pid \in Payment
    BY <2>1 DEF OnceInv, TypeOK, TxnRow
  <2>3. QED
    BY <1>1, <1>2, <2>1, <2>2 DEF Current, Kept, Decided, Loaded
<1>3. CASE session[k].phase \notin Loaded
  BY <1>1, <1>3 DEF Current, Kept, Loaded
<1>4. QED
  BY <1>2, <1>3

\* Who works on a subscription.
Workless == \A s \in Subscription : RetryWorksOn(s)' => RetryWorksOn(s)

LEMMA ExclusiveStays ==
  ASSUME OnceInv, TypeOK', Workless, \A j \in Session : session'[j].s \in {session[j].s, None}
  PROVE  \A k \in Session : Exclusive(k)'
<1> SUFFICES ASSUME NEW k \in Session, session'[k].s # None PROVE Exclusive(k)'
  BY DEF Exclusive
<1>1. session'[k].s = session[k].s /\ session[k].s \in Subscription /\ Exclusive(k)
  BY DEF OnceInv, TypeOK, SessionState, Idle, Requests
<1>2. QED
  BY <1>1 DEF Exclusive, Workless

LEMMA SameWork ==
  ASSUME UNCHANGED retry
  PROVE  Workless
  BY DEF Workless, RetryWorksOn

LEMMA SameOutcomes ==
  ASSUME UNCHANGED payment
  PROVE  Decided
  BY DEF Decided

LEMMA SessionsAre ==
  ASSUME TypeOK, NEW k \in Session, NEW q, session' = [session EXCEPT ![k] = q]
  PROVE  session'[k] = q /\ \A j \in Session \ {k} : session'[j] = session[j]
  BY DEF TypeOK

\* Two requests on transactions are on different ones.
LEMMA Apart ==
  ASSUME OnceInv, NEW k \in Session, NEW j \in Session, k # j,
         session[k].phase \in Loaded \cup {"binding"}, session[j].phase \in Loaded \cup {"binding"}
  PROVE  session[k].t # session[j].t
<1>1. /\ Current(k) /\ Current(j) /\ Exclusive(k)
      /\ session[k].t \in Txn
  BY DEF OnceInv, Requests, Current
<1>2. session[k].s \in Subscription /\ session[k].s # None
  BY <1>1, BillingAssumption DEF Current
<1>3. QED
  BY <1>1, <1>2 DEF Current, Exclusive

-----------------------------------------------------------------------------
\* A step of Dunning at transaction t.
Dunned(t) ==
  LET old == row[t]
      new == row'[t]
  IN
  \/ new.status = old.status /\ new.attempt = old.attempt
  \/ old.status = "none" /\ new.status \in {"pending", "skipped"} /\ new.attempt = 1
  \/ old.status = "pending" /\ new.status \in {"success", "failed"} /\ new.attempt = old.attempt
  \/ /\ old.status = "failed" /\ old.attempt < MaxAttempts
     /\ new.status = "pending" /\ new.attempt = old.attempt + 1
  \/ old.status = "success" /\ new.status = "refunded" /\ new.attempt = old.attempt

\* What a step has to do.
OnceStep == Rows' /\ Requests' /\ \A t \in Txn : Dunned(t)

\* The rows, when none is written.
LEMMA RowsStay ==
  ASSUME OnceInv, Decided, UNCHANGED <<row, posted, billing, retry>>
  PROVE  Rows' /\ \A t \in Txn : Dunned(t) /\ Kept(t)
<1>1. \A t \in Txn : Kept(t) /\ Dunned(t)
  BY DEF Kept, Dunned
<1>2. ASSUME NEW t \in Txn PROVE RowRight(t)' /\ Inserting(t)' /\ Retrying(t)'
  <2>1. row'[t] = row[t] /\ posted'[t] = posted[t]
    OBVIOUS
  <2>2. billing'.rows[t] = billing.rows[t] /\ retry'.rows[t] = retry.rows[t] /\ retry'.todo = retry.todo
    OBVIOUS
  <2>3. RowRight(t)'
    BY <2>1, RowStays
  <2>4. Inserting(t)'
    BY <2>1, <2>2, InsertStays
  <2>5. Retrying(t)'
    BY <1>1, <2>2, RetryStays
  <2>6. QED
    BY <2>3, <2>4, <2>5
<1>3. QED
  BY <1>1, <1>2 DEF Rows

\* A session that is done has nothing.
LEMMA Done ==
  ASSUME TypeOK, NEW k \in Session, Leave(k)
  PROVE  Current(k)' /\ session'[k].s = None
<1>1. session'[k] = Idle
  BY SessionsAre DEF Leave
<1>2. QED
  BY <1>1 DEF Current, Idle, Loaded

\* Sessions that begin to work.
LEMMA EnterOnce ==
  ASSUME OnceInv, TypeOK', ~Overlap, Decided, NEW k \in Session, NEW phase,
         NEW s \in Subscription, NEW t, NEW r,
         Enter(k, phase, s, t, r), Available(s), Current(k)',
         UNCHANGED <<row, posted, billing, retry>>
  PROVE  OnceStep
<1>1. session'[k].s = s /\ \A j \in Session \ {k} : session'[j] = session[j]
  <2> DEFINE q == [phase |-> phase, s |-> s, t |-> t, sub |-> sub[s], row |-> r]
  <2>1. session' = [session EXCEPT ![k] = q]
    BY DEF Enter
  <2>2. q.s = s
    OBVIOUS
  <2> HIDE DEF q
  <2>3. QED
    BY <2>1, <2>2, SessionsAre DEF OnceInv
<1>2. Rows' /\ \A u \in Txn : Dunned(u) /\ Kept(u)
  BY RowsStay
<1>3. \A j \in Session : Current(j)'
  <2> SUFFICES ASSUME NEW j \in Session \ {k} PROVE Current(j)'
    OBVIOUS
  <2>1. session[j].phase \in Loaded \cup {"binding"} => Kept(session[j].t)
    BY <1>2 DEF OnceInv, Requests, Current
  <2>2. QED
    BY <1>1, <2>1, CurrentStays
<1>4. \A j \in Session : Exclusive(j)'
  <2>1. ~RetryWorksOn(s)' /\ \A j \in Session : session[j].s # s
    BY DEF Available, RetryWorksOn
  <2>2. \A j \in Session \ {k} : Exclusive(j)
    BY DEF OnceInv, Requests
  <2>3. \A u : RetryWorksOn(u)' <=> RetryWorksOn(u)
    BY DEF RetryWorksOn
  <2>4. QED
    BY <1>1, <2>1, <2>2, <2>3 DEF Exclusive
<1>5. QED
  BY <1>2, <1>3, <1>4 DEF OnceStep, Requests

LEMMA LoadOnce ==
  ASSUME OnceInv, TypeOK', ~Overlap, NEW k \in Session, Load(k)
  PROVE  OnceStep
<1>1. ASSUME NEW s \in Subscription, BindCard(k, s) PROVE OnceStep
  <2>1. PICK t \in FreshTxn(s), p \in FreshPayment : Ask(p, t) /\ Enter(k, "binding", s, t, NewRow(p))
    BY <1>1 DEF BindCard
  <2>2. t \in Txn /\ SubOf[t] = s /\ row[t] = NoRow /\ billing.rows[t] = NoRow
    BY DEF FreshTxn, Lowest
  <2>3. FirstAttempt(NewRow(p)) /\ NewRow(p).status = "pending"
    BY DEF FirstAttempt, NewRow
  <2>4. session'[k] = [phase |-> "binding", s |-> s, t |-> t, sub |-> sub[s], row |-> NewRow(p)]
    BY <2>1, SessionsAre DEF Enter, OnceInv
  <2>5. Current(k)'
    BY <1>1, <2>2, <2>3, <2>4 DEF Current, BindCard, Loaded, FirstAttempt
  <2>6. Decided
    BY <2>1 DEF Decided, Ask, OnceInv, TypeOK, FreshPayment, Lowest, Taken
  <2>7. QED
    BY <1>1, <2>1, <2>5, <2>6, EnterOnce DEF BindCard
<1>2. ASSUME NEW s \in Subscription, NEW phase \in {"pausing", "resuming", "cancelling"},
             Enter(k, phase, s, None, NoRow), Available(s),
             UNCHANGED <<sub, row, payment, about, acked, posted, billing, retry>>
      PROVE  OnceStep
  <2>1. session'[k] = [phase |-> phase, s |-> s, t |-> None, sub |-> sub[s], row |-> NoRow]
    BY <1>2 DEF Enter, OnceInv, TypeOK
  <2>2. Current(k)'
    BY <2>1 DEF Current, Loaded
  <2>3. QED
    BY <1>2, <2>2, SameOutcomes, EnterOnce
<1>3. ASSUME NEW s \in Subscription, LoadPause(k, s) \/ LoadResume(k, s) \/ LoadCancel(k, s)
      PROVE  OnceStep
  BY <1>2, <1>3 DEF LoadPause, LoadResume, LoadCancel
<1>4. ASSUME NEW t \in Txn, LoadSucceeded(k, t) \/ LoadCanceled(k, t) \/ LoadRefunded(k, t)
      PROVE  OnceStep
  <2>1. PICK phase \in {"succeeded", "canceled", "refunded"} :
          /\ Enter(k, phase, SubOf[t], t, row[t])
          /\ phase = "succeeded" => payment[row[t].pid] \in Taken /\ row[t].status = "pending"
          /\ phase = "canceled" => payment[row[t].pid] = "canceled"
          /\ phase = "refunded" => payment[row[t].pid] = "refunded" /\ row[t].status = "success"
    BY <1>4 DEF LoadSucceeded, LoadCanceled, LoadRefunded
  <2>2. /\ row[t].pid # None /\ Available(SubOf[t])
        /\ UNCHANGED <<sub, row, payment, about, acked, posted, billing, retry>>
    BY <1>4 DEF LoadSucceeded, LoadCanceled, LoadRefunded
  <2>3. session'[k] = [phase |-> phase, s |-> SubOf[t], t |-> t, sub |-> sub[SubOf[t]], row |-> row[t]]
    BY <2>1, SessionsAre DEF Enter, OnceInv
  <2>4. Current(k)'
    BY <2>1, <2>2, <2>3 DEF Current, Loaded
  <2>5. SubOf[t] \in Subscription
    BY BillingAssumption
  <2>6. QED
    BY <2>1, <2>2, <2>4, <2>5, SameOutcomes, EnterOnce
<1>5. QED
  BY <1>1, <1>3, <1>4 DEF Load

-----------------------------------------------------------------------------
\* A request that ends without writing a transaction.
LEMMA LeaveOnce ==
  ASSUME OnceInv, TypeOK', NEW k \in Session, Leave(k),
         UNCHANGED <<row, posted, payment, billing, retry>>
  PROVE  OnceStep
<1>1. Decided /\ Workless
  BY SameOutcomes, SameWork
<1>2. Rows' /\ \A u \in Txn : Dunned(u) /\ Kept(u)
  BY <1>1, RowsStay
<1>3. /\ Current(k)' /\ session'[k].s = None
      /\ \A j \in Session \ {k} : session'[j] = session[j]
  BY Done, SessionsAre DEF OnceInv, Leave
<1>4. \A j \in Session : Current(j)'
  <2> SUFFICES ASSUME NEW j \in Session \ {k} PROVE Current(j)'
    BY <1>3
  <2>1. session[j].phase \in Loaded \cup {"binding"} => Kept(session[j].t)
    BY <1>2 DEF OnceInv, Requests, Current
  <2>2. QED
    BY <1>1, <1>3, <2>1, CurrentStays
<1>5. \A j \in Session : Exclusive(j)'
  BY <1>1, <1>3, ExclusiveStays
<1>6. QED
  BY <1>2, <1>4, <1>5 DEF OnceStep, Requests

\* A request that ends with writing its own transaction.
LEMMA WriteOnce ==
  ASSUME OnceInv, TypeOK', NEW k \in Session, Leave(k),
         session[k].phase \in Loaded \cup {"binding"}, NEW t, t = session[k].t,
         \A u \in Txn \ {t} : row'[u] = row[u] /\ posted'[u] = posted[u],
         RowRight(t)', Dunned(t),
         UNCHANGED <<payment, billing, retry>>
  PROVE  OnceStep
<1>1. Decided /\ Workless
  BY SameOutcomes, SameWork
<1>2. Current(k) /\ Exclusive(k) /\ t \in Txn /\ session[k].s = SubOf[t]
  BY DEF OnceInv, Requests, Current
<1>3. \A u \in Txn \ {t} : Kept(u) /\ Dunned(u)
  BY DEF Kept, Dunned
<1>4. t \notin retry.todo /\ retry.rows[t] = NoRow
  BY <1>2, BillingAssumption DEF Exclusive, RetryWorksOn
<1>5. billing.rows[t] = NoRow
  <2>1. CASE session[k].phase = "binding"
    BY <1>2, <2>1 DEF Current
  <2>2. CASE session[k].phase \in Loaded
    BY <1>2, <2>2 DEF Current, NoRow, OnceInv, Rows, Inserting
  <2>3. QED
    BY <2>1, <2>2
<1>6. ASSUME NEW u \in Txn PROVE RowRight(u)' /\ Inserting(u)' /\ Retrying(u)'
  <2>1. CASE u = t
    BY <1>4, <1>5, <2>1 DEF Inserting, Retrying
  <2>2. CASE u # t
    BY <1>1, <1>3, <2>2, RowStays, InsertStays, RetryStays
  <2>3. QED
    BY <2>1, <2>2
<1>7. /\ Current(k)' /\ session'[k].s = None
      /\ \A j \in Session \ {k} : session'[j] = session[j]
  BY Done, SessionsAre DEF OnceInv, Leave
<1>8. \A j \in Session : Current(j)'
  <2> SUFFICES ASSUME NEW j \in Session \ {k} PROVE Current(j)'
    BY <1>7
  <2>1. session[j].phase \in Loaded \cup {"binding"} => session[j].t \in Txn \ {t}
    BY Apart DEF OnceInv, Requests, Current
  <2>2. QED
    BY <1>1, <1>3, <1>7, <2>1, CurrentStays
<1>9. \A j \in Session : Exclusive(j)'
  BY <1>1, <1>7, ExclusiveStays
<1>10. QED
  BY <1>3, <1>6, <1>8, <1>9 DEF OnceStep, Requests, Rows

LEMMA FinishOnce ==
  ASSUME OnceInv, TypeOK', NEW k \in Session, Finish(k) \/ Rollback(k)
  PROVE  OnceStep
<1> SUFFICES ASSUME NEW t, t = session[k].t PROVE OnceStep
  OBVIOUS
<1>1. TypeOK /\ Current(k) /\ Exclusive(k)
  BY DEF OnceInv, Requests
<1>2. session[k].phase \in Loaded \cup {"binding"} =>
        /\ t \in Txn /\ row[t] \in TxnRow /\ posted[t] \in Int /\ RowRight(t)
  BY <1>1 DEF Current, TypeOK, OnceInv, Rows
<1>3. CASE CommitBind(k)
  <2>1. /\ session[k].phase = "binding" /\ t \in Txn /\ row[t] = NoRow
        /\ FirstAttempt(session[k].row) /\ session[k].row.status = "pending"
    BY <1>1, <1>3 DEF CommitBind, In, Current
  <2>2. row'[t] = session[k].row /\ \A u \in Txn \ {t} : row'[u] = row[u]
    BY <1>1, <1>3, <2>1 DEF CommitBind, TypeOK
  <2>3. RowRight(t)'
    BY <1>2, <1>3, <2>1, <2>2 DEF RowRight, FirstAttempt, CommitBind, NoRow
  <2>4. Dunned(t)
    BY <2>1, <2>2 DEF Dunned, FirstAttempt, NoRow
  <2>5. QED
    BY <1>3, <2>1, <2>2, <2>3, <2>4, WriteOnce DEF CommitBind
<1>4. CASE CommitChange(k)
  BY <1>4, LeaveOnce DEF CommitChange
<1>5. CASE ReadSubscription(k)
  <2>1. session[k].phase = "succeeded" /\ UNCHANGED <<row, payment, posted, billing, retry>>
    BY <1>5 DEF ReadSubscription, In
  <2>2. session'[k] = [phase |-> "posting", s |-> session[k].s, t |-> t, sub |-> sub[session[k].s],
                       row |-> session[k].row]
    BY <1>1, <1>5 DEF ReadSubscription, Enter, TypeOK
  <2>3. \A j \in Session \ {k} : session'[j] = session[j]
    BY <1>1, <1>5 DEF ReadSubscription, Enter, TypeOK
  <2>4. Decided /\ Workless
    BY <2>1, SameOutcomes, SameWork
  <2>5. Rows' /\ \A u \in Txn : Dunned(u) /\ Kept(u)
    BY <2>1, <2>4, RowsStay
  <2>6. Current(k)'
    BY <1>1, <2>1, <2>2 DEF Current, Loaded
  <2>7. \A j \in Session : Current(j)'
    <3> SUFFICES ASSUME NEW j \in Session \ {k} PROVE Current(j)'
      BY <2>6
    <3>1. session[j].phase \in Loaded \cup {"binding"} => Kept(session[j].t)
      BY <2>5 DEF OnceInv, Requests, Current
    <3>2. QED
      BY <2>1, <2>3, <2>4, <3>1, CurrentStays
  <2>8. \A j \in Session : Exclusive(j)'
    BY <2>2, <2>3, <2>4, ExclusiveStays
  <2>9. QED
    BY <2>5, <2>7, <2>8 DEF OnceStep, Requests
<1>6. CASE PostSucceeded(k)
  <2>1. /\ session[k].phase = "posting" /\ t \in Txn /\ row[t].status = "pending"
        /\ row[t].pid # None /\ payment[row[t].pid] \in Taken
    BY <1>1, <1>6 DEF PostSucceeded, In, Current, Loaded
  <2>2. /\ row'[t] = [row[t] EXCEPT !.status = "success"] /\ posted'[t] = posted[t] + 1
        /\ \A u \in Txn \ {t} : row'[u] = row[u] /\ posted'[u] = posted[u]
    BY <1>1, <1>6, <2>1 DEF PostSucceeded, TypeOK
  <2>3. /\ row'[t].status = "success" /\ row'[t].pid = row[t].pid
        /\ row'[t].attempt = row[t].attempt /\ row'[t].retryAt = row[t].retryAt
    BY <1>2, <2>1, <2>2 DEF TxnRow
  <2>4. RowRight(t)'
    BY <1>2, <1>6, <2>1, <2>2, <2>3 DEF RowRight, PostSucceeded, Loaded
  <2>5. Dunned(t)
    BY <2>1, <2>3 DEF Dunned
  <2>6. QED
    BY <1>6, <2>1, <2>2, <2>4, <2>5, WriteOnce DEF PostSucceeded, Loaded
<1>7. CASE PostCanceled(k)
  <2> DEFINE loaded == session[k].row
             status == Col(row[t].status, loaded.status, "failed")
             retryAt == IF loaded.attempt < MaxAttempts THEN "future" ELSE row[t].retryAt
  <2>1. /\ session[k].phase = "canceled" /\ t \in Txn /\ row[t].pid # None
        /\ payment[row[t].pid] = "canceled"
        /\ loaded.status = row[t].status /\ loaded.attempt = row[t].attempt
    BY <1>1, <1>7 DEF PostCanceled, In, Current, Loaded
  <2>2. row[t].status \in {"pending", "failed"}
    BY <1>2, <2>1 DEF RowRight, Taken, TxnRow, TxnStatus, Loaded
  <2>3. status = "failed"
    BY <2>1, <2>2 DEF Col
  <2>4. retryAt # "null" => row[t].attempt < MaxAttempts
    BY <1>2, <2>1 DEF RowRight, Loaded
  <2>5. row' = [row EXCEPT ![t] = [row[t] EXCEPT !.status = status, !.retryAt = retryAt]]
    BY <1>7 DEF PostCanceled
  <2> HIDE DEF status, retryAt
  <2>6. /\ row'[t].status = "failed" /\ row'[t].pid = row[t].pid
        /\ row'[t].attempt = row[t].attempt /\ row'[t].retryAt = retryAt
        /\ \A u \in Txn \ {t} : row'[u] = row[u]
    BY <1>1, <1>2, <2>1, <2>3, <2>5 DEF TypeOK, TxnRow, Loaded
  <2>7. RowRight(t)'
    BY <1>2, <1>7, <2>1, <2>2, <2>4, <2>6 DEF RowRight, PostCanceled, Loaded
  <2>8. Dunned(t)
    BY <2>2, <2>6 DEF Dunned
  <2>9. QED
    BY <1>7, <2>1, <2>6, <2>7, <2>8, WriteOnce DEF PostCanceled, Loaded
<1>8. CASE PostRefunded(k)
  <2>1. /\ session[k].phase = "refunded" /\ t \in Txn /\ row[t].status = "success"
        /\ row[t].pid # None /\ payment[row[t].pid] = "refunded"
    BY <1>1, <1>8 DEF PostRefunded, In, Current, Loaded
  <2>2. /\ row'[t] = [row[t] EXCEPT !.status = "refunded"] /\ posted'[t] = posted[t] - 1
        /\ \A u \in Txn \ {t} : row'[u] = row[u] /\ posted'[u] = posted[u]
    BY <1>1, <1>8, <2>1 DEF PostRefunded, TypeOK
  <2>3. /\ row'[t].status = "refunded" /\ row'[t].pid = row[t].pid
        /\ row'[t].attempt = row[t].attempt /\ row'[t].retryAt = row[t].retryAt
    BY <1>2, <2>1, <2>2 DEF TxnRow, Loaded
  <2>4. RowRight(t)'
    BY <1>2, <1>8, <2>1, <2>2, <2>3 DEF RowRight, PostRefunded, Loaded, Taken
  <2>5. Dunned(t)
    BY <2>1, <2>3 DEF Dunned
  <2>6. QED
    BY <1>8, <2>1, <2>2, <2>4, <2>5, WriteOnce DEF PostRefunded, Loaded
<1>9. CASE Rollback(k)
  BY <1>9, LeaveOnce DEF Rollback
<1>10. QED
  BY <1>3, <1>4, <1>5, <1>6, <1>7, <1>8, <1>9 DEF Finish

-----------------------------------------------------------------------------
\* Steps of the two runs move no session.
LEMMA SessionsStay ==
  ASSUME OnceInv, TypeOK', Decided, Workless, UNCHANGED session,
         \A k \in Session : session[k].phase \in Loaded \cup {"binding"} =>
                              /\ Kept(session[k].t)
                              /\ billing'.rows[session[k].t] = billing.rows[session[k].t]
  PROVE  Requests'
<1>1. \A k \in Session : Current(k)'
  BY CurrentStays
<1>2. \A k \in Session : Exclusive(k)'
  BY ExclusiveStays
<1>3. QED
  BY <1>1, <1>2 DEF Requests

LEMMA OutsideOnce ==
  ASSUME OnceInv, TypeOK', YooKassa \/ Time
  PROVE  OnceStep
<1>1. \A k \in Session : session[k].phase \in Loaded \cup {"binding"} => session[k].t \in Txn
  BY DEF OnceInv, Requests, Current
<1>2. CASE YooKassa
  <2>1. UNCHANGED <<row, posted, billing, retry, session>>
    BY <1>2 DEF YooKassa, Decide, RefundPayment, Ignored
  <2>2. Decided
    <3>1. payment \in [Payment -> PaymentStatus]
      BY DEF OnceInv, TypeOK
    <3>2. PICK q \in Payment : Decide(q) \/ RefundPayment(q) \/ Ignored(q)
      BY <1>2 DEF YooKassa
    <3>3. QED
      BY <3>1, <3>2 DEF Decide, RefundPayment, Ignored, Decided, Taken
  <2>3. Rows' /\ \A u \in Txn : Dunned(u) /\ Kept(u)
    BY <2>1, <2>2, RowsStay
  <2>4. Requests'
    BY <1>1, <2>1, <2>2, <2>3, SameWork, SessionsStay
  <2>5. QED
    BY <2>3, <2>4 DEF OnceStep
<1>3. CASE Time
  <2>1. UNCHANGED <<payment, posted, billing, retry, session>>
    BY <1>3 DEF Time, PeriodEnds, DelayEnds
  <2>2. Decided /\ Workless
    BY <2>1, SameOutcomes, SameWork
  <2>3. ASSUME NEW u \in Txn PROVE Kept(u) /\ Dunned(u) /\ RowRight(u)'
    <3>1. RowRight(u) /\ row[u] \in TxnRow
      BY DEF OnceInv, Rows, TypeOK
    <3>2. \/ row'[u] = row[u]
          \/ row[u].retryAt # "null" /\ row'[u] = [row[u] EXCEPT !.retryAt = "due"]
      BY <1>3 DEF Time, PeriodEnds, DelayEnds, OnceInv, TypeOK
    <3>3. CASE row'[u] = row[u]
      BY <2>1, <2>2, <3>3, RowStays DEF Kept, Dunned
    <3>4. CASE row[u].retryAt # "null" /\ row'[u] = [row[u] EXCEPT !.retryAt = "due"]
      <4>1. /\ row'[u].status = row[u].status /\ row'[u].pid = row[u].pid
            /\ row'[u].attempt = row[u].attempt /\ row[u] # NoRow
        BY <3>1, <3>4 DEF TxnRow, NoRow
      <4>2. RowRight(u)'
        BY <2>1, <3>1, <3>4, <4>1 DEF RowRight
      <4>3. QED
        BY <4>1, <4>2 DEF Kept, Dunned
    <3>5. QED
      BY <3>2, <3>3, <3>4
  <2>4. ASSUME NEW u \in Txn PROVE Inserting(u)' /\ Retrying(u)'
    BY <2>1, <2>3, InsertStays, RetryStays DEF Kept
  <2>5. Requests'
    BY <1>1, <2>1, <2>2, <2>3, SessionsStay
  <2>6. QED
    BY <2>3, <2>4, <2>5 DEF OnceStep, Rows
<1>4. QED
  BY <1>2, <1>3

\* The billing run inserts row r of transaction t.
LEMMA InsertOnce ==
  ASSUME OnceInv, TypeOK', NEW s \in Subscription, NEW t \in FreshTxn(s), NEW r \in TxnRow,
         FirstAttempt(r), Decided, UNCHANGED <<row, posted, retry, session>>,
         \A u \in Txn : billing'.rows[u] = IF u = t THEN r ELSE billing.rows[u]
  PROVE  OnceStep
<1>1. /\ t \in Txn /\ row[t] = NoRow /\ \A k \in Session : session[k].t # t
  BY DEF FreshTxn, Lowest
<1>2. \A u \in Txn : Kept(u) /\ Dunned(u)
  BY DEF Kept, Dunned
<1>3. ASSUME NEW u \in Txn PROVE RowRight(u)' /\ Inserting(u)' /\ Retrying(u)'
  <2>1. RowRight(u)'
    BY RowStays
  <2>2. Retrying(u)'
    BY <1>2, RetryStays
  <2>3. Inserting(u)'
    BY <1>1 DEF Inserting, FirstAttempt, OnceInv, Rows
  <2>4. QED
    BY <2>1, <2>2, <2>3
<1>4. \A k \in Session : session[k].phase \in Loaded \cup {"binding"} => session[k].t \in Txn \ {t}
  BY <1>1 DEF OnceInv, Requests, Current
<1>5. Requests'
  BY <1>2, <1>4, SameWork, SessionsStay
<1>6. QED
  BY <1>2, <1>3, <1>5 DEF OnceStep, Rows

LEMMA ChargeOnce ==
  ASSUME OnceInv, TypeOK', NEW s \in Subscription, Charge(s)
  PROVE  OnceStep
<1>1. UNCHANGED <<row, posted, retry, session>>
  BY DEF Charge
<1>2. PICK t \in FreshTxn(s) :
        \/ /\ billing' = [billing EXCEPT !.todo = @ \ {s}, !.rows[t] = Skipped,
                                         !.skipped = @ \cup {s}]
           /\ UNCHANGED <<payment, about>>
        \/ \E p \in FreshPayment :
             Ask(p, t) /\ (Insert(s, t, NewRow(p)) \/ Insert(s, t, NewRow(None)))
        \/ Insert(s, t, NewRow(None)) /\ UNCHANGED <<payment, about>>
  BY DEF Charge
<1>3. billing \in BillingState
  BY DEF OnceInv, TypeOK
<1>4. ASSUME NEW r, Insert(s, t, r)
      PROVE  \A u \in Txn : billing'.rows[u] = IF u = t THEN r ELSE billing.rows[u]
  BY <1>3, <1>4 DEF Insert, BillingState
<1>5. ASSUME NEW p \in Payment \cup {None} PROVE NewRow(p) \in TxnRow /\ FirstAttempt(NewRow(p))
  BY NewRowType DEF FirstAttempt, NewRow
<1>6. CASE /\ billing' = [billing EXCEPT !.todo = @ \ {s}, !.rows[t] = Skipped,
                                         !.skipped = @ \cup {s}]
           /\ UNCHANGED <<payment, about>>
  <2>1. \A u \in Txn : billing'.rows[u] = IF u = t THEN Skipped ELSE billing.rows[u]
    BY <1>3, <1>6 DEF BillingState
  <2>2. FirstAttempt(Skipped) /\ Skipped \in TxnRow
    BY SkippedType DEF FirstAttempt, Skipped
  <2>3. QED
    BY <1>1, <1>6, <2>1, <2>2, SameOutcomes, InsertOnce
<1>7. ASSUME NEW p \in FreshPayment,
             Ask(p, t) /\ (Insert(s, t, NewRow(p)) \/ Insert(s, t, NewRow(None)))
      PROVE  OnceStep
  <2>1. Decided /\ p \in Payment
    BY <1>7 DEF Decided, Ask, OnceInv, TypeOK, FreshPayment, Lowest, Taken
  <2>2. QED
    BY <1>1, <1>4, <1>5, <1>7, <2>1, InsertOnce
<1>8. CASE Insert(s, t, NewRow(None)) /\ UNCHANGED <<payment, about>>
  BY <1>1, <1>4, <1>5, <1>8, SameOutcomes, InsertOnce
<1>9. QED
  BY <1>2, <1>6, <1>7, <1>8

LEMMA BillingOnce ==
  ASSUME OnceInv, TypeOK', BillingRun \/ BillingAbort
  PROVE  OnceStep
<1>1. \A t \in Txn : NoBilling.rows[t] = NoRow
  BY DEF NoBilling
<1>2. CASE BillingLoad \/ BillingAbort \/ BillingCommit
  <2>1. UNCHANGED <<payment, posted, retry, session>>
    BY <1>2 DEF BillingLoad, BillingAbort, BillingCommit
  <2>2. \A t \in Txn : billing'.rows[t] = NoRow
    <3>1. billing'.rows = NoBilling.rows
      BY <1>2 DEF BillingLoad, BillingAbort, BillingCommit, NoBilling
    <3>2. QED
      BY <1>1, <3>1
  <2>3. Decided /\ Workless
    BY <2>1, SameOutcomes, SameWork
  <2>4. ASSUME NEW t \in Txn, row'[t] # row[t]
        PROVE  row[t] = NoRow /\ row'[t] = billing.rows[t] /\ billing.rows[t] # NoRow
               /\ FirstAttempt(row'[t])
    BY <1>2, <2>4 DEF BillingLoad, BillingAbort, BillingCommit, OnceInv, Rows, Inserting
  <2>5. ASSUME NEW t \in Txn PROVE RowRight(t)' /\ Inserting(t)' /\ Dunned(t)
    <3>1. RowRight(t)
      BY DEF OnceInv, Rows
    <3>2. CASE row'[t] = row[t]
      BY <2>1, <2>2, <2>3, <3>2, RowStays DEF Inserting, Dunned
    <3>3. CASE row'[t] # row[t]
      BY <2>1, <2>2, <2>4, <3>1, <3>3 DEF RowRight, Inserting, Dunned, FirstAttempt, NoRow
    <3>4. QED
      BY <3>2, <3>3
  <2>6. ASSUME NEW t \in Txn PROVE Retrying(t)'
    <3>1. Retrying(t)
      BY DEF OnceInv, Rows
    <3>2. CASE row'[t] = row[t]
      BY <2>1, <3>1, <3>2 DEF Retrying
    <3>3. CASE row'[t] # row[t]
      BY <2>1, <2>4, <3>1, <3>3 DEF Retrying, NoRow
    <3>4. QED
      BY <3>2, <3>3
  <2>7. ASSUME NEW k \in Session, session[k].phase \in Loaded \cup {"binding"}
        PROVE  row'[session[k].t] = row[session[k].t] /\ Current(k)'
    <3>1. Current(k) /\ session[k].t \in Txn
      BY <2>7 DEF OnceInv, Requests, Current
    <3>2. row[session[k].t] = NoRow => session[k].phase = "binding"
      BY <2>7, <3>1 DEF Current, NoRow
    <3>3. row'[session[k].t] = row[session[k].t]
      BY <2>4, <3>1, <3>2 DEF Current
    <3>4. Current(k)'
      BY <2>1, <2>2, <3>1, <3>3 DEF Current, Loaded
    <3>5. QED
      BY <3>3, <3>4
  <2>8. \A k \in Session : Current(k)'
    <3> SUFFICES ASSUME NEW k \in Session, session[k].phase \notin Loaded \cup {"binding"}
                 PROVE  Current(k)'
      BY <2>7
    <3>1. QED
      BY <2>1 DEF Current, Loaded
  <2>9. \A k \in Session : Exclusive(k)'
    BY <2>1, <2>3, ExclusiveStays
  <2>10. QED
    BY <2>5, <2>6, <2>8, <2>9 DEF OnceStep, Rows, Requests
<1>3. QED
  BY <1>2, ChargeOnce DEF BillingRun

-----------------------------------------------------------------------------
LEMMA RetryOneOnce ==
  ASSUME OnceInv, TypeOK', NEW t \in Txn, RetryOne(t)
  PROVE  OnceStep
<1>1. UNCHANGED <<row, posted, billing, session>> /\ t \in retry.todo
  BY DEF RetryOne
<1>2. PICK seen \in SubRow, r \in TxnRow : Update(t, seen, r) /\ Retried(t, r)
  BY RetryOneCases DEF OnceInv
<1>3. /\ retry'.todo = retry.todo \ {t}
      /\ \A u \in Txn : retry'.rows[u] = IF u = t THEN r ELSE retry.rows[u]
  BY <1>2 DEF Update, OnceInv, TypeOK, RetryState
<1>4. row[t].status = "failed" /\ row[t].attempt < MaxAttempts /\ row[t] \in TxnRow
  BY <1>1 DEF OnceInv, Rows, Retrying, TypeOK
<1>5. NextAttempt(r, row[t])
  BY <1>2, <1>4 DEF Retried, Again, NextAttempt, TxnRow
<1>6. Decided
  BY <1>2 DEF Retried, Decided, Ask, OnceInv, TypeOK, FreshPayment, Lowest, Taken
<1>7. Workless
  BY <1>1, <1>3 DEF Workless, RetryWorksOn
<1>8. \A u \in Txn : Kept(u) /\ Dunned(u)
  BY <1>1 DEF Kept, Dunned
<1>9. ASSUME NEW u \in Txn PROVE RowRight(u)' /\ Inserting(u)' /\ Retrying(u)'
  <2>1. RowRight(u)' /\ Inserting(u)'
    BY <1>1, <1>6, RowStays, InsertStays
  <2>2. Retrying(u)'
    BY <1>1, <1>3, <1>4, <1>5 DEF Retrying, OnceInv, Rows
  <2>3. QED
    BY <2>1, <2>2
<1>10. Requests'
  <2>1. \A k \in Session : session[k].phase \in Loaded \cup {"binding"} => session[k].t \in Txn
    BY DEF OnceInv, Requests, Current
  <2>2. QED
    BY <1>1, <1>6, <1>7, <1>8, <2>1, SessionsStay
<1>11. QED
  BY <1>8, <1>9, <1>10 DEF OnceStep, Rows

LEMMA RetryOnce ==
  ASSUME OnceInv, TypeOK', ~Overlap, RetryRun \/ RetryAbort
  PROVE  OnceStep
<1>1. \A t \in Txn : NoRetry.rows[t] = NoRow
  BY DEF NoRetry
<1>2. \A k \in Session : session[k].phase \in Loaded \cup {"binding"} => session[k].t \in Txn
  BY DEF OnceInv, Requests, Current
<1>3. CASE RetryLoad
  <2>1. /\ UNCHANGED <<row, payment, posted, billing, session>>
        /\ retry'.rows = NoRetry.rows /\ retry'.todo = Retriable
        /\ \A t \in Retriable, k \in Session : session[k].s # SubOf[t]
    BY <1>3 DEF RetryLoad, NoRetry
  <2>2. Decided
    BY <2>1, SameOutcomes
  <2>3. \A u \in Txn : Kept(u) /\ Dunned(u)
    BY <2>1 DEF Kept, Dunned
  <2>4. ASSUME NEW u \in Txn PROVE RowRight(u)' /\ Inserting(u)' /\ Retrying(u)'
    <3>1. RowRight(u)' /\ Inserting(u)'
      BY <2>1, <2>2, RowStays, InsertStays
    <3>2. u \in Retriable => row[u].status = "failed" /\ row[u].attempt < MaxAttempts
      BY DEF Retriable, OnceInv, Rows, RowRight
    <3>3. QED
      BY <1>1, <2>1, <3>1, <3>2 DEF Retrying
  <2>5. ASSUME NEW k \in Session PROVE Current(k)' /\ Exclusive(k)'
    <3>1. Current(k)'
      BY <1>2, <2>1, <2>2, <2>3, CurrentStays
    <3>2. session[k].s # None => ~RetryWorksOn(session[k].s)'
      BY <1>1, <2>1 DEF RetryWorksOn
    <3>3. Exclusive(k)'
      BY <2>1, <3>2 DEF Exclusive, OnceInv, Requests, RetryWorksOn
    <3>4. QED
      BY <3>1, <3>3
  <2>6. QED
    BY <2>3, <2>4, <2>5 DEF OnceStep, Rows, Requests
<1>4. CASE RetryCommit \/ RetryAbort
  <2>1. /\ UNCHANGED <<payment, posted, billing, session>>
        /\ retry'.rows = NoRetry.rows /\ retry'.todo = {}
    BY <1>4 DEF RetryCommit, RetryAbort, NoRetry
  <2>2. Decided /\ Workless
    BY <1>1, <2>1, SameOutcomes DEF Workless, RetryWorksOn
  <2>3. ASSUME NEW u \in Txn, row'[u] # row[u]
        PROVE  /\ retry.rows[u] # NoRow /\ row[u].status = "failed" /\ row[u].attempt < MaxAttempts
               /\ NextAttempt(row'[u], row[u])
    BY <1>4, <2>3 DEF RetryCommit, RetryAbort, OnceInv, Rows, Retrying
  <2>4. ASSUME NEW u \in Txn
        PROVE  RowRight(u)' /\ Inserting(u)' /\ Retrying(u)' /\ Dunned(u)
    <3>1. RowRight(u) /\ Inserting(u)
      BY DEF OnceInv, Rows
    <3>2. Retrying(u)'
      BY <1>1, <2>1 DEF Retrying
    <3>3. CASE row'[u] = row[u]
      BY <2>1, <2>2, <3>2, <3>3, RowStays, InsertStays DEF Dunned
    <3>4. CASE row'[u] # row[u]
      <4>1. RowRight(u)'
        BY <2>1, <2>3, <3>1, <3>4 DEF RowRight, NextAttempt
      <4>2. Inserting(u)'
        BY <2>1, <2>3, <3>1, <3>4 DEF Inserting, NoRow
      <4>3. Dunned(u)
        BY <2>3, <3>4 DEF Dunned, NextAttempt
      <4>4. QED
        BY <3>2, <4>1, <4>2, <4>3
    <3>5. QED
      BY <3>3, <3>4
  <2>5. ASSUME NEW k \in Session, session[k].phase \in Loaded \cup {"binding"}
        PROVE  Kept(session[k].t)
    <3>1. session[k].t \in Txn /\ session[k].s = SubOf[session[k].t] /\ Exclusive(k)
      BY <2>5 DEF OnceInv, Requests, Current
    <3>2. session[k].s \in Subscription /\ session[k].s # None
      BY <3>1, BillingAssumption
    <3>3. ~RetryWorksOn(session[k].s)
      BY <3>1, <3>2 DEF Exclusive
    <3>4. retry.rows[session[k].t] = NoRow
      BY <3>1, <3>3 DEF RetryWorksOn
    <3>5. QED
      BY <2>3, <3>1, <3>4 DEF Kept
  <2>6. Requests'
    BY <2>1, <2>2, <2>5, SessionsStay
  <2>7. QED
    BY <2>4, <2>6 DEF OnceStep, Rows
<1>5. QED
  BY <1>3, <1>4, RetryOneOnce DEF RetryRun

LEMMA NextOnce ==
  ASSUME OnceInv, ~Overlap, [Next]_vars
  PROVE  OnceInv' /\ \A t \in Txn : Dunned(t)
<1>1. TypeOK'
  BY NextType DEF OnceInv
<1>2. OnceStep
  <2>1. CASE UNCHANGED vars
    <3>1. UNCHANGED <<row, payment, posted, billing, retry, session>>
      BY <2>1 DEF vars
    <3>2. Decided /\ Rows' /\ \A t \in Txn : Dunned(t) /\ Kept(t)
      BY <3>1, SameOutcomes, RowsStay
    <3>3. \A k \in Session : session[k].phase \in Loaded \cup {"binding"} => session[k].t \in Txn
      BY DEF OnceInv, Requests, Current
    <3>4. Requests'
      BY <1>1, <3>1, <3>2, <3>3, SameWork, SessionsStay
    <3>5. QED
      BY <3>2, <3>4 DEF OnceStep
  <2>2. CASE Next
    BY <1>1, <2>2, LoadOnce, FinishOnce, OutsideOnce, BillingOnce, RetryOnce DEF Next
  <2>3. QED
    BY <2>1, <2>2
<1>3. QED
  BY <1>1, <1>2 DEF OnceInv, OnceStep

LEMMA OnceAlways ==
  ASSUME ~Overlap
  PROVE  Spec => []OnceInv
<1>1. Init => OnceInv
  BY InitOnce
<1>2. OnceInv /\ [Next]_vars => OnceInv'
  BY NextOnce
<1>3. QED
  BY <1>1, <1>2, PTL DEF Spec

\* The totals count a successful charge once, through bind-card, notifications
\* that come twice, retries and refunds, while the requests and retries on one
\* subscription do not overlap.
THEOREM PostedCorrect ==
  ASSUME ~Overlap
  PROVE  Spec => []PostedOnce
<1>1. OnceInv => PostedOnce
  BY DEF OnceInv, Rows, RowRight, PostedOnce
<1>2. QED
  BY <1>1, OnceAlways, PTL

\* Every step of Billing is, for each transaction, a step of the life cycle
\* with bounded attempts, or changes neither its status nor its attempts.
LEMMA StepImplements ==
  ASSUME OnceInv, OnceInv', \A t \in Txn : Dunned(t)
  PROVE  Abstract!Next
<1>1. \A t \in Txn : \/ Abstract!Record(t) \/ Abstract!Settle(t)
                     \/ Abstract!Retry(t) \/ Abstract!Return(t)
                     \/ Abstract!Becomes(t, row[t].status, row[t].attempt)
  BY DEF Dunned, Abstract!Record, Abstract!Settle, Abstract!Retry, Abstract!Return,
         Abstract!Becomes
<1>2. /\ DOMAIN [u \in Txn |-> row'[u].status] = Txn
      /\ DOMAIN [u \in Txn |-> row'[u].attempt] = Txn
  OBVIOUS
<1>3. \A t \in Txn : /\ [u \in Txn |-> row[u].status][t] = row[t].status
                     /\ [u \in Txn |-> row[u].attempt][t] = row[t].attempt
  OBVIOUS
<1>4. QED
  BY <1>1, <1>2, <1>3 DEF Abstract!Next, Abstract!Becomes

\* Billing implements Dunning, while the requests and retries on one
\* subscription do not overlap.
THEOREM DunningCorrect ==
  ASSUME ~Overlap
  PROVE  Spec => ImplementsDunning
<1>1. Init => Abstract!Init
  BY DEF Init, Abstract!Init, NoRow
<1>2. OnceInv /\ [Next]_vars => [Abstract!Next]_(Abstract!vars)
  BY NextOnce, StepImplements
<1>3. QED
  BY <1>1, <1>2, OnceAlways, PTL DEF Spec, ImplementsDunning, Abstract!Spec

=============================================================================
