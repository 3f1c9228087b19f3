--------------------------- MODULE DonationsProof ----------------------------
(***************************************************************************)
(* Safety of Donations for every set of donations, campaigns, users and    *)
(* sessions, every clock bound and batch size, and whether or not sessions *)
(* may overlap on a donation; and the ledger that it implements.           *)
(***************************************************************************)
EXTENDS Donations, BooksProof

USE DEF Donation

LEMMA NoBatchType == NoBatch \in BatchState
  BY DEF NoBatch, BatchState, PaymentStatus

LEMMA NoDailyType == NoDaily \in DailyState
  BY DEF NoDaily, DailyState

LEMMA InitType == Init => TypeOK
<1> SUFFICES ASSUME Init PROVE TypeOK
  OBVIOUS
<1>1. books \in BooksType /\ batch \in BatchState /\ daily \in DailyState /\ unchecked = {}
  BY EmptyBooksType, NoBatchType, NoDailyType DEF Init
<1>2. session \in [Session -> SessionState]
  BY DEF Init, SessionState
<1>3. QED
  BY <1>1, <1>2 DEF Init, TypeOK, DonationStatus, LinkStatus, PaymentStatus, RefundStatus

\* A session's donation, when it has one.
LEMMA SessionType ==
  ASSUME TypeOK, NEW s \in Session, ~In(s, "idle")
  PROVE  session[s].d \in Donation /\ session[s].phase \in Phase
  BY DEF TypeOK, SessionState, In, Idle

\* Opening and closing a session keeps its type.
LEMMA EnterType ==
  ASSUME TypeOK, NEW s \in Session, NEW phase \in Phase, NEW d \in Donation,
         Enter(s, phase, d)
  PROVE  session' \in [Session -> SessionState]
  BY DEF TypeOK, SessionState, Enter

LEMMA LeaveType ==
  ASSUME TypeOK, NEW s \in Session, Leave(s)
  PROVE  session' \in [Session -> SessionState]
  BY DEF TypeOK, SessionState, Leave

LEMMA RequestType ==
  ASSUME TypeOK, NEW s \in Session, Request(s)
  PROVE  TypeOK'
<1>1. ASSUME NEW d \in Donation, BeginCreate(s, d) PROVE TypeOK'
  <2>1. session' \in [Session -> SessionState]
    BY <1>1, EnterType DEF BeginCreate, Phase
  <2>2. QED BY <1>1, <2>1 DEF BeginCreate, TypeOK
<1>2. ASSUME NEW d \in Donation, LoadSucceeded(s, d) \/ LoadCanceled(s, d)
                                 \/ LoadRefunded(s, d) \/ BeginRefund(s, d)
      PROVE  TypeOK'
  <2>1. session' \in [Session -> SessionState]
    BY <1>2, EnterType DEF LoadSucceeded, LoadCanceled, LoadRefunded, BeginRefund, Phase
  <2>2. QED
    BY <1>2, <2>1 DEF LoadSucceeded, LoadCanceled, LoadRefunded, BeginRefund, TypeOK
<1>3. ASSUME CreatePayment(s) PROVE TypeOK'
  <2>1. session[s].d \in Donation
    BY <1>3, SessionType DEF CreatePayment, In
  <2>2. session' \in [Session -> SessionState]
    BY <1>3, <2>1, EnterType DEF CreatePayment, Phase
  <2>3. QED BY <1>3, <2>1, <2>2 DEF CreatePayment, TypeOK, PaymentStatus
<1>4. ASSUME CommitCreate(s) PROVE TypeOK'
  <2>1. session[s].d \in Donation
    BY <1>4, SessionType DEF CommitCreate, In
  <2>2. session' \in [Session -> SessionState]
    BY <1>4, LeaveType DEF CommitCreate
  <2>3. QED BY <1>4, <2>1, <2>2 DEF CommitCreate, TypeOK, DonationStatus, LinkStatus
<1>5. ASSUME PostSucceeded(s) PROVE TypeOK'
  <2>1. session[s].d \in Donation
    BY <1>5, SessionType DEF PostSucceeded, In
  <2>2. session' \in [Session -> SessionState]
    BY <1>5, LeaveType DEF PostSucceeded
  <2>3. books' \in BooksType
    BY <1>5, <2>1, ProcessType DEF PostSucceeded, TypeOK
  <2>4. QED BY <1>5, <2>1, <2>2, <2>3 DEF PostSucceeded, TypeOK, DonationStatus, LinkStatus
<1>6. ASSUME PostCanceled(s) PROVE TypeOK'
  <2>1. session[s].d \in Donation
    BY <1>6, SessionType DEF PostCanceled, In
  <2>2. session' \in [Session -> SessionState]
    BY <1>6, LeaveType DEF PostCanceled
  <2>3. QED BY <1>6, <2>1, <2>2 DEF PostCanceled, TypeOK, DonationStatus
<1>7. ASSUME CreateRefund(s) PROVE TypeOK'
  <2>1. session[s].d \in Donation
    BY <1>7, SessionType DEF CreateRefund, In
  <2>2. session' \in [Session -> SessionState]
    BY <1>7, <2>1, EnterType, LeaveType DEF CreateRefund, Phase
  <2>3. refund' \in [Donation -> RefundStatus]
    BY <1>7, <2>1 DEF CreateRefund, TypeOK, RefundStatus
  <2>4. QED BY <1>7, <2>2, <2>3 DEF CreateRefund, TypeOK
<1>8. ASSUME PostRefund(s) PROVE TypeOK'
  <2>1. session[s].d \in Donation
    BY <1>8, SessionType DEF PostRefund, In
  <2>2. session' \in [Session -> SessionState]
    BY <1>8, LeaveType DEF PostRefund
  <2>3. books' \in BooksType
    BY <1>8, <2>1, ReverseType DEF PostRefund, TypeOK, Remaining
  <2>4. QED BY <1>8, <2>1, <2>2, <2>3 DEF PostRefund, TypeOK, DonationStatus
<1>9. ASSUME Rollback(s) PROVE TypeOK'
  <2>1. session' \in [Session -> SessionState]
    BY <1>9, LeaveType DEF Rollback
  <2>2. QED BY <1>9, <2>1 DEF Rollback, TypeOK
<1>10. QED
  BY <1>1, <1>2, <1>3, <1>4, <1>5, <1>6, <1>7, <1>8, <1>9 DEF Request

LEMMA YooKassaType ==
  ASSUME TypeOK, YooKassa
  PROVE  TypeOK'
<1>1. PICK d \in Donation : Pay(d) \/ CancelPayment(d) \/ RefundOutside(d) \/ SettleRefund(d)
  BY DEF YooKassa
<1>2. payment' \in [Donation -> PaymentStatus] /\ refund' \in [Donation -> RefundStatus]
  BY <1>1 DEF Pay, CancelPayment, RefundOutside, SettleRefund, TypeOK, PaymentStatus,
              RefundStatus
<1>3. QED
  BY <1>1, <1>2 DEF Pay, CancelPayment, RefundOutside, SettleRefund, TypeOK

LEMMA ReconcilePendingType ==
  ASSUME TypeOK, ReconcilePending
  PROVE  TypeOK'
<1>1. ASSUME BatchLoad PROVE TypeOK'
  <2>1. PICK T \in OldestOf(Candidates, BatchSize) :
          batch' = [NoBatch EXCEPT !.on = TRUE, !.start = now, !.todo = T]
    BY <1>1 DEF BatchLoad
  <2>2. T \in SUBSET Donation
    BY DEF OldestOf, Candidates
  <2>3. batch' \in BatchState
    BY <2>1, <2>2, NoBatchType DEF BatchState, TypeOK
  <2>4. QED BY <1>1, <2>3 DEF BatchLoad, TypeOK
<1>2. ASSUME NEW d \in Donation, BatchAsk(d) \/ BatchSkip(d) PROVE TypeOK'
  <2>1. batch' \in BatchState
    <3>1. batch \in BatchState /\ payment[d] \in PaymentStatus
      BY DEF TypeOK
    <3>2. CASE BatchAsk(d)
      BY <3>1, <3>2 DEF BatchAsk, BatchState
    <3>3. CASE BatchSkip(d)
      BY <3>1, <3>3 DEF BatchSkip, BatchState
    <3>4. QED BY <1>2, <3>2, <3>3
  <2>2. QED BY <1>2, <2>1 DEF BatchAsk, BatchSkip, TypeOK
<1>3. ASSUME BatchWrite PROVE TypeOK'
  <2>1. batch.d \in Donation
    BY <1>3 DEF BatchWrite, TypeOK, BatchState
  <2>2. Verdict \in {"none", "success", "failed"}
    BY DEF Verdict
  <2>3. batch' \in BatchState
    BY <1>3, <2>1, <2>2 DEF BatchWrite, BatchState, TypeOK, PaymentStatus
  <2>4. QED BY <1>3, <2>3 DEF BatchWrite, TypeOK
<1>4. ASSUME BatchCommit PROVE TypeOK'
  <2>1. books' \in BooksType
    <3>1. WroteSuccess \in SUBSET Contribution
      BY DEF WroteSuccess
    <3>2. QED BY <1>4, <3>1, ProcessType DEF BatchCommit, TypeOK
  <2>2. status' \in [Donation -> DonationStatus]
    BY <1>4 DEF BatchCommit, TypeOK, BatchState, DonationStatus
  <2>3. link' \in [Donation -> LinkStatus]
    BY <1>4 DEF BatchCommit, TypeOK, LinkStatus
  <2>4. QED BY <1>4, <2>1, <2>2, <2>3, NoBatchType DEF BatchCommit, TypeOK
<1>5. ASSUME BatchAbort PROVE TypeOK'
  BY <1>5, NoBatchType DEF BatchAbort, TypeOK
<1>6. QED
  BY <1>1, <1>2, <1>3, <1>4, <1>5 DEF ReconcilePending

\* A correction writes sums, which are natural numbers.
LEMMA CorrectedType ==
  ASSUME TypeOK, NEW job \in Job, NEW R, NEW S \in SUBSET Donation
  PROVE  Corrected(job, R, S) \in BooksType
<1>1. CASE job = "collected"
  <2>1. [c \in Campaign |-> IF c \in R THEN RealCollected(S, c) ELSE books.collected[c]]
          \in [Campaign -> Nat]
    BY SharesType DEF TypeOK, BooksType, RealCollected
  <2>2. QED BY <1>1, <2>1 DEF Corrected, TypeOK, BooksType
<1>2. CASE job = "donors"
  <2>1. [c \in Campaign |-> IF c \in R THEN Cardinality(DonorsOf(books.donors, c))
                                       ELSE books.donorsCount[c]] \in [Campaign -> Nat]
    <3>1. ASSUME NEW c \in Campaign
          PROVE  Cardinality(DonorsOf(books.donors, c)) \in Nat /\ books.donorsCount[c] \in Nat
      <4>1. Cardinality(DonorsOf(books.donors, c)) \in Nat
        BY DonorsAreUsers, SubsetsAreFinite
      <4>2. QED BY <4>1 DEF TypeOK, BooksType
    <3>2. QED BY <3>1
  <2>2. QED BY <1>2, <2>1 DEF Corrected, TypeOK, BooksType
<1>3. CASE job = "impact"
  <2>1. /\ [u \in User |-> IF u \in R THEN RealDonated(S, u) ELSE books.donated[u]]
             \in [User -> Nat]
        /\ [u \in User |-> IF u \in R THEN RealGifts(S, u) ELSE books.gifts[u]]
             \in [User -> Nat]
    BY SharesType DEF TypeOK, BooksType, RealDonated, RealGifts
  <2>2. QED BY <1>3, <2>1 DEF Corrected, TypeOK, BooksType
<1>4. QED BY <1>1, <1>2, <1>3 DEF Job

LEMMA ScheduledType ==
  ASSUME TypeOK, Scheduled
  PROVE  TypeOK'
<1>1. ASSUME NEW job \in Job, DailyScan(job) PROVE TypeOK'
  <2>1. Differing(job) \in IF job = "impact" THEN SUBSET User ELSE SUBSET Campaign
    BY DEF Differing, Job
  <2>2. Successful \in SUBSET Donation
    BY DEF Successful
  <2>3. daily' \in DailyState
    BY <1>1, <2>1, <2>2 DEF DailyScan, DailyState, Job
  <2>4. QED BY <1>1, <2>3 DEF DailyScan, TypeOK
<1>2. ASSUME DailyWrite PROVE TypeOK'
  <2>1. /\ daily.job \in Job /\ daily.success \in SUBSET Donation
        /\ daily.job = "collected" => daily.rows \in SUBSET Campaign
    BY <1>2 DEF DailyWrite, TypeOK, DailyState, Job
  <2>2. books' \in BooksType
    BY <1>2, <2>1, CorrectedType DEF DailyWrite
  <2>3. unchecked' \subseteq Campaign
    BY <1>2, <2>1 DEF DailyWrite, AtGoal, TypeOK
  <2>4. QED BY <1>2, <2>2, <2>3, NoDailyType DEF DailyWrite, TypeOK
<1>3. ASSUME ExpireLinks PROVE TypeOK'
  <2>1. link' \in [Donation -> LinkStatus]
    BY <1>3 DEF ExpireLinks, TypeOK, LinkStatus
  <2>2. QED BY <1>3, <2>1 DEF ExpireLinks, TypeOK
<1>4. QED BY <1>1, <1>2, <1>3 DEF Scheduled

\* An admin's request sets a campaign's goal, or whether it is active.
LEMMA ManageBooks ==
  ASSUME TypeOK, NEW c \in Campaign, Manage(c)
  PROVE  \E A \in SUBSET Campaign, g \in [Campaign -> Goals] :
           books' = [books EXCEPT !.active = A, !.goal = g]
<1>1. books \in BooksType
  BY DEF TypeOK
<1>2. CASE CloseCampaign(c)
  <2>1. /\ books.active \ {c} \in SUBSET Campaign /\ books.goal \in [Campaign -> Goals]
        /\ books' = [books EXCEPT !.active = books.active \ {c}, !.goal = books.goal]
    BY <1>1, <1>2 DEF CloseCampaign, BooksType
  <2>2. QED
    BY <2>1
<1>3. CASE PublishCampaign(c)
  <2>1. /\ books.active \cup {c} \in SUBSET Campaign /\ books.goal \in [Campaign -> Goals]
        /\ books' = [books EXCEPT !.active = books.active \cup {c}, !.goal = books.goal]
    BY <1>1, <1>3 DEF PublishCampaign, BooksType
  <2>2. QED
    BY <2>1
<1>4. CASE \E goal \in Goals : EditGoal(c, goal)
  <2>1. PICK goal \in Goals : EditGoal(c, goal)
    BY <1>4
  <2> DEFINE g == [books.goal EXCEPT ![c] = goal]
  <2>2. /\ books.active \in SUBSET Campaign /\ g \in [Campaign -> Goals]
        /\ books' = [books EXCEPT !.active = books.active, !.goal = g]
    BY <1>1, <2>1 DEF EditGoal, BooksType
  <2> HIDE DEF g
  <2>3. QED
    BY <2>2
<1>5. QED
  BY <1>2, <1>3, <1>4 DEF Manage

LEMMA ManageType ==
  ASSUME TypeOK, NEW c \in Campaign, Manage(c)
  PROVE  TypeOK'
<1>1. books' \in BooksType
  BY ManageBooks DEF TypeOK, BooksType
<1>2. unchecked' \subseteq Campaign
  BY DEF Manage, CloseCampaign, PublishCampaign, EditGoal, AtGoal, TypeOK
<1>3. QED
  BY <1>1, <1>2 DEF Manage, CloseCampaign, PublishCampaign, EditGoal, TypeOK

LEMMA NextType == TypeOK /\ [Next]_vars => TypeOK'
<1> SUFFICES ASSUME TypeOK, [Next]_vars PROVE TypeOK'
  OBVIOUS
<1>1. CASE Tick
  BY <1>1 DEF Tick, TypeOK
<1>2. CASE \E c \in Campaign : Manage(c)
  BY <1>2, ManageType
<1>3. CASE UNCHANGED vars
  BY <1>3 DEF vars, TypeOK
<1>4. QED
  BY <1>1, <1>2, <1>3, RequestType, YooKassaType, ReconcilePendingType, ScheduledType
  DEF Next

\* Every variable keeps its type, the counters included: no order of the steps
\* drives a counter below zero or past the rows it is about.
THEOREM TypeCorrect == Spec => []TypeOK
<1>1. QED BY InitType, NextType, PTL DEF Spec

-----------------------------------------------------------------------------
(***************************************************************************)
(* donors_count.  With the types it is inductive as it stands: every step  *)
(* leaves the books alone, processes, reverses, corrects, or is an admin's.*)
(***************************************************************************)
\* The five things a step can do to the books.
LEMMA BooksSteps ==
  ASSUME TypeOK, [Next]_vars
  PROVE  \/ books' = books
         \/ \E W \in SUBSET Contribution : books' = Process(books, W)
         \/ \E d \in Contribution, remaining \in BOOLEAN : books' = Reverse(books, d, remaining)
         \/ \E job \in Job, R \in (SUBSET Campaign) \cup (SUBSET User), S \in SUBSET Donation :
              books' = Corrected(job, R, S)
         \/ \E A \in SUBSET Campaign, g \in [Campaign -> Goals] :
              books' = [books EXCEPT !.active = A, !.goal = g]
<1>1. ASSUME NEW s \in Session, Request(s)
      PROVE  \/ books' = books
             \/ \E W \in SUBSET Contribution : books' = Process(books, W)
             \/ \E d \in Contribution, remaining \in BOOLEAN : books' = Reverse(books, d, remaining)
  <2>1. CASE PostSucceeded(s)
    <3>1. session[s].d \in Donation
      BY <2>1, SessionType DEF PostSucceeded, In
    <3>2. QED BY <2>1, <3>1 DEF PostSucceeded
  <2>2. CASE PostRefund(s)
    <3>1. session[s].d \in Donation /\ Remaining(session[s].d) \in BOOLEAN
      BY <2>2, SessionType DEF PostRefund, In, Remaining
    <3>2. QED BY <2>2, <3>1 DEF PostRefund
  <2>3. CASE ~PostSucceeded(s) /\ ~PostRefund(s)
    BY <1>1, <2>3 DEF Request, BeginCreate, LoadSucceeded, LoadCanceled, LoadRefunded,
       BeginRefund, CreatePayment, CommitCreate, PostCanceled, CreateRefund, Rollback
  <2>4. QED BY <2>1, <2>2, <2>3
<1>2. ASSUME YooKassa PROVE books' = books
  BY <1>2 DEF YooKassa, Pay, CancelPayment, RefundOutside, SettleRefund
<1>3. ASSUME ReconcilePending
      PROVE  \/ books' = books
             \/ \E W \in SUBSET Contribution : books' = Process(books, W)
  <2>1. WroteSuccess \in SUBSET Contribution
    BY DEF WroteSuccess
  <2>2. QED
    BY <1>3, <2>1 DEF ReconcilePending, BatchLoad, BatchAsk, BatchSkip, BatchWrite,
       BatchCommit, BatchAbort
<1>4. ASSUME Scheduled
      PROVE  \/ books' = books
             \/ \E job \in Job, R \in (SUBSET Campaign) \cup (SUBSET User), S \in SUBSET Donation :
                  books' = Corrected(job, R, S)
  <2>1. CASE DailyWrite
    <3>1. daily.job \in Job /\ daily.rows \in (SUBSET Campaign) \cup (SUBSET User)
          /\ daily.success \in SUBSET Donation
      BY <2>1 DEF DailyWrite, TypeOK, DailyState, Job
    <3>2. QED BY <2>1, <3>1 DEF DailyWrite
  <2>2. CASE ~DailyWrite
    BY <1>4, <2>2 DEF Scheduled, DailyScan, ExpireLinks
  <2>3. QED BY <2>1, <2>2
<1>5. ASSUME NEW c \in Campaign, Manage(c)
      PROVE  \E A \in SUBSET Campaign, g \in [Campaign -> Goals] :
               books' = [books EXCEPT !.active = A, !.goal = g]
  BY <1>5, ManageBooks
<1>6. CASE Tick \/ UNCHANGED vars
  BY <1>6 DEF Tick, vars
<1>7. QED BY <1>1, <1>2, <1>3, <1>4, <1>5, <1>6 DEF Next

LEMMA CorrectedCount ==
  ASSUME TypeOK, CountMatches(books), NEW job \in Job, NEW R, NEW S
  PROVE  CountMatches(Corrected(job, R, S))
<1>1. CASE job = "collected"
  BY <1>1 DEF Corrected, CountMatches, TypeOK, BooksType
<1>2. CASE job = "donors"
  BY <1>2 DEF Corrected, CountMatches, TypeOK, BooksType
<1>3. CASE job = "impact"
  BY <1>3 DEF Corrected, CountMatches, TypeOK, BooksType
<1>4. QED BY <1>1, <1>2, <1>3 DEF Job

LEMMA NextCount == TypeOK /\ CountMatches(books) /\ [Next]_vars => CountMatches(books)'
<1> SUFFICES ASSUME TypeOK, CountMatches(books), [Next]_vars PROVE CountMatches(books')
  OBVIOUS
<1>1. books \in BooksType
  BY DEF TypeOK
<1>2. ASSUME NEW W \in SUBSET Contribution, books' = Process(books, W)
      PROVE  CountMatches(books')
  BY <1>1, <1>2, ProcessCount
<1>3. ASSUME NEW d \in Contribution, NEW remaining \in BOOLEAN,
             books' = Reverse(books, d, remaining)
      PROVE  CountMatches(books')
  BY <1>1, <1>3, ReverseCount
<1>4. ASSUME NEW A \in SUBSET Campaign, NEW g \in [Campaign -> Goals],
             books' = [books EXCEPT !.active = A, !.goal = g]
      PROVE  CountMatches(books')
  BY <1>1, <1>4 DEF CountMatches, BooksType
<1>5. QED BY <1>2, <1>3, <1>4, BooksSteps, CorrectedCount

\* donors_count is exact at every commit, however often and in whatever order
\* notifications, refunds and batches handle a payment.
THEOREM DonorsCountCorrect == Spec => []DonorsCountExact
<1>1. Init => CountMatches(books)
  BY EmptyBooksCount DEF Init
<1>2. CountMatches(books) => DonorsCountExact
  BY DEF CountMatches, DonorsCountExact
<1>3. QED BY <1>1, <1>2, InitType, NextType, NextCount, PTL DEF Spec

-----------------------------------------------------------------------------
(***************************************************************************)
(* Goals.  Only postings clear a campaign of `unchecked', and they look at *)
(* the goal; a refund only lowers the amount; everything else that brings  *)
(* an active campaign to its goal leaves it unchecked.                     *)
(***************************************************************************)
LEMMA GoalProcess ==
  ASSUME books \in BooksType, GoalClosesCampaign, NEW W \in SUBSET Contribution,
         books' = Process(books, W), unchecked' = unchecked \ {Target[d] : d \in W}
  PROVE  GoalClosesCampaign'
<1>1. /\ \A c \in Campaign : books'.collected[c] = books.collected[c] + SumOf[To(W, c)]
      /\ books'.goal = books.goal
      /\ books'.active = books.active \
           {c \in {Target[d] : d \in W} : GoalReached(books.goal[c], books'.collected[c])}
  <2>1. \A d \in W : Target[d] \in Campaign
    BY ContributionAssumption
  <2>2. QED
    BY <2>1 DEF Process
<1>2. SUFFICES ASSUME NEW c \in books'.active, GoalReached(books'.goal[c], books'.collected[c])
               PROVE  c \in unchecked'
  BY DEF GoalClosesCampaign, AtGoal
<1>3. c \in books.active /\ c \in Campaign /\ c \notin {Target[d] : d \in W}
  BY <1>1, <1>2 DEF BooksType
<1>4. To(W, c) = {}
  BY <1>3 DEF To
<1>5. books'.collected[c] = books.collected[c]
  <2>1. books.collected[c] \in Nat /\ SumOf[To(W, c)] = 0
    BY <1>3, <1>4, SumOfNone DEF BooksType
  <2>2. books'.collected[c] = books.collected[c] + SumOf[To(W, c)]
    BY <1>1, <1>3
  <2>3. QED
    BY <2>1, <2>2
<1>6. QED
  BY <1>1, <1>2, <1>3, <1>5 DEF GoalClosesCampaign, AtGoal

LEMMA GoalReverse ==
  ASSUME books \in BooksType, GoalClosesCampaign, NEW d \in Contribution,
         NEW remaining \in BOOLEAN, books' = Reverse(books, d, remaining), unchecked' = unchecked
  PROVE  GoalClosesCampaign'
<1>1. /\ books'.goal = books.goal /\ books'.active = books.active
      /\ books'.collected = [books.collected EXCEPT ![Target[d]] = Floor(@ - Amount[d])]
  BY DEF Reverse, BooksType
<1>2. SUFFICES ASSUME NEW c \in books.active, GoalReached(books.goal[c], books'.collected[c])
               PROVE  GoalReached(books.goal[c], books.collected[c])
  BY <1>1 DEF GoalClosesCampaign, AtGoal
<1>3. c \in Campaign /\ books.collected[c] \in Nat /\ books.goal[c] \in Nat /\ Amount[d] \in Nat
  BY ContributionAssumption DEF BooksType
<1>4. \/ books'.collected[c] = books.collected[c]
      \/ books'.collected[c] = Floor(books.collected[c] - Amount[d])
  BY <1>1, <1>3 DEF BooksType
<1>5. QED
  BY <1>2, <1>3, <1>4 DEF GoalReached, Floor

LEMMA GoalCorrected ==
  ASSUME TypeOK, GoalClosesCampaign, DailyWrite
  PROVE  GoalClosesCampaign'
<1>1. daily.job \in Job /\ books \in BooksType
  BY DEF DailyWrite, TypeOK, DailyState, Job
<1>2. /\ books'.goal = books.goal /\ books'.active = books.active
      /\ \A c \in Campaign : \/ books'.collected[c] = books.collected[c]
                             \/ daily.job = "collected" /\ c \in daily.rows
  BY <1>1 DEF DailyWrite, Corrected, Job, BooksType
<1>3. \A c \in books.active : c \in Campaign
  BY <1>1 DEF BooksType
<1>4. unchecked' = unchecked \cup (IF daily.job = "collected" THEN AtGoal(books', daily.rows) ELSE {})
  BY DEF DailyWrite
<1>5. QED
  BY <1>2, <1>3, <1>4 DEF GoalClosesCampaign, AtGoal

LEMMA GoalManage ==
  ASSUME TypeOK, GoalClosesCampaign, NEW c \in Campaign, Manage(c)
  PROVE  GoalClosesCampaign'
<1>1. books \in BooksType
  BY DEF TypeOK
<1>2. CASE CloseCampaign(c)
  <2>1. /\ books'.active \subseteq books.active /\ unchecked' = unchecked
        /\ books'.goal = books.goal /\ books'.collected = books.collected
    BY <1>1, <1>2 DEF CloseCampaign, BooksType
  <2>2. QED
    BY <2>1 DEF GoalClosesCampaign, AtGoal
<1>3. CASE PublishCampaign(c)
  <2>1. /\ books'.active = books.active \cup {c} /\ unchecked' = unchecked \cup AtGoal(books', {c})
        /\ books'.goal = books.goal /\ books'.collected = books.collected
    BY <1>1, <1>3 DEF PublishCampaign, BooksType
  <2>2. QED
    BY <2>1 DEF GoalClosesCampaign, AtGoal
<1>4. CASE \E goal \in Goals : EditGoal(c, goal)
  <2>1. /\ books'.active = books.active /\ unchecked' = unchecked \cup AtGoal(books', {c})
        /\ \A k \in Campaign \ {c} : books'.goal[k] = books.goal[k]
        /\ books'.collected = books.collected
    BY <1>1, <1>4 DEF EditGoal, BooksType
  <2>2. \A k \in books.active : k \in Campaign
    BY <1>1 DEF BooksType
  <2>3. QED
    BY <2>1, <2>2 DEF GoalClosesCampaign, AtGoal
<1>5. QED
  BY <1>2, <1>3, <1>4 DEF Manage

LEMMA GoalNext == TypeOK /\ GoalClosesCampaign /\ [Next]_vars => GoalClosesCampaign'
<1> SUFFICES ASSUME TypeOK, GoalClosesCampaign, [Next]_vars PROVE GoalClosesCampaign'
  OBVIOUS
<1>1. books \in BooksType
  BY DEF TypeOK
<1>2. ASSUME UNCHANGED <<books, unchecked>> PROVE GoalClosesCampaign'
  BY <1>2 DEF GoalClosesCampaign, AtGoal
<1>3. ASSUME NEW s \in Session, Request(s) PROVE GoalClosesCampaign'
  <2>1. CASE PostSucceeded(s)
    <3>1. session[s].d \in Donation
      BY <2>1, SessionType DEF PostSucceeded, In
    <3> DEFINE W == {session[s].d}
    <3>2. /\ W \in SUBSET Contribution /\ books' = Process(books, W)
          /\ unchecked' = unchecked \ {Target[d] : d \in W}
      BY <2>1, <3>1 DEF PostSucceeded
    <3> HIDE DEF W
    <3>3. QED
      BY <1>1, <3>2, GoalProcess
  <2>2. CASE PostRefund(s)
    <3>1. session[s].d \in Donation /\ Remaining(session[s].d) \in BOOLEAN
      BY <2>2, SessionType DEF PostRefund, In, Remaining
    <3>2. QED
      BY <1>1, <2>2, <3>1, GoalReverse DEF PostRefund
  <2>3. CASE ~PostSucceeded(s) /\ ~PostRefund(s)
    BY <1>2, <1>3, <2>3 DEF Request, BeginCreate, LoadSucceeded, LoadCanceled, LoadRefunded,
       BeginRefund, CreatePayment, CommitCreate, PostCanceled, CreateRefund, Rollback
  <2>4. QED
    BY <2>1, <2>2, <2>3
<1>4. ASSUME ReconcilePending PROVE GoalClosesCampaign'
  <2>1. WroteSuccess \in SUBSET Contribution
    BY DEF WroteSuccess
  <2>2. CASE BatchCommit
    BY <1>1, <2>1, <2>2, GoalProcess DEF BatchCommit
  <2>3. CASE ~BatchCommit
    BY <1>2, <1>4, <2>3 DEF ReconcilePending, BatchLoad, BatchAsk, BatchSkip, BatchWrite, BatchAbort
  <2>4. QED
    BY <2>2, <2>3
<1>5. ASSUME YooKassa \/ Tick \/ UNCHANGED vars PROVE GoalClosesCampaign'
  BY <1>2, <1>5 DEF YooKassa, Pay, CancelPayment, RefundOutside, SettleRefund, Tick, vars
<1>6. ASSUME Scheduled PROVE GoalClosesCampaign'
  BY <1>2, <1>6, GoalCorrected DEF Scheduled, DailyScan, ExpireLinks
<1>7. QED
  BY <1>3, <1>4, <1>5, <1>6, GoalManage DEF Next

\* A payment closes the campaign whose goal it reaches, however sessions overlap:
\* an active campaign that has collected its goal was published so, given such a
\* goal or corrected to it since the last payment to it was posted.
THEOREM GoalCorrect == Spec => []GoalClosesCampaign
<1>1. Init => GoalClosesCampaign
  <2> SUFFICES ASSUME Init PROVE GoalClosesCampaign
    OBVIOUS
  <2>1. PICK goal \in [Campaign -> Goals] : books = EmptyBooks(goal)
    BY DEF Init
  <2>2. \A c \in Campaign : goal[c] \in Nat /\ books.goal[c] = goal[c] /\ books.collected[c] = 0
    BY <2>1, ContributionAssumption DEF EmptyBooks
  <2>3. \A c \in Campaign : ~GoalReached(books.goal[c], books.collected[c])
    BY <2>2 DEF GoalReached
  <2>4. QED
    BY <2>1, <2>3 DEF GoalClosesCampaign, AtGoal, EmptyBooks
<1>2. QED BY <1>1, InitType, NextType, GoalNext, PTL DEF Spec

-----------------------------------------------------------------------------
(***************************************************************************)
(* Money.  MoneyIsReal and LinkFollowsMoney speak of committed rows; what  *)
(* keeps them are the answers that sessions and the batch carry from their *)
(* first step to their last.                                               *)
(***************************************************************************)
\* YooKassa refunds only what it has received.
RefundedWasPaid == \A d \in Donation : refund[d] # "none" => payment[d] = "succeeded"

\* A row that is being created is no other session's, has no committed row and,
\* until create_payment returns, no payment.
CreationIsExclusive ==
  \A s \in Session :
    session[s].phase \in {"creating", "created"} =>
      /\ status[session[s].d] = "none"
      /\ session[s].phase = "creating" => payment[session[s].d] = "none"
      /\ \A t \in Session : session[t].d = session[s].d => t = s

\* What a session has been told by YooKassa is still true, and its row exists.
SessionsAreRight ==
  \A s \in Session :
    /\ session[s].phase \in {"paid", "canceled", "refunded", "refunding", "refundDone"} =>
         status[session[s].d] # "none"
    /\ session[s].phase \in {"paid", "refunding"} => payment[session[s].d] = "succeeded"
    /\ session[s].phase \in {"refunded", "refundDone"} => refund[session[s].d] = "succeeded"

\* The batch works on committed rows and takes only paid ones for paid.
BatchIsRight ==
  \A d \in Donation :
    /\ (d \in batch.todo \/ batch.d = d \/ batch.wrote[d] # "none") => status[d] # "none"
    /\ batch.d = d /\ batch.answer = "succeeded" => payment[d] = "succeeded"
    /\ batch.wrote[d] = "success" => payment[d] = "succeeded"

MoneyInv ==
  /\ TypeOK
  /\ RefundedWasPaid
  /\ CreationIsExclusive
  /\ SessionsAreRight
  /\ BatchIsRight
  /\ MoneyIsReal
  /\ LinkFollowsMoney

LEMMA MoneyInit == Init => MoneyInv
<1> SUFFICES ASSUME Init PROVE MoneyInv
  OBVIOUS
<1>1. TypeOK
  BY InitType
<1>2. RefundedWasPaid /\ MoneyIsReal
  BY DEF Init, RefundedWasPaid, MoneyIsReal
<1>3. CreationIsExclusive /\ SessionsAreRight
  BY DEF Init, CreationIsExclusive, SessionsAreRight, Idle
<1>4. BatchIsRight
  BY DonationAssumption DEF Init, BatchIsRight, NoBatch
<1>5. LinkFollowsMoney
  BY DonationAssumption DEF Init, LinkFollowsMoney
<1>6. QED BY <1>1, <1>2, <1>3, <1>4, <1>5 DEF MoneyInv

\* A session that opens on a row, having checked what its phase stands for.
LEMMA MoneyEnter ==
  ASSUME MoneyInv, TypeOK', NEW s \in Session, In(s, "idle"), NEW d \in Donation,
         NEW phase \in Phase, Enter(s, phase, d),
         UNCHANGED <<status, link, payment, refund, batch>>,
         phase \in {"creating", "created"} =>
           status[d] = "none" /\ payment[d] = "none" /\ ~Occupied(d),
         phase \notin {"creating", "created"} => status[d] # "none",
         phase \in {"paid", "refunding"} => payment[d] = "succeeded",
         phase \in {"refunded", "refundDone"} => refund[d] = "succeeded"
  PROVE  MoneyInv'
<1> USE DEF MoneyInv
<1>1. \A t \in Session : session'[t] = IF t = s THEN [phase |-> phase, d |-> d] ELSE session[t]
  BY DEF Enter, TypeOK
<1>2. CreationIsExclusive'
  BY <1>1 DEF CreationIsExclusive, Occupied
<1>3. SessionsAreRight'
  BY <1>1 DEF SessionsAreRight
<1>4. RefundedWasPaid' /\ BatchIsRight' /\ MoneyIsReal' /\ LinkFollowsMoney'
  BY DEF RefundedWasPaid, BatchIsRight, MoneyIsReal, LinkFollowsMoney
<1>5. QED BY <1>2, <1>3, <1>4

\* A session that closes, having perhaps moved one committed row on.
LEMMA MoneyClose ==
  ASSUME MoneyInv, TypeOK', NEW s \in Session, Leave(s),
         UNCHANGED <<payment, refund, batch>>,
         \A d \in Donation : status[d] # "none" => status'[d] # "none",
         \A d \in Donation : status[d] = "none" => status'[d] = "none",
         MoneyIsReal', LinkFollowsMoney'
  PROVE  MoneyInv'
<1> USE DEF MoneyInv
<1>1. \A t \in Session : session'[t] = IF t = s THEN Idle ELSE session[t]
  BY DEF Leave, TypeOK
<1>2. CreationIsExclusive'
  <2>1. SUFFICES ASSUME NEW t \in Session, session'[t].phase \in {"creating", "created"}
                 PROVE  /\ status'[session[t].d] = "none"
                        /\ session[t].phase = "creating" => payment[session[t].d] = "none"
                        /\ \A r \in Session : session'[r].d = session[t].d => r = t
    BY <1>1 DEF CreationIsExclusive, Idle
  <2>2. t # s /\ session'[t] = session[t]
    BY <1>1, <2>1 DEF Idle
  <2>3. session[t].d \in Donation
    BY <2>1, <2>2, SessionType DEF In
  <2>4. Idle.d \notin Donation
    BY DonationAssumption DEF Idle
  <2>5. QED BY <1>1, <2>1, <2>2, <2>3, <2>4 DEF CreationIsExclusive
<1>3. SessionsAreRight'
  <2>1. SUFFICES ASSUME NEW t \in Session, session'[t].phase # "idle"
                 PROVE  session'[t] = session[t] /\ session[t].d \in Donation
    BY <1>1 DEF SessionsAreRight, Idle
  <2>2. t # s /\ session'[t] = session[t]
    BY <1>1, <2>1 DEF Idle
  <2>3. QED BY <2>1, <2>2, SessionType DEF In
<1>4. RefundedWasPaid' /\ BatchIsRight'
  BY DEF RefundedWasPaid, BatchIsRight
<1>5. QED BY <1>2, <1>3, <1>4

\* A session that closes and leaves everything as it is.
LEMMA MoneyLeave ==
  ASSUME MoneyInv, TypeOK', NEW s \in Session, Leave(s),
         UNCHANGED <<status, link, payment, refund, batch>>
  PROVE  MoneyInv'
<1>1. MoneyIsReal' /\ LinkFollowsMoney'
  BY DEF MoneyInv, MoneyIsReal, LinkFollowsMoney
<1>2. QED BY <1>1, MoneyClose

LEMMA MoneyRequest ==
  ASSUME MoneyInv, TypeOK', NEW s \in Session, Request(s)
  PROVE  MoneyInv'
<1> USE DEF MoneyInv
<1> DEFINE k == session[s].d
<1>1. ASSUME NEW d \in Donation, BeginCreate(s, d) PROVE MoneyInv'
  BY <1>1, MoneyEnter DEF BeginCreate, Phase
<1>2. ASSUME NEW d \in Donation, LoadSucceeded(s, d) PROVE MoneyInv'
  BY <1>2, MoneyEnter DEF LoadSucceeded, Phase
<1>3. ASSUME NEW d \in Donation, LoadCanceled(s, d) PROVE MoneyInv'
  BY <1>3, MoneyEnter DEF LoadCanceled, Phase
<1>4. ASSUME NEW d \in Donation, LoadRefunded(s, d) PROVE MoneyInv'
  BY <1>4, MoneyEnter DEF LoadRefunded, Phase
<1>5. ASSUME NEW d \in Donation, BeginRefund(s, d) PROVE MoneyInv'
  BY <1>5, MoneyEnter DEF BeginRefund, Phase, MoneyIsReal
<1>6. ASSUME CreatePayment(s) PROVE MoneyInv'
  <2>1. k \in Donation /\ payment[k] = "none" /\ status[k] = "none"
    BY <1>6, SessionType DEF CreatePayment, In, CreationIsExclusive
  <2>2. \A t \in Session : session'[t] = IF t = s THEN [phase |-> "created", d |-> k]
                                                   ELSE session[t]
    BY <1>6 DEF CreatePayment, Enter, TypeOK
  <2>3. \A d \in Donation : payment'[d] = IF d = k THEN "pending" ELSE payment[d]
    BY <1>6, <2>1 DEF CreatePayment, TypeOK
  <2>4. CreationIsExclusive'
    BY <1>6, <2>1, <2>2, <2>3, SessionType DEF CreatePayment, CreationIsExclusive, In
  <2>5. SessionsAreRight'
    BY <1>6, <2>1, <2>2, <2>3, SessionType DEF CreatePayment, SessionsAreRight, In
  <2>6. RefundedWasPaid' /\ BatchIsRight' /\ MoneyIsReal' /\ LinkFollowsMoney'
    BY <1>6, <2>1, <2>3, DonationAssumption
    DEF CreatePayment, RefundedWasPaid, BatchIsRight, MoneyIsReal, LinkFollowsMoney
  <2>7. QED BY <2>4, <2>5, <2>6
<1>7. ASSUME CommitCreate(s) PROVE MoneyInv'
  <2>1. k \in Donation /\ status[k] = "none" /\ \A t \in Session : session[t].d = k => t = s
    BY <1>7, SessionType DEF CommitCreate, In, CreationIsExclusive
  <2>2. \A t \in Session : session'[t] = IF t = s THEN Idle ELSE session[t]
    BY <1>7 DEF CommitCreate, Leave, TypeOK
  <2>3. \A d \in Donation : status'[d] = IF d = k THEN "pending" ELSE status[d]
    BY <1>7, <2>1 DEF CommitCreate, TypeOK
  <2>4. \A d \in Donation : link'[d] = IF d = k /\ k \in PatronLink THEN "pending" ELSE link[d]
    BY <1>7, <2>1 DEF CommitCreate, TypeOK
  <2>5. CreationIsExclusive'
    BY <1>7, <2>1, <2>2, <2>3, SessionType, DonationAssumption
    DEF CommitCreate, CreationIsExclusive, In, Idle
  <2>6. SessionsAreRight'
    BY <1>7, <2>1, <2>2, <2>3, SessionType DEF CommitCreate, SessionsAreRight, In, Idle
  <2>7. RefundedWasPaid' /\ BatchIsRight' /\ MoneyIsReal' /\ LinkFollowsMoney'
    BY <1>7, <2>1, <2>3, <2>4, DonationAssumption
    DEF CommitCreate, RefundedWasPaid, BatchIsRight, MoneyIsReal, LinkFollowsMoney
  <2>8. QED BY <2>5, <2>6, <2>7
<1>8. ASSUME CreateRefund(s) PROVE MoneyInv'
  <2>1. k \in Donation /\ status[k] # "none" /\ payment[k] = "succeeded"
    BY <1>8, SessionType DEF CreateRefund, In, SessionsAreRight
  <2>2. CASE Enter(s, "refundDone", k) /\ refund' = [refund EXCEPT ![k] = "succeeded"]
    <3>1. \A t \in Session : session'[t] = IF t = s THEN [phase |-> "refundDone", d |-> k]
                                                     ELSE session[t]
      BY <2>2 DEF Enter, TypeOK
    <3>2. \A d \in Donation : refund'[d] = IF d = k THEN "succeeded" ELSE refund[d]
      BY <2>1, <2>2 DEF TypeOK
    <3>3. CreationIsExclusive'
      BY <1>8, <2>1, <3>1, SessionType DEF CreateRefund, CreationIsExclusive, In
    <3>4. SessionsAreRight'
      BY <1>8, <2>1, <3>1, <3>2, SessionType DEF CreateRefund, SessionsAreRight, In
    <3>5. RefundedWasPaid' /\ BatchIsRight' /\ MoneyIsReal' /\ LinkFollowsMoney'
      BY <1>8, <2>1, <3>2
      DEF CreateRefund, RefundedWasPaid, BatchIsRight, MoneyIsReal, LinkFollowsMoney
    <3>6. QED BY <3>3, <3>4, <3>5
  <2>3. CASE Leave(s) /\ refund' = [refund EXCEPT ![k] = "pending"]
    <3>1. \A t \in Session : session'[t] = IF t = s THEN Idle ELSE session[t]
      BY <2>3 DEF Leave, TypeOK
    <3>2. refund[k] = "none" /\ \A d \in Donation : refund'[d] = IF d = k THEN "pending" ELSE refund[d]
      BY <1>8, <2>1, <2>3 DEF CreateRefund, TypeOK
    <3>3. CreationIsExclusive'
      BY <1>8, <3>1, SessionType, DonationAssumption
      DEF CreateRefund, CreationIsExclusive, In, Idle
    <3>4. SessionsAreRight'
      BY <1>8, <2>1, <3>1, <3>2, SessionType DEF CreateRefund, SessionsAreRight, In, Idle
    <3>5. RefundedWasPaid' /\ BatchIsRight' /\ MoneyIsReal' /\ LinkFollowsMoney'
      BY <1>8, <2>1, <3>2
      DEF CreateRefund, RefundedWasPaid, BatchIsRight, MoneyIsReal, LinkFollowsMoney
    <3>6. QED BY <3>3, <3>4, <3>5
  <2>4. QED BY <1>8, <2>2, <2>3 DEF CreateRefund
<1>9. ASSUME PostSucceeded(s) PROVE MoneyInv'
  <2>1. k \in Donation /\ payment[k] = "succeeded" /\ status[k] # "none"
    BY <1>9, SessionType DEF PostSucceeded, In, SessionsAreRight
  <2>2. \A d \in Donation : status'[d] = IF d = k THEN "success" ELSE status[d]
    BY <1>9, <2>1 DEF PostSucceeded, TypeOK
  <2>3. \A d \in Donation : link'[d] = IF d = k /\ k \in PatronLink THEN "paid" ELSE link[d]
    BY <1>9, <2>1 DEF PostSucceeded, TypeOK
  <2>4. QED
    BY <1>9, <2>1, <2>2, <2>3, MoneyClose, DonationAssumption
    DEF PostSucceeded, MoneyIsReal, LinkFollowsMoney
<1>10. ASSUME PostCanceled(s) PROVE MoneyInv'
  <2>1. k \in Donation /\ status[k] # "none"
    BY <1>10, SessionType DEF PostCanceled, In, SessionsAreRight
  <2>2. \A d \in Donation : status'[d] = IF d = k THEN "failed" ELSE status[d]
    BY <1>10, <2>1 DEF PostCanceled, TypeOK
  <2>3. QED
    BY <1>10, <2>1, <2>2, MoneyClose, DonationAssumption
    DEF PostCanceled, MoneyIsReal, LinkFollowsMoney
<1>11. ASSUME PostRefund(s) PROVE MoneyInv'
  <2>1. k \in Donation /\ refund[k] = "succeeded" /\ status[k] # "none"
    BY <1>11, SessionType DEF PostRefund, In, SessionsAreRight
  <2>2. \A d \in Donation : status'[d] = IF d = k THEN "refunded" ELSE status[d]
    BY <1>11, <2>1 DEF PostRefund, TypeOK
  <2>3. payment[k] = "succeeded"
    BY <2>1 DEF RefundedWasPaid
  <2>4. QED
    BY <1>11, <2>1, <2>2, <2>3, MoneyClose, DonationAssumption
    DEF PostRefund, MoneyIsReal, LinkFollowsMoney
<1>12. ASSUME Rollback(s) PROVE MoneyInv'
  BY <1>12, MoneyLeave DEF Rollback
<1>13. QED
  BY <1>1, <1>2, <1>3, <1>4, <1>5, <1>6, <1>7, <1>8, <1>9, <1>10, <1>11, <1>12 DEF Request

\* What happens at YooKassa never unsays that a payment or a refund succeeded.
LEMMA MoneyYooKassa ==
  ASSUME MoneyInv, TypeOK', YooKassa
  PROVE  MoneyInv'
<1> USE DEF MoneyInv
<1>1. PICK k \in Donation : Pay(k) \/ CancelPayment(k) \/ RefundOutside(k) \/ SettleRefund(k)
  BY DEF YooKassa
<1>2. UNCHANGED <<status, link, session, batch>>
  BY <1>1 DEF Pay, CancelPayment, RefundOutside, SettleRefund
<1>3. \A d \in Donation :
        /\ payment[d] = "succeeded" => payment'[d] = "succeeded"
        /\ payment[d] = "none" => payment'[d] = "none"
        /\ refund[d] = "succeeded" => refund'[d] = "succeeded"
        /\ refund'[d] # "none" => payment'[d] = "succeeded"
  BY <1>1 DEF Pay, CancelPayment, RefundOutside, SettleRefund, TypeOK, RefundedWasPaid
<1>4. CreationIsExclusive' /\ SessionsAreRight'
  BY <1>2, <1>3, SessionType DEF CreationIsExclusive, SessionsAreRight, In
<1>5. RefundedWasPaid' /\ BatchIsRight' /\ MoneyIsReal' /\ LinkFollowsMoney'
  BY <1>2, <1>3, DonationAssumption
  DEF RefundedWasPaid, BatchIsRight, MoneyIsReal, LinkFollowsMoney
<1>6. QED BY <1>4, <1>5

\* A step of the batch that commits nothing.
LEMMA MoneyBatch ==
  ASSUME MoneyInv, TypeOK', BatchIsRight',
         UNCHANGED <<status, link, payment, refund, session>>
  PROVE  MoneyInv'
  BY DEF MoneyInv, RefundedWasPaid, CreationIsExclusive, SessionsAreRight, MoneyIsReal,
         LinkFollowsMoney

LEMMA MoneyReconcilePending ==
  ASSUME MoneyInv, TypeOK', ReconcilePending
  PROVE  MoneyInv'
<1> USE DEF MoneyInv
<1>1. ASSUME BatchLoad PROVE MoneyInv'
  <2>1. PICK T \in OldestOf(Candidates, BatchSize) :
          batch' = [NoBatch EXCEPT !.on = TRUE, !.start = now, !.todo = T]
    BY <1>1 DEF BatchLoad
  <2>2. \A d \in T : status[d] = "pending"
    BY DEF OldestOf, Candidates
  <2>3. /\ batch'.todo = T /\ batch'.d = NoDonation
        /\ \A d \in Donation : batch'.wrote[d] = "none"
    BY <2>1 DEF NoBatch
  <2>4. BatchIsRight'
    BY <1>1, <2>2, <2>3, DonationAssumption DEF BatchLoad, BatchIsRight
  <2>5. QED BY <1>1, <2>4, MoneyBatch DEF BatchLoad
<1>2. ASSUME NEW k \in Donation, BatchAsk(k) PROVE MoneyInv'
  <2>1. /\ k \in batch.todo
        /\ batch'.todo = batch.todo \ {k} /\ batch'.d = k
        /\ batch'.answer = payment[k] /\ batch'.wrote = batch.wrote
    BY <1>2 DEF BatchAsk, BatchNext, TypeOK, BatchState
  <2>2. BatchIsRight'
    BY <1>2, <2>1 DEF BatchAsk, BatchIsRight
  <2>3. QED BY <1>2, <2>2, MoneyBatch DEF BatchAsk
<1>3. ASSUME NEW k \in Donation, BatchSkip(k) PROVE MoneyInv'
  <2>1. /\ batch'.todo = batch.todo \ {k} /\ batch'.d = batch.d
        /\ batch'.answer = batch.answer /\ batch'.wrote = batch.wrote
    BY <1>3 DEF BatchSkip, TypeOK, BatchState
  <2>2. BatchIsRight'
    BY <1>3, <2>1 DEF BatchSkip, BatchIsRight
  <2>3. QED BY <1>3, <2>2, MoneyBatch DEF BatchSkip
<1>4. ASSUME BatchWrite PROVE MoneyInv'
  <2>1. batch.d \in Donation
    BY <1>4 DEF BatchWrite, TypeOK, BatchState
  <2>2. Verdict = "success" => payment[batch.d] = "succeeded"
    BY <2>1 DEF Verdict, BatchIsRight
  <2>3. /\ batch'.todo = batch.todo /\ batch'.d = NoDonation
        /\ \A d \in Donation : batch'.wrote[d] = IF d = batch.d THEN Verdict ELSE batch.wrote[d]
    BY <1>4, <2>1 DEF BatchWrite, TypeOK, BatchState
  <2>4. BatchIsRight'
    BY <1>4, <2>1, <2>2, <2>3, DonationAssumption DEF BatchWrite, BatchIsRight
  <2>5. QED BY <1>4, <2>4, MoneyBatch DEF BatchWrite
<1>5. ASSUME BatchCommit PROVE MoneyInv'
  <2>1. /\ \A d \in Donation :
             status'[d] = IF batch.wrote[d] # "none" THEN batch.wrote[d] ELSE status[d]
        /\ \A d \in Donation :
             link'[d] = IF batch.wrote[d] = "success" /\ d \in PatronLink THEN "paid" ELSE link[d]
    BY <1>5 DEF BatchCommit, LockedRow, WroteSuccess
  <2>2. \A d \in Donation : status[d] # "none" <=> status'[d] # "none"
    BY <2>1 DEF BatchIsRight
  <2>3. \A d \in Donation : batch.wrote[d] \in {"none", "success", "failed"}
    BY DEF TypeOK, BatchState
  <2>4. MoneyIsReal'
    BY <1>5, <2>1, <2>3 DEF BatchCommit, BatchIsRight, MoneyIsReal
  <2>5. LinkFollowsMoney'
    BY <1>5, <2>1, <2>3, DonationAssumption DEF BatchCommit, BatchIsRight, LinkFollowsMoney
  <2>6. BatchIsRight'
    BY <1>5, DonationAssumption DEF BatchCommit, BatchIsRight, NoBatch
  <2>7. CreationIsExclusive' /\ SessionsAreRight'
    BY <1>5, <2>2, SessionType DEF BatchCommit, CreationIsExclusive, SessionsAreRight, In
  <2>8. RefundedWasPaid'
    BY <1>5 DEF BatchCommit, RefundedWasPaid
  <2>9. QED BY <2>4, <2>5, <2>6, <2>7, <2>8
<1>6. ASSUME BatchAbort PROVE MoneyInv'
  <2>1. BatchIsRight'
    BY <1>6, DonationAssumption DEF BatchAbort, BatchIsRight, NoBatch
  <2>2. QED BY <1>6, <2>1, MoneyBatch DEF BatchAbort
<1>7. QED BY <1>1, <1>2, <1>3, <1>4, <1>5, <1>6 DEF ReconcilePending

\* A step that touches none of it.
LEMMA MoneyApart ==
  ASSUME MoneyInv, TypeOK', UNCHANGED <<status, link, payment, refund, session, batch>>
  PROVE  MoneyInv'
<1>1. BatchIsRight'
  BY DEF MoneyInv, BatchIsRight
<1>2. QED BY <1>1, MoneyBatch

LEMMA MoneyExpire ==
  ASSUME MoneyInv, TypeOK', ExpireLinks
  PROVE  MoneyInv'
<1> USE DEF MoneyInv
<1>1. \A d \in Donation : link'[d] = IF d \in ExpiredLinks THEN "expired" ELSE link[d]
  BY DEF ExpireLinks
<1>2. \A d \in ExpiredLinks : link[d] = "pending"
  BY DEF ExpiredLinks
<1>3. LinkFollowsMoney'
  BY <1>1, <1>2, DonationAssumption DEF ExpireLinks, LinkFollowsMoney
<1>4. QED
  BY <1>3 DEF ExpireLinks, RefundedWasPaid, CreationIsExclusive, SessionsAreRight,
              BatchIsRight, MoneyIsReal

LEMMA MoneyNext == MoneyInv /\ [Next]_vars => MoneyInv'
<1> SUFFICES ASSUME MoneyInv, [Next]_vars PROVE MoneyInv'
  OBVIOUS
<1>1. TypeOK'
  BY NextType DEF MoneyInv
<1>2. CASE Tick
  BY <1>1, <1>2, MoneyApart DEF Tick
<1>3. CASE \E s \in Session : Request(s)
  BY <1>1, <1>3, MoneyRequest
<1>4. CASE YooKassa
  BY <1>1, <1>4, MoneyYooKassa
<1>5. CASE ReconcilePending
  BY <1>1, <1>5, MoneyReconcilePending
<1>6. CASE Scheduled
  BY <1>1, <1>6, MoneyApart, MoneyExpire DEF Scheduled, DailyScan, DailyWrite
<1>7. CASE \E c \in Campaign : Manage(c)
  BY <1>1, <1>7, MoneyApart DEF Manage, CloseCampaign, PublishCampaign, EditGoal
<1>8. CASE UNCHANGED vars
  BY <1>1, <1>8, MoneyApart DEF vars
<1>9. QED BY <1>2, <1>3, <1>4, <1>5, <1>6, <1>7, <1>8 DEF Next

\* No order of late, repeated and polled answers, of rollbacks and of aborted
\* batches makes a donation successful without the money, or refunded without
\* the refund.
THEOREM MoneyCorrect == Spec => []MoneyIsReal
<1>1. MoneyInv => MoneyIsReal
  BY DEF MoneyInv
<1>2. QED BY <1>1, MoneyInit, MoneyNext, PTL DEF Spec

\* A patron's link and its donation agree at every commit, although expiry, the
\* notification and the batch write the link in steps of their own.
THEOREM LinkCorrect == Spec => []LinkFollowsMoney
<1>1. MoneyInv => LinkFollowsMoney
  BY DEF MoneyInv
<1>2. QED BY <1>1, MoneyInit, MoneyNext, PTL DEF Spec

-----------------------------------------------------------------------------
(***************************************************************************)
(* Donor rows.  A step either makes donations successful and inserts their *)
(* rows, or takes a donation out of `success' and looks for another, or    *)
(* does neither.                                                           *)
(***************************************************************************)
\* No donation becomes successful, and no row goes.
LEMMA DonorsApart ==
  ASSUME SupportersAreDonors, Successful' \subseteq Successful,
         books.donors \subseteq books'.donors
  PROVE  SupportersAreDonors'
  BY DEF SupportersAreDonors

\* The donations W become successful and are processed.
LEMMA DonorsProcess ==
  ASSUME SupportersAreDonors, NEW W \in SUBSET Donation,
         Successful' \subseteq Successful \cup W, books' = Process(books, W)
  PROVE  SupportersAreDonors'
<1>1. books'.donors = books.donors \cup {<<Target[d], Owner[d]>> : d \in W}
  BY DEF Process
<1>2. QED BY <1>1 DEF SupportersAreDonors

LEMMA DonorsRequest ==
  ASSUME TypeOK, SupportersAreDonors, NEW s \in Session, Request(s)
  PROVE  SupportersAreDonors'
<1> DEFINE k == session[s].d
<1>1. CASE PostSucceeded(s)
  <2>1. k \in Donation
    BY <1>1, SessionType DEF PostSucceeded, In
  <2>2. Successful' \subseteq Successful \cup {k} /\ {k} \in SUBSET Donation
    BY <1>1, <2>1 DEF PostSucceeded, Successful, TypeOK
  <2>3. QED BY <1>1, <2>2, DonorsProcess DEF PostSucceeded
<1>2. CASE PostRefund(s)
  <2>1. k \in Donation
    BY <1>2, SessionType DEF PostRefund, In
  <2>2. Successful' = Successful \ {k}
    BY <1>2, <2>1 DEF PostRefund, Successful, TypeOK
  <2>3. books'.donors = IF ~Remaining(k) /\ <<Target[k], Owner[k]>> \in books.donors
                        THEN books.donors \ {<<Target[k], Owner[k]>>} ELSE books.donors
    BY <1>2 DEF PostRefund, Reverse, TypeOK, BooksType
  <2>4. \A d \in Successful \ {k} :
          <<Target[d], Owner[d]>> = <<Target[k], Owner[k]>> => Remaining(k)
    BY DEF Remaining, To, From
  <2>5. QED BY <2>2, <2>3, <2>4 DEF SupportersAreDonors
<1>3. CASE ~PostSucceeded(s) /\ ~PostRefund(s)
  <2>1. books' = books
    BY <1>3 DEF Request, BeginCreate, LoadSucceeded, LoadCanceled, LoadRefunded,
       BeginRefund, CreatePayment, CommitCreate, PostCanceled, CreateRefund, Rollback
  <2>2. \A d \in Donation : status'[d] = "success" => status[d] = "success"
    BY <1>3 DEF Request, BeginCreate, LoadSucceeded, LoadCanceled, LoadRefunded,
       BeginRefund, CreatePayment, CommitCreate, PostCanceled, CreateRefund, Rollback, TypeOK
  <2>3. QED BY <2>1, <2>2, DonorsApart DEF Successful
<1>4. QED BY <1>1, <1>2, <1>3

LEMMA DonorsNext == TypeOK /\ SupportersAreDonors /\ [Next]_vars => SupportersAreDonors'
<1> SUFFICES ASSUME TypeOK, SupportersAreDonors, [Next]_vars PROVE SupportersAreDonors'
  OBVIOUS
<1>1. CASE BatchCommit
  <2>1. WroteSuccess \in SUBSET Donation /\ Successful' \subseteq Successful \cup WroteSuccess
    BY <1>1 DEF BatchCommit, Successful, WroteSuccess, LockedRow
  <2>2. QED BY <1>1, <2>1, DonorsProcess DEF BatchCommit
<1>2. CASE ReconcilePending /\ ~BatchCommit
  BY <1>2, DonorsApart
  DEF ReconcilePending, BatchLoad, BatchAsk, BatchSkip, BatchWrite, BatchAbort, Successful
<1>3. CASE \E s \in Session : Request(s)
  BY <1>3, DonorsRequest
<1>4. CASE DailyWrite
  <2>1. daily.job \in Job
    BY <1>4 DEF DailyWrite, TypeOK, DailyState, Job
  <2>2. books'.donors = books.donors
    BY <1>4, <2>1 DEF DailyWrite, Corrected, Job, TypeOK, BooksType
  <2>3. QED BY <1>4, <2>2, DonorsApart DEF DailyWrite, Successful
<1>5. CASE Scheduled /\ ~DailyWrite
  BY <1>5, DonorsApart DEF Scheduled, DailyScan, ExpireLinks, Successful
<1>6. CASE \E c \in Campaign : Manage(c)
  <2>1. books'.donors = books.donors
    BY <1>6, ManageBooks DEF TypeOK, BooksType
  <2>2. UNCHANGED status
    BY <1>6 DEF Manage, CloseCampaign, PublishCampaign, EditGoal
  <2>3. QED BY <2>1, <2>2, DonorsApart DEF Successful
<1>7. CASE Tick \/ YooKassa \/ UNCHANGED vars
  BY <1>7, DonorsApart
  DEF Tick, YooKassa, Pay, CancelPayment, RefundOutside, SettleRefund, vars, Successful
<1>8. QED BY <1>1, <1>2, <1>3, <1>4, <1>5, <1>6, <1>7 DEF Next

\* The owner of a successful donation is a donor of its campaign at every
\* commit: no refund beside a batch or another notification drops the row.
THEOREM SupportersCorrect == Spec => []SupportersAreDonors
<1>1. Init => SupportersAreDonors
  BY DEF Init, SupportersAreDonors, Successful
<1>2. QED BY <1>1, InitType, NextType, DonorsNext, PTL DEF Spec

-----------------------------------------------------------------------------
(***************************************************************************)
(* Without overlap.  A session or the batch has a donation to itself, so   *)
(* what it has loaded is what is there when it writes, the counters never  *)
(* drift, and the daily tasks find nothing to correct.                     *)
(***************************************************************************)
\* The batch has loaded d and not yet committed it.
BatchHas(d) == d \in batch.todo \/ batch.d = d \/ batch.wrote[d] # "none"

Alone ==
  \A s \in Session : session[s].phase # "idle" =>
    /\ ~BatchHas(session[s].d)
    /\ \A r \in Session : session[r].d = session[s].d => r = s

\* What a session, or the batch, has loaded is still so.
Loaded(phase, d) ==
  /\ phase = "paid" => status[d] = "pending"
  /\ phase = "canceled" => payment[d] = "canceled"
  /\ phase \in {"refunded", "refunding", "refundDone"} => status[d] = "success"

SessionsCurrent == \A s \in Session : Loaded(session[s].phase, session[s].d)
BatchCurrent    == \A d \in Donation : BatchHas(d) => status[d] = "pending"

ExactInv ==
  /\ MoneyInv /\ CountMatches(books)
  /\ Alone /\ SessionsCurrent /\ BatchCurrent
  /\ daily.job = "none"
  /\ BooksExact

\* What a step has to do, beside MoneyNext and NextCount.
Works == Alone /\ SessionsCurrent /\ BatchCurrent
Sums  == BooksExact
LedgerStep == [Abstract!Next]_(Abstract!vars)

-----------------------------------------------------------------------------
\* The sums, when donations become successful and are processed, ...
LEMMA SumsProcess ==
  ASSUME books \in BooksType, Sums, NEW W \in SUBSET Donation, W \cap Successful = {},
         Successful' = Successful \cup W, books' = Process(books, W)
  PROVE  /\ Sums'
         /\ \A c \in Campaign : books'.collected[c] = books.collected[c] + SumOf[To(W, c)]
<1>1. /\ \A c \in Campaign : books'.collected[c] = books.collected[c] + SumOf[To(W, c)]
      /\ \A u \in User : books'.donated[u] = books.donated[u] + SumOf[From(W, u)]
      /\ \A u \in User : books'.gifts[u] = books.gifts[u] + Cardinality(From(W, u))
      /\ books'.donors = books.donors \cup {<<Target[d], Owner[d]>> : d \in W}
  <2>1. \A d \in W : Target[d] \in Campaign
    BY ContributionAssumption
  <2>2. QED
    BY <2>1 DEF Process
<1>2. Successful \in SUBSET Contribution /\ Successful \cap W = {}
  BY DEF Successful
<1>3. /\ \A c \in Campaign : SumOf[To(Successful', c)] = SumOf[To(Successful, c)] + SumOf[To(W, c)]
      /\ \A u \in User : SumOf[From(Successful', u)] = SumOf[From(Successful, u)] + SumOf[From(W, u)]
      /\ \A u \in User : Cardinality(From(Successful', u))
                           = Cardinality(From(Successful, u)) + Cardinality(From(W, u))
  <2> PICK S : S = Successful
    OBVIOUS
  <2>1. S \in SUBSET Contribution /\ S \cap W = {} /\ Successful' = S \cup W
    BY <1>2
  <2>2. /\ \A c \in Campaign : SumOf[To(S \cup W, c)] = SumOf[To(S, c)] + SumOf[To(W, c)]
        /\ \A u \in User : SumOf[From(S \cup W, u)] = SumOf[From(S, u)] + SumOf[From(W, u)]
        /\ \A u \in User : Cardinality(From(S \cup W, u))
                             = Cardinality(From(S, u)) + Cardinality(From(W, u))
    BY <2>1, SharesAdd
  <2>3. QED
    BY <2>1, <2>2
<1>4. CollectedExact'
  BY <1>1, <1>3 DEF Sums, BooksExact, CollectedExact, RealCollected
<1>5. ImpactExact'
  BY <1>1, <1>3 DEF Sums, BooksExact, ImpactExact, RealDonated, RealGifts
<1>6. DonorsAreSupporters'
  <2> SUFFICES ASSUME NEW c \in Campaign, NEW u \in User, <<c, u>> \in books'.donors
               PROVE  From(To(Successful', c), u) # {}
    BY DEF DonorsAreSupporters
  <2>1. CASE <<c, u>> \in books.donors
    BY <2>1 DEF Sums, BooksExact, DonorsAreSupporters, From, To
  <2>2. CASE <<c, u>> \notin books.donors
    <3>1. PICK d \in W : Target[d] = c /\ Owner[d] = u
      BY <1>1, <2>2
    <3>2. d \in From(To(Successful', c), u)
      BY <3>1 DEF From, To
    <3>3. QED
      BY <3>2
  <2>3. QED
    BY <2>1, <2>2
<1>7. QED
  BY <1>1, <1>4, <1>5, <1>6 DEF Sums, BooksExact

\* ... when one is refunded and reversed, ...
LEMMA SumsReverse ==
  ASSUME books \in BooksType, Sums, NEW k \in Donation, status[k] = "success",
         Successful' = Successful \ {k}, books' = Reverse(books, k, Remaining(k))
  PROVE  /\ Sums'
         /\ books.collected[Target[k]] - Amount[k] \in Nat
         /\ books'.collected = [books.collected EXCEPT ![Target[k]] = @ - Amount[k]]
<1>1. PICK S \in SUBSET Contribution : S = Successful \ {k}
  BY DEF Successful
<1>2. k \notin S /\ S \cup {k} = Successful /\ Successful' = S /\ Remaining(k) \in BOOLEAN
  BY <1>1 DEF Successful, Remaining
<1>3. SumsOf(books, S \cup {k})
  BY <1>2 DEF SumsOf, Sums, BooksExact, CollectedExact, ImpactExact, RealCollected, RealDonated,
              RealGifts
<1>4. /\ SumsOf(books', S)
      /\ books.collected[Target[k]] - Amount[k] \in Nat
      /\ books'.collected = [books.collected EXCEPT ![Target[k]] = @ - Amount[k]]
  BY <1>2, <1>3, ReverseSums
<1>5. CollectedExact' /\ ImpactExact'
  BY <1>2, <1>4
  DEF SumsOf, CollectedExact, ImpactExact, RealCollected, RealDonated, RealGifts
<1>6. /\ books'.donors = IF ~Remaining(k) /\ <<Target[k], Owner[k]>> \in books.donors
                         THEN books.donors \ {<<Target[k], Owner[k]>>} ELSE books.donors
      /\ books' \in BooksType
  <2>1. books' \in BooksType
    BY <1>2, ReverseType
  <2>2. QED
    BY <2>1 DEF Reverse, BooksType
<1>7. DonorsAreSupporters'
  <2> SUFFICES ASSUME NEW c \in Campaign, NEW u \in User, <<c, u>> \in books'.donors
               PROVE  From(To(S, c), u) # {}
    BY <1>2 DEF DonorsAreSupporters
  <2>1. From(To(Successful, c), u) # {}
    BY <1>6 DEF Sums, BooksExact, DonorsAreSupporters
  <2>2. CASE c = Target[k] /\ u = Owner[k]
    <3>1. Remaining(k)
      BY <1>6, <2>2
    <3>2. QED
      BY <1>1, <2>2, <3>1 DEF Remaining
  <2>3. CASE ~(c = Target[k] /\ u = Owner[k])
    BY <1>1, <2>1, <2>3 DEF From, To
  <2>4. QED
    BY <2>2, <2>3
<1>8. QED
  BY <1>4, <1>5, <1>7 DEF Sums, BooksExact

\* ... and when no donation becomes or ceases to be successful.
LEMMA SumsApart ==
  ASSUME Sums, Successful' = Successful, books'.collected = books.collected,
         books'.donated = books.donated, books'.gifts = books.gifts,
         books'.donors = books.donors
  PROVE  Sums'
  BY DEF Sums, BooksExact, CollectedExact, ImpactExact, DonorsAreSupporters

-----------------------------------------------------------------------------
\* Steps of the ledger.
LEMMA LedgerApart ==
  ASSUME status' = status, books'.collected = books.collected
  PROVE  LedgerStep
  BY DEF LedgerStep, Abstract!vars

LEMMA LedgerResolve ==
  ASSUME NEW S \in SUBSET Donation, NEW F \in SUBSET Donation, S \cap F = {},
         \A d \in S \cup F : status[d] = "pending",
         status' = [d \in Donation |-> IF d \in S THEN "success"
                                       ELSE IF d \in F THEN "failed" ELSE status[d]],
         books'.collected = [c \in Campaign |-> books.collected[c] + SumOf[To(S, c)]]
  PROVE  LedgerStep
<1>1. \A c : Abstract!To(S, c) = To(S, c)
  BY DEF Abstract!To, To
<1>2. Abstract!Resolve(S, F)
  BY <1>1 DEF Abstract!Resolve
<1>3. QED
  BY <1>2 DEF LedgerStep, Abstract!Next

\* Donation d is somebody's who holds nothing else with it.
Held(s, d) == ~BatchHas(d) /\ \A r \in Session : session[r].d = d => r = s

\* What nobody holds may be taken.
LEMMA AvailableHeld ==
  ASSUME ~Overlap, NEW s \in Session, NEW d \in Donation, Available(d) \/ ~Occupied(d)
  PROVE  Held(s, d)
  BY DEF Available, Occupied, Held, BatchHas, LockedRow

\* A session that begins, or goes on, with a donation it holds.
LEMMA EnterWorks ==
  ASSUME TypeOK, Works, NEW s \in Session, NEW d \in Donation, NEW phase \in Phase,
         Enter(s, phase, d), Held(s, d), Loaded(phase, d)',
         UNCHANGED <<status, batch>>,
         \A e \in Donation : payment[e] = "canceled" => payment'[e] = "canceled"
  PROVE  Works'
<1>1. /\ session'[s] = [phase |-> phase, d |-> d]
      /\ \A r \in Session \ {s} : session'[r] = session[r]
  BY DEF Enter, TypeOK
<1>2. \A e : BatchHas(e)' <=> BatchHas(e)
  BY DEF BatchHas
<1>3. Alone'
  BY <1>1, <1>2 DEF Works, Alone, Held
<1>4. ASSUME NEW r \in Session PROVE Loaded(session[r].phase, session[r].d)'
  <2>1. CASE r = s
    BY <1>1, <2>1
  <2>2. CASE r # s /\ session[r].phase = "idle"
    BY <1>1, <2>2 DEF Loaded
  <2>3. CASE r # s /\ session[r].phase # "idle"
    BY <1>1, <2>3, SessionType DEF Loaded, Works, SessionsCurrent, In
  <2>4. QED
    BY <2>1, <2>2, <2>3
<1>5. SessionsCurrent'
  BY <1>4 DEF SessionsCurrent
<1>6. BatchCurrent'
  BY <1>2 DEF Works, BatchCurrent
<1>7. QED
  BY <1>3, <1>5, <1>6 DEF Works

\* A session that ends, having perhaps written its own donation.
LEMMA LeaveWorks ==
  ASSUME TypeOK, Works, NEW s \in Session, session[s].phase # "idle", Leave(s),
         UNCHANGED <<payment, batch>>,
         \A d \in Donation : d # session[s].d => status'[d] = status[d]
  PROVE  Works'
<1>1. session'[s] = Idle /\ \A r \in Session \ {s} : session'[r] = session[r]
  BY DEF Leave, TypeOK
<1>2. \A e : BatchHas(e)' <=> BatchHas(e)
  BY DEF BatchHas
<1>3. ASSUME NEW r \in Session, session'[r].phase # "idle"
      PROVE  /\ r # s /\ session'[r] = session[r]
             /\ session[r].d \in Donation /\ session[r].d # session[s].d
  <2>1. r # s /\ session'[r] = session[r]
    BY <1>1, <1>3 DEF Idle
  <2>2. session[r].d \in Donation
    BY <1>3, <2>1, SessionType DEF In
  <2>3. QED
    BY <1>3, <2>1, <2>2 DEF Works, Alone
<1>4. Alone'
  BY <1>1, <1>2, <1>3, DonationAssumption DEF Works, Alone, Idle
<1>5. SessionsCurrent'
  BY <1>3 DEF Works, SessionsCurrent, Loaded
<1>6. BatchCurrent'
  BY <1>2 DEF Works, BatchCurrent, Alone
<1>7. QED
  BY <1>4, <1>5, <1>6 DEF Works

-----------------------------------------------------------------------------
LEMMA RequestExact ==
  ASSUME ExactInv, ~Overlap, NEW s \in Session, Request(s)
  PROVE  Works' /\ Sums' /\ LedgerStep
<1>1. TypeOK /\ Works /\ Sums /\ books \in BooksType /\ MoneyInv
  BY DEF ExactInv, MoneyInv, Works, Sums, TypeOK
<1>2. ASSUME UNCHANGED <<status, books>>
      PROVE  Sums' /\ LedgerStep
  <2>1. Successful' = Successful
    BY <1>2 DEF Successful
  <2>2. QED
    BY <1>1, <1>2, <2>1, SumsApart, LedgerApart
<1>3. ASSUME NEW d \in Donation, BeginCreate(s, d) PROVE Works' /\ Sums' /\ LedgerStep
  <2>1. Held(s, d)
    BY <1>3, AvailableHeld DEF BeginCreate
  <2>2. Loaded("creating", d)'
    BY DEF Loaded
  <2>3. Works'
    BY <1>1, <1>3, <2>1, <2>2, EnterWorks DEF BeginCreate, Phase
  <2>4. QED
    BY <1>2, <1>3, <2>3 DEF BeginCreate
<1>4. ASSUME NEW d \in Donation,
             LoadSucceeded(s, d) \/ LoadCanceled(s, d) \/ LoadRefunded(s, d) \/ BeginRefund(s, d)
      PROVE  Works' /\ Sums' /\ LedgerStep
  <2>1. UNCHANGED <<status, payment, batch, books>> /\ Available(d)
    BY <1>4 DEF LoadSucceeded, LoadCanceled, LoadRefunded, BeginRefund
  <2>2. PICK phase \in {"paid", "canceled", "refunded", "refunding"} :
          Enter(s, phase, d) /\ Loaded(phase, d)
    BY <1>4 DEF LoadSucceeded, LoadCanceled, LoadRefunded, BeginRefund, Loaded
  <2>3. Held(s, d)
    BY <2>1, AvailableHeld
  <2>4. Loaded(phase, d)'
    BY <2>1, <2>2 DEF Loaded
  <2>5. Works'
    BY <1>1, <2>1, <2>2, <2>3, <2>4, EnterWorks DEF Phase
  <2>6. QED
    BY <1>2, <2>1, <2>5
<1>5. ASSUME session[s].phase # "idle", NEW d, d = session[s].d
      PROVE  d \in Donation /\ Held(s, d) /\ Loaded(session[s].phase, d)
  BY <1>1, <1>5, SessionType DEF Works, Alone, SessionsCurrent, Held, In
<1>6. ASSUME CreatePayment(s) PROVE Works' /\ Sums' /\ LedgerStep
  <2>1. PICK d : d = session[s].d
    OBVIOUS
  <2>2. d \in Donation /\ Held(s, d)
    BY <1>5, <1>6, <2>1 DEF CreatePayment, In
  <2>3. payment[d] = "none"
    BY <1>1, <1>6, <2>1 DEF CreatePayment, In, MoneyInv, CreationIsExclusive
  <2>4. \A e \in Donation : payment[e] = "canceled" => payment'[e] = "canceled"
    BY <1>1, <1>6, <2>1, <2>3 DEF CreatePayment, TypeOK
  <2>5. Loaded("created", d)'
    BY DEF Loaded
  <2>6. Works'
    BY <1>1, <1>6, <2>1, <2>2, <2>4, <2>5, EnterWorks DEF CreatePayment, Phase
  <2>7. QED
    BY <1>2, <1>6, <2>6 DEF CreatePayment
<1>7. ASSUME CommitCreate(s) PROVE Works' /\ Sums' /\ LedgerStep
  <2>1. PICK d : d = session[s].d
    OBVIOUS
  <2>2. d \in Donation /\ status[d] = "none" /\ session[s].phase # "idle"
    BY <1>1, <1>5, <1>7, <2>1 DEF CommitCreate, In, MoneyInv, CreationIsExclusive
  <2>3. status' = [status EXCEPT ![d] = "pending"] /\ UNCHANGED <<payment, batch, books>> /\ Leave(s)
    BY <1>7, <2>1 DEF CommitCreate
  <2>4. \A e \in Donation : e # d => status'[e] = status[e]
    BY <1>1, <2>3 DEF TypeOK
  <2>5. Works'
    BY <1>1, <2>1, <2>2, <2>3, <2>4, LeaveWorks
  <2>6. Successful' = Successful
    BY <1>1, <2>2, <2>3 DEF Successful, TypeOK
  <2>7. Sums'
    BY <1>1, <2>3, <2>6, SumsApart
  <2>8. Abstract!Open(d)
    BY <2>2, <2>3 DEF Abstract!Open
  <2>9. LedgerStep
    BY <2>2, <2>8 DEF LedgerStep, Abstract!Next
  <2>10. QED
    BY <2>5, <2>7, <2>9
<1>8. ASSUME PostSucceeded(s) PROVE Works' /\ Sums' /\ LedgerStep
  <2>1. PICK d : d = session[s].d
    OBVIOUS
  <2>2. d \in Donation /\ status[d] = "pending" /\ session[s].phase # "idle"
    BY <1>5, <1>8, <2>1 DEF PostSucceeded, In, Loaded
  <2>3. /\ status' = [status EXCEPT ![d] = "success"] /\ books' = Process(books, {d})
        /\ UNCHANGED <<payment, batch>> /\ Leave(s)
    BY <1>8, <2>1 DEF PostSucceeded
  <2>4. \A e \in Donation : e # d => status'[e] = status[e]
    BY <1>1, <2>3 DEF TypeOK
  <2>5. Works'
    BY <1>1, <2>1, <2>2, <2>3, <2>4, LeaveWorks
  <2>6. /\ {d} \in SUBSET Donation /\ {d} \cap Successful = {}
        /\ Successful' = Successful \cup {d}
    BY <1>1, <2>2, <2>3 DEF Successful, TypeOK
  <2>7. Sums'
    BY <1>1, <2>3, <2>6, SumsProcess
  <2>8. books'.collected = [c \in Campaign |-> books.collected[c] + SumOf[To({d}, c)]]
    BY <2>3 DEF Process
  <2>9. status' = [e \in Donation |-> IF e \in {d} THEN "success"
                                      ELSE IF e \in {} THEN "failed" ELSE status[e]]
    BY <1>1, <2>2, <2>3 DEF TypeOK
  <2>10. LedgerStep
    <3>1. \A e \in {d} \cup {} : status[e] = "pending"
      BY <2>2
    <3>2. {} \in SUBSET Donation /\ {d} \cap {} = {}
      OBVIOUS
    <3>3. QED
      BY <2>6, <2>8, <2>9, <3>1, <3>2, LedgerResolve
  <2>11. QED
    BY <2>5, <2>7, <2>10
<1>9. ASSUME PostCanceled(s) PROVE Works' /\ Sums' /\ LedgerStep
  <2>1. PICK d : d = session[s].d
    OBVIOUS
  <2>2. d \in Donation /\ payment[d] = "canceled" /\ session[s].phase # "idle"
    BY <1>5, <1>9, <2>1 DEF PostCanceled, In, Loaded
  <2>3. status[d] \in {"pending", "failed"}
    BY <1>1, <1>9, <2>1, <2>2
    DEF PostCanceled, In, MoneyInv, MoneyIsReal, SessionsAreRight, TypeOK, DonationStatus
  <2>4. /\ status' = [status EXCEPT ![d] = "failed"]
        /\ UNCHANGED <<payment, batch, books>> /\ Leave(s)
    BY <1>9, <2>1 DEF PostCanceled
  <2>5. \A e \in Donation : e # d => status'[e] = status[e]
    BY <1>1, <2>4 DEF TypeOK
  <2>6. Works'
    BY <1>1, <2>1, <2>2, <2>4, <2>5, LeaveWorks
  <2>7. Successful' = Successful
    BY <1>1, <2>3, <2>4 DEF Successful, TypeOK
  <2>8. Sums'
    BY <1>1, <2>4, <2>7, SumsApart
  <2>9. LedgerStep
    <3>1. CASE status[d] = "failed"
      <4>1. status' = status
        BY <1>1, <2>2, <2>4, <3>1 DEF TypeOK
      <4>2. QED
        BY <2>4, <4>1, LedgerApart
    <3>2. CASE status[d] = "pending"
      <4>1. status' = [e \in Donation |-> IF e \in {} THEN "success"
                                          ELSE IF e \in {d} THEN "failed" ELSE status[e]]
        BY <1>1, <2>2, <2>4 DEF TypeOK
      <4>2. \A c : To({}, c) = {}
        BY DEF To
      <4>3. \A c \in Campaign : books.collected[c] \in Nat
        BY <1>1 DEF BooksType
      <4>4. books'.collected = [c \in Campaign |-> books.collected[c] + SumOf[To({}, c)]]
        <5>1. \A c \in Campaign : books.collected[c] + SumOf[To({}, c)] = books.collected[c]
          BY <4>2, <4>3, SumOfNone
        <5>2. books.collected = [c \in Campaign |-> books.collected[c]]
          BY <1>1 DEF BooksType
        <5>3. QED
          BY <2>4, <5>1, <5>2
      <4>5. /\ {} \in SUBSET Donation /\ {d} \in SUBSET Donation /\ {} \cap {d} = {}
            /\ \A e \in {} \cup {d} : status[e] = "pending"
        BY <2>2, <3>2
      <4>6. QED
        BY <4>1, <4>4, <4>5, LedgerResolve
    <3>3. QED
      BY <2>3, <3>1, <3>2
  <2>10. QED
    BY <2>6, <2>8, <2>9
<1>10. ASSUME CreateRefund(s) PROVE Works' /\ Sums' /\ LedgerStep
  <2>1. PICK d : d = session[s].d
    OBVIOUS
  <2>2. /\ d \in Donation /\ Held(s, d) /\ status[d] = "success" /\ session[s].phase # "idle"
    BY <1>5, <1>10, <2>1 DEF CreateRefund, In, Loaded
  <2>3. UNCHANGED <<status, payment, batch, books>> /\ (Enter(s, "refundDone", d) \/ Leave(s))
    BY <1>10, <2>1 DEF CreateRefund
  <2>4. Loaded("refundDone", d)'
    BY <2>2, <2>3 DEF Loaded
  <2>5. CASE Enter(s, "refundDone", d)
    <3>1. Works'
      BY <1>1, <2>2, <2>3, <2>4, <2>5, EnterWorks DEF Phase
    <3>2. QED
      BY <1>2, <2>3, <3>1
  <2>6. CASE Leave(s)
    <3>1. Works'
      BY <1>1, <2>2, <2>3, <2>6, LeaveWorks
    <3>2. QED
      BY <1>2, <2>3, <3>1
  <2>7. QED
    BY <2>3, <2>5, <2>6
<1>11. ASSUME PostRefund(s) PROVE Works' /\ Sums' /\ LedgerStep
  <2>1. PICK d : d = session[s].d
    OBVIOUS
  <2>2. d \in Donation /\ status[d] = "success" /\ session[s].phase # "idle"
    BY <1>5, <1>11, <2>1 DEF PostRefund, Loaded
  <2>3. /\ status' = [status EXCEPT ![d] = "refunded"] /\ books' = Reverse(books, d, Remaining(d))
        /\ UNCHANGED <<payment, batch>> /\ Leave(s)
    BY <1>11, <2>1 DEF PostRefund
  <2>4. \A e \in Donation : e # d => status'[e] = status[e]
    BY <1>1, <2>3 DEF TypeOK
  <2>5. Works'
    BY <1>1, <2>1, <2>2, <2>3, <2>4, LeaveWorks
  <2>6. Successful' = Successful \ {d}
    BY <1>1, <2>2, <2>3 DEF Successful, TypeOK
  <2>7. /\ Sums'
        /\ books'.collected = [books.collected EXCEPT ![Target[d]] = @ - Amount[d]]
    BY <1>1, <2>2, <2>3, <2>6, SumsReverse
  <2>8. Abstract!Return(d)
    BY <2>2, <2>3, <2>7 DEF Abstract!Return
  <2>9. LedgerStep
    BY <2>2, <2>8 DEF LedgerStep, Abstract!Next
  <2>10. QED
    BY <2>5, <2>7, <2>9
<1>12. ASSUME Rollback(s) PROVE Works' /\ Sums' /\ LedgerStep
  <2>1. UNCHANGED <<status, payment, batch, books>> /\ Leave(s) /\ session[s].phase # "idle"
    BY <1>12 DEF Rollback, In
  <2>2. Works'
    BY <1>1, <2>1, LeaveWorks
  <2>3. QED
    BY <1>2, <2>1, <2>2
<1>13. QED
  BY <1>3, <1>4, <1>6, <1>7, <1>8, <1>9, <1>10, <1>11, <1>12 DEF Request

-----------------------------------------------------------------------------
\* A step of the batch that commits nothing: it works on what it has worked on,
\* or on what nobody works on.
LEMMA BatchWorks ==
  ASSUME TypeOK, Works, UNCHANGED <<status, payment, session>>,
         \A d \in Donation :
           BatchHas(d)' => BatchHas(d) \/ (status[d] = "pending" /\ ~Occupied(d))
  PROVE  Works'
<1>1. ASSUME NEW s \in Session, session[s].phase # "idle"
      PROVE  session[s].d \in Donation /\ Occupied(session[s].d) /\ ~BatchHas(session[s].d)
  <2>1. session[s].d \in Donation
    BY <1>1, SessionType DEF In
  <2>2. QED
    BY <1>1, <2>1 DEF Occupied, Works, Alone
<1>2. ASSUME NEW s \in Session, session[s].phase # "idle" PROVE ~BatchHas(session[s].d)'
  <2> PICK d \in Donation : d = session[s].d
    BY <1>1, <1>2
  <2>1. ~BatchHas(d)'
    BY <1>1, <1>2
  <2>2. session'[s].d = d
    OBVIOUS
  <2>3. QED
    BY <2>1, <2>2 DEF BatchHas
<1>3. Alone'
  BY <1>2 DEF Works, Alone
<1>4. SessionsCurrent'
  BY DEF Works, SessionsCurrent, Loaded
<1>5. BatchCurrent'
  BY DEF Works, BatchCurrent
<1>6. QED
  BY <1>3, <1>4, <1>5 DEF Works

LEMMA ReconcilePendingExact ==
  ASSUME ExactInv, ~Overlap, ReconcilePending
  PROVE  Works' /\ Sums' /\ LedgerStep
<1>1. TypeOK /\ Works /\ Sums /\ books \in BooksType /\ MoneyInv
  BY DEF ExactInv, MoneyInv, Works, Sums, TypeOK
<1>2. ASSUME UNCHANGED <<status, payment, session, books>>,
             \A d \in Donation :
               BatchHas(d)' => BatchHas(d) \/ (status[d] = "pending" /\ ~Occupied(d))
      PROVE  Works' /\ Sums' /\ LedgerStep
  <2>1. Successful' = Successful
    BY <1>2 DEF Successful
  <2>2. Sums'
    BY <1>1, <1>2, <2>1, SumsApart
  <2>3. LedgerStep
    BY <1>2, LedgerApart
  <2>4. QED
    BY <1>1, <1>2, <2>2, <2>3, BatchWorks
<1>3. \A d \in Donation : NoBatch.wrote[d] = "none" /\ NoBatch.d # d /\ d \notin NoBatch.todo
  BY DonationAssumption DEF NoBatch
<1>4. ASSUME BatchLoad PROVE Works' /\ Sums' /\ LedgerStep
  <2>1. PICK T \in OldestOf(Candidates, BatchSize) :
          /\ \A d \in T : Available(d)
          /\ batch' = [NoBatch EXCEPT !.on = TRUE, !.start = now, !.todo = T]
    BY <1>4 DEF BatchLoad
  <2>2. batch'.todo = T /\ batch'.d = NoBatch.d /\ batch'.wrote = NoBatch.wrote
    BY <2>1 DEF NoBatch
  <2>3. \A d \in T : status[d] = "pending" /\ ~Occupied(d)
    BY <2>1 DEF OldestOf, Candidates, Available
  <2>4. \A d \in Donation : BatchHas(d)' => d \in T
    BY <1>3, <2>2 DEF BatchHas
  <2>5. UNCHANGED <<status, payment, session, books>>
    BY <1>4 DEF BatchLoad
  <2>6. QED
    BY <1>2, <2>3, <2>4, <2>5
<1>5. ASSUME NEW k \in Donation, BatchAsk(k) \/ BatchSkip(k) PROVE Works' /\ Sums' /\ LedgerStep
  <2>1. /\ UNCHANGED <<status, payment, session, books>> /\ k \in batch.todo
        /\ batch'.todo \subseteq batch.todo /\ batch'.wrote = batch.wrote
        /\ batch'.d = k \/ batch'.d = batch.d
    BY <1>1, <1>5 DEF BatchAsk, BatchSkip, BatchNext, TypeOK, BatchState
  <2>2. \A d \in Donation : BatchHas(d)' => BatchHas(d)
    BY <2>1 DEF BatchHas
  <2>3. QED
    BY <1>2, <2>1, <2>2
<1>6. ASSUME BatchWrite PROVE Works' /\ Sums' /\ LedgerStep
  <2>1. /\ UNCHANGED <<status, payment, session, books>>
        /\ batch'.todo = batch.todo /\ batch'.d = NoDonation
        /\ \A d \in Donation : d # batch.d => batch'.wrote[d] = batch.wrote[d]
    BY <1>1, <1>6 DEF BatchWrite, TypeOK, BatchState
  <2>2. \A d \in Donation : BatchHas(d)' => BatchHas(d)
    BY <2>1, DonationAssumption DEF BatchHas
  <2>3. QED
    BY <1>2, <2>1, <2>2
<1>7. ASSUME BatchAbort PROVE Works' /\ Sums' /\ LedgerStep
  <2>1. UNCHANGED <<status, payment, session, books>> /\ batch' = NoBatch
    BY <1>7 DEF BatchAbort
  <2>2. \A d \in Donation : ~BatchHas(d)'
    BY <1>3, <2>1 DEF BatchHas
  <2>3. QED
    BY <1>2, <2>1, <2>2
<1>8. ASSUME BatchCommit PROVE Works' /\ Sums' /\ LedgerStep
  <2>1. PICK W \in SUBSET Donation : W = WroteSuccess
    BY DEF WroteSuccess
  <2>2. PICK F \in SUBSET Donation : F = {d \in Donation : batch.wrote[d] = "failed"}
    OBVIOUS
  <2>3. /\ \A d \in Donation : d \in W <=> batch.wrote[d] = "success"
        /\ \A d \in Donation : d \in F <=> batch.wrote[d] = "failed"
        /\ \A d \in Donation : batch.wrote[d] \in {"none", "success", "failed"}
    BY <1>1, <2>1, <2>2 DEF WroteSuccess, TypeOK, BatchState
  <2>4. /\ W \cap F = {}
        /\ \A d \in W \cup F : status[d] = "pending"
    BY <1>1, <2>3 DEF Works, BatchCurrent, BatchHas
  <2>5. /\ status' = [d \in Donation |-> IF d \in W THEN "success"
                                         ELSE IF d \in F THEN "failed" ELSE status[d]]
        /\ books' = Process(books, W) /\ batch' = NoBatch
        /\ UNCHANGED <<payment, session>>
    BY <1>8, <2>1, <2>3 DEF BatchCommit, LockedRow
  <2>6. W \cap Successful = {} /\ Successful' = Successful \cup W
    BY <2>4, <2>5 DEF Successful
  <2>7. Sums'
    BY <1>1, <2>5, <2>6, SumsProcess
  <2>8. books'.collected = [c \in Campaign |-> books.collected[c] + SumOf[To(W, c)]]
    BY <2>5 DEF Process
  <2>9. LedgerStep
    BY <2>4, <2>5, <2>8, LedgerResolve
  <2>10. \A d \in Donation : ~BatchHas(d)'
    BY <1>3, <2>5 DEF BatchHas
  <2>11. ASSUME NEW s \in Session, session[s].phase # "idle", NEW d, d = session[s].d
         PROVE  d \in Donation /\ status'[d] = status[d]
    <3>1. d \in Donation
      BY <1>1, <2>11, SessionType DEF In
    <3>2. batch.wrote[d] = "none"
      BY <1>1, <2>11 DEF Works, Alone, BatchHas
    <3>3. QED
      BY <2>3, <2>5, <3>1, <3>2
  <2>12. Alone'
    <3> SUFFICES ASSUME NEW s \in Session, session[s].phase # "idle"
                 PROVE  /\ ~BatchHas(session[s].d)'
                        /\ \A r \in Session : session[r].d = session[s].d => r = s
      BY <2>5 DEF Alone
    <3> PICK d : d = session[s].d
      OBVIOUS
    <3>1. session'[s].d = d /\ ~BatchHas(d)'
      BY <2>5, <2>10, <2>11
    <3>2. ~BatchHas(session[s].d)'
      BY <3>1 DEF BatchHas
    <3>3. QED
      BY <1>1, <3>2 DEF Works, Alone
  <2>13. SessionsCurrent'
    <3> SUFFICES ASSUME NEW s \in Session PROVE Loaded(session[s].phase, session[s].d)'
      BY DEF SessionsCurrent
    <3>1. CASE session[s].phase = "idle"
      BY <2>5, <3>1 DEF Loaded
    <3>2. CASE session[s].phase # "idle"
      BY <1>1, <2>5, <2>11, <3>2 DEF Works, SessionsCurrent, Loaded
    <3>3. QED
      BY <3>1, <3>2
  <2>14. BatchCurrent'
    BY <2>10 DEF BatchCurrent
  <2>15. QED
    BY <2>7, <2>9, <2>12, <2>13, <2>14 DEF Works
<1>9. QED
  BY <1>4, <1>5, <1>6, <1>7, <1>8 DEF ReconcilePending

-----------------------------------------------------------------------------
\* A step that leaves sessions, batch and rows alone, and keeps a canceled
\* payment canceled, keeps what they have loaded current.
LEMMA SameWorks ==
  ASSUME TypeOK, Works, UNCHANGED <<status, session, batch>>,
         \A d \in Donation : payment[d] = "canceled" => payment'[d] = "canceled"
  PROVE  Works'
<1>1. Alone' /\ BatchCurrent'
  BY DEF Works, Alone, BatchCurrent, BatchHas
<1>2. ASSUME NEW s \in Session PROVE Loaded(session[s].phase, session[s].d)'
  <2>1. CASE session[s].phase = "idle"
    BY <2>1 DEF Loaded
  <2>2. CASE session[s].phase # "idle"
    BY <2>2, SessionType DEF Loaded, Works, SessionsCurrent, In
  <2>3. QED
    BY <2>1, <2>2
<1>3. QED
  BY <1>1, <1>2 DEF Works, SessionsCurrent

\* With exact counters the daily tasks find no difference.
LEMMA NothingDiffers ==
  ASSUME ExactInv, NEW job \in Job
  PROVE  Differing(job) = {}
<1>1. CASE job = "collected"
  BY <1>1 DEF Differing, ExactInv, BooksExact, CollectedExact
<1>2. CASE job = "donors"
  BY <1>2 DEF Differing, ExactInv, CountMatches
<1>3. CASE job = "impact"
  BY <1>3 DEF Differing, ExactInv, BooksExact, ImpactExact
<1>4. QED
  BY <1>1, <1>2, <1>3 DEF Job

LEMMA OutsideExact ==
  ASSUME ExactInv, UNCHANGED <<status, session, batch>>,
         \A d \in Donation : payment[d] = "canceled" => payment'[d] = "canceled",
         UNCHANGED books \/ \E c \in Campaign : Manage(c)
  PROVE  Works' /\ Sums' /\ LedgerStep
<1>1. TypeOK /\ Works /\ Sums /\ books \in BooksType
  BY DEF ExactInv, MoneyInv, Works, Sums, TypeOK
<1>2. Works'
  BY <1>1, SameWorks
<1>3. Successful' = Successful
  BY DEF Successful
<1>4. /\ books'.collected = books.collected /\ books'.donated = books.donated
      /\ books'.gifts = books.gifts /\ books'.donors = books.donors
  BY <1>1, ManageBooks DEF BooksType
<1>5. Sums'
  BY <1>1, <1>3, <1>4, SumsApart
<1>6. LedgerStep
  BY <1>4, LedgerApart
<1>7. QED
  BY <1>2, <1>5, <1>6

LEMMA ExactInit == Init => ExactInv /\ Abstract!Init
<1> SUFFICES ASSUME Init PROVE ExactInv /\ Abstract!Init
  OBVIOUS
<1>1. MoneyInv /\ TypeOK
  BY MoneyInit, InitType
<1>2. PICK goal \in [Campaign -> Goals] : books = EmptyBooks(goal)
  BY DEF Init
<1>3. /\ CountMatches(books) /\ daily.job = "none"
      /\ \A s \in Session : session[s].phase = "idle"
      /\ \A d \in Donation : ~BatchHas(d)
  BY <1>2, EmptyBooksCount, DonationAssumption DEF Init, Idle, NoBatch, NoDaily, BatchHas
<1>4. Alone /\ SessionsCurrent /\ BatchCurrent
  BY <1>3 DEF Alone, SessionsCurrent, BatchCurrent, Loaded
<1>5. Successful = {}
  BY DEF Init, Successful
<1>6. /\ \A c \in Campaign : To({}, c) = {}
      /\ \A u \in User : From({}, u) = {}
      /\ SumOf[{}] = 0 /\ Cardinality({}) = 0
  BY SumOfNone, FS_EmptySet DEF To, From
<1>7. BooksExact
  BY <1>2, <1>5, <1>6
  DEF BooksExact, CollectedExact, ImpactExact, DonorsAreSupporters, RealCollected, RealDonated,
      RealGifts, EmptyBooks
<1>8. Abstract!Init
  BY <1>2 DEF Init, Abstract!Init, EmptyBooks
<1>9. QED
  BY <1>1, <1>3, <1>4, <1>7, <1>8 DEF ExactInv

LEMMA ExactNext ==
  ASSUME ExactInv, ~Overlap, [Next]_vars
  PROVE  ExactInv' /\ LedgerStep
<1>1. MoneyInv /\ TypeOK /\ daily.job = "none"
  BY DEF ExactInv, MoneyInv
<1>2. MoneyInv' /\ CountMatches(books)'
  BY <1>1, MoneyNext, NextCount DEF ExactInv
<1>3. \A job \in Job : ~DailyScan(job)
  BY NothingDiffers DEF DailyScan
<1>4. ~DailyWrite
  BY <1>1 DEF DailyWrite
<1>5. daily' = daily
  <2>1. ASSUME NEW s \in Session, Request(s) PROVE daily' = daily
    BY <2>1 DEF Request, BeginCreate, LoadSucceeded, LoadCanceled, LoadRefunded, BeginRefund,
         CreatePayment, CommitCreate, PostSucceeded, PostCanceled, CreateRefund, PostRefund, Rollback
  <2>2. ASSUME YooKassa \/ ReconcilePending \/ Scheduled PROVE daily' = daily
    BY <1>3, <1>4, <2>2
    DEF YooKassa, Pay, CancelPayment, RefundOutside, SettleRefund, ReconcilePending, BatchLoad,
        BatchAsk, BatchSkip, BatchWrite, BatchCommit, BatchAbort, Scheduled, ExpireLinks
  <2>3. QED
    BY <2>1, <2>2 DEF Next, vars, Tick, Manage, CloseCampaign, PublishCampaign, EditGoal
<1>6. Works' /\ Sums' /\ LedgerStep
  <2>1. ASSUME UNCHANGED <<status, session, batch>>,
               \A d \in Donation : payment[d] = "canceled" => payment'[d] = "canceled",
               UNCHANGED books \/ \E c \in Campaign : Manage(c)
        PROVE  Works' /\ Sums' /\ LedgerStep
    BY <2>1, OutsideExact
  <2>2. CASE YooKassa
    <3>1. UNCHANGED <<status, session, batch, books>>
      BY <2>2 DEF YooKassa, Pay, CancelPayment, RefundOutside, SettleRefund
    <3>2. \A d \in Donation : payment[d] = "canceled" => payment'[d] = "canceled"
      BY <1>1, <2>2 DEF YooKassa, Pay, CancelPayment, RefundOutside, SettleRefund, TypeOK
    <3>3. QED
      BY <2>1, <3>1, <3>2
  <2>3. CASE Scheduled
    <3>1. ExpireLinks
      BY <1>3, <1>4, <2>3 DEF Scheduled
    <3>2. QED
      BY <2>1, <3>1 DEF ExpireLinks
  <2>4. CASE Tick \/ UNCHANGED vars
    BY <2>1, <2>4 DEF Tick, vars
  <2>5. CASE \E c \in Campaign : Manage(c)
    <3>1. UNCHANGED <<status, session, batch, payment>>
      BY <2>5 DEF Manage, CloseCampaign, PublishCampaign, EditGoal
    <3>2. QED
      BY <2>1, <2>5, <3>1
  <2>6. QED
    BY <2>2, <2>3, <2>4, <2>5, RequestExact, ReconcilePendingExact DEF Next
<1>7. QED
  BY <1>1, <1>2, <1>5, <1>6 DEF ExactInv, Works, Sums

LEMMA ExactAlways ==
  ASSUME ~Overlap
  PROVE  Spec => []ExactInv
<1>1. Init => ExactInv
  BY ExactInit
<1>2. ExactInv /\ [Next]_vars => ExactInv'
  BY ExactNext
<1>3. QED
  BY <1>1, <1>2, PTL DEF Spec

\* The counters are the sums over the successful donations at every commit,
\* through repeated and reordered notifications, polling, refunds, rollbacks and
\* aborted batches, while no two of them work on the same donation at once.
THEOREM BooksCorrect ==
  ASSUME ~Overlap
  PROVE  Spec => []BooksExact
<1>1. ExactInv => BooksExact
  BY DEF ExactInv
<1>2. QED
  BY <1>1, ExactAlways, PTL

\* ... and the donations implement the ledger: the documented life cycle, with
\* amounts that move in the same step.
THEOREM LedgerCorrect ==
  ASSUME ~Overlap
  PROVE  Spec => ImplementsLedger
<1>1. Init => Abstract!Init
  BY ExactInit
<1>2. ExactInv /\ [Next]_vars => [Abstract!Next]_(Abstract!vars)
  BY ExactNext DEF LedgerStep
<1>3. QED
  BY <1>1, <1>2, ExactAlways, PTL DEF Spec, ImplementsLedger, Abstract!Spec

(***************************************************************************)
(* The ledger by itself, with a status and a sum of its own                *)
(***************************************************************************)
VARIABLES
  entry,   \* the status of each contribution
  total    \* what each campaign has collected

Own == INSTANCE Ledger WITH status <- entry, collected <- total

LedgerInv == Own!TypeOK /\ Own!Exact

LEMMA LedgerInit == Own!Init => LedgerInv
<1> SUFFICES ASSUME Own!Init PROVE LedgerInv
  OBVIOUS
<1>1. Own!TypeOK
  BY DEF Own!Init, Own!TypeOK
<1>2. Own!Success = {} /\ \A c \in Campaign : To({}, c) = {}
  BY DEF Own!Init, Own!Success, To
<1>3. \A c \in Campaign : total[c] = 0
  BY DEF Own!Init
<1>4. QED BY <1>1, <1>2, <1>3, SumOfNone DEF LedgerInv, Own!Exact, Own!To, To

LEMMA LedgerNext == LedgerInv /\ [Own!Next]_(Own!vars) => LedgerInv'
<1> SUFFICES ASSUME LedgerInv, [Own!Next]_(Own!vars) PROVE LedgerInv'
  OBVIOUS
<1> USE DEF LedgerInv, To, Own!To
<1>1. ASSUME NEW d \in Contribution, Own!Open(d) PROVE LedgerInv'
  <2>1. Own!TypeOK'
    BY <1>1 DEF Own!Open, Own!TypeOK
  <2>2. Own!Success' = Own!Success
    BY <1>1 DEF Own!Open, Own!Success, Own!TypeOK
  <2>3. QED BY <1>1, <2>1, <2>2 DEF Own!Open, Own!Exact
<1>2. ASSUME NEW S \in SUBSET Contribution, NEW F \in SUBSET Contribution, Own!Resolve(S, F)
      PROVE  LedgerInv'
  <2>1. /\ Own!Success' = Own!Success \cup S /\ Own!Success \cap S = {}
        /\ Own!Success \in SUBSET Contribution
    BY <1>2 DEF Own!Resolve, Own!Success
  <2>2. ASSUME NEW c \in Campaign PROVE total'[c] = SumOf[To(Own!Success', c)]
    <3>1. SumOf[To(Own!Success \cup S, c)] = SumOf[To(Own!Success, c)] + SumOf[To(S, c)]
      BY <2>1, SharesAdd
    <3>2. total'[c] = total[c] + SumOf[To(S, c)]
      BY <1>2 DEF Own!Resolve
    <3>3. QED BY <2>1, <3>1, <3>2 DEF Own!Exact
  <2>3. Own!Success' \in SUBSET Contribution
    BY <2>1
  <2>4. total' \in [Campaign -> Nat]
    <3>1. \A c \in Campaign : total[c] \in Nat /\ SumOf[To(S, c)] \in Nat
      BY SharesType DEF Own!TypeOK
    <3>2. total' = [c \in Campaign |-> total[c] + SumOf[To(S, c)]]
      BY <1>2 DEF Own!Resolve
    <3> HIDE DEF To
    <3>3. \A c \in Campaign : total[c] + SumOf[To(S, c)] \in Nat
      BY <3>1
    <3>4. QED BY <3>2, <3>3
  <2>5. entry' \in [Contribution -> {"none", "pending", "success", "failed", "refunded"}]
    BY <1>2 DEF Own!Resolve, Own!TypeOK
  <2>6. QED BY <2>2, <2>4, <2>5 DEF Own!TypeOK, Own!Exact
<1>3. ASSUME NEW d \in Contribution, Own!Return(d) PROVE LedgerInv'
  <2>1. /\ Own!Success = Own!Success' \cup {d} /\ Own!Success' \cap {d} = {}
        /\ Own!Success' \in SUBSET Contribution
    BY <1>3 DEF Own!Return, Own!Success, Own!TypeOK
  <2>2. \A c \in Campaign :
          total'[c] = IF c = Target[d] THEN total[c] - Amount[d] ELSE total[c]
    BY <1>3, ContributionAssumption DEF Own!Return, Own!TypeOK
  <2>3. ASSUME NEW c \in Campaign
        PROVE  total[c] = SumOf[To(Own!Success', c)] + SumOf[To({d}, c)]
    <3>1. SumOf[To(Own!Success' \cup {d}, c)] = SumOf[To(Own!Success', c)] + SumOf[To({d}, c)]
      <4> PICK S : S = Own!Success'
        OBVIOUS
      <4>1. S \in SUBSET Contribution /\ {d} \in SUBSET Contribution /\ S \cap {d} = {}
        BY <2>1
      <4>2. SumOf[To(S \cup {d}, c)] = SumOf[To(S, c)] + SumOf[To({d}, c)]
        BY <4>1, SharesAdd
      <4>3. QED BY <4>2
    <3>2. total[c] = SumOf[To(Own!Success, c)]
      BY DEF Own!Exact
    <3>3. To(Own!Success, c) = To(Own!Success' \cup {d}, c)
      BY <2>1
    <3>4. QED BY <3>1, <3>2, <3>3
  <2>4. ASSUME NEW c \in Campaign PROVE total'[c] = SumOf[To(Own!Success', c)]
    <3>1. SumOf[To(Own!Success', c)] \in Nat /\ Amount[d] \in Nat
      BY <2>1, SharesType, ContributionAssumption
    <3>2. SumOf[To({d}, c)] = IF c = Target[d] THEN Amount[d] ELSE 0
      BY ShareOfOne
    <3>3. ASSUME c = Target[d] PROVE total'[c] = SumOf[To(Own!Success', c)]
      <4>1. total'[c] = total[c] - Amount[d] /\ SumOf[To({d}, c)] = Amount[d]
        BY <2>2, <3>2, <3>3
      <4>2. total[c] = SumOf[To(Own!Success', c)] + SumOf[To({d}, c)]
        BY <2>3
      <4>3. QED BY <3>1, <4>1, <4>2
    <3>4. ASSUME c # Target[d] PROVE total'[c] = SumOf[To(Own!Success', c)]
      <4>1. total'[c] = total[c] /\ SumOf[To({d}, c)] = 0
        BY <2>2, <3>2, <3>4
      <4>2. total[c] = SumOf[To(Own!Success', c)] + SumOf[To({d}, c)]
        BY <2>3
      <4>3. QED BY <3>1, <4>1, <4>2
    <3>5. QED BY <3>3, <3>4
  <2>5. total' \in [Campaign -> Nat]
    <3>1. \A c \in Campaign : SumOf[To(Own!Success', c)] \in Nat
      <4> PICK S : S = Own!Success'
        OBVIOUS
      <4>1. S \in SUBSET Contribution
        BY <2>1
      <4>2. \A c \in Campaign : SumOf[To(S, c)] \in Nat
        BY <4>1, SharesType
      <4>3. QED BY <4>2
    <3>2. total' = [c \in Campaign |-> total'[c]]
      BY <1>3 DEF Own!Return, Own!TypeOK
    <3>3. QED BY <2>4, <3>1, <3>2
  <2>6. entry' \in [Contribution -> {"none", "pending", "success", "failed", "refunded"}]
    BY <1>3 DEF Own!Return, Own!TypeOK
  <2>7. QED BY <2>4, <2>5, <2>6 DEF Own!TypeOK, Own!Exact
<1>4. CASE UNCHANGED Own!vars
  BY <1>4 DEF Own!vars, Own!TypeOK, Own!Exact, Own!Success
<1>5. QED BY <1>1, <1>2, <1>3, <1>4 DEF Own!Next

\* collected_amount is the sum of the successful donations: what the daily task
\* checks against is what the documented life cycle keeps of itself.
THEOREM LedgerExact == Own!Spec => []Own!Exact
<1>1. LedgerInv => Own!Exact
  BY DEF LedgerInv
<1>2. QED BY <1>1, LedgerInit, LedgerNext, PTL DEF Own!Spec

=============================================================================
