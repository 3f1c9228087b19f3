------------------------------- MODULE Accounts -------------------------------
(***************************************************************************)
(* What becomes of an account and of what belongs to it: guests are merged *)
(* into other accounts (services/account_merge.py), cleaned up when they   *)
(* have not been seen for long (tasks/inactive_anonymous_cleanup.py) or    *)
(* anonymised (services/user.py), while donations and charges are posted   *)
(* to their totals and subscriptions are made (services/subscription.py,   *)
(* services/subscription_limits.py), paused and resumed.                   *)
(*                                                                         *)
(* Requests read without locks and write when they commit.  Two            *)
(* notifications of one payment at a time are the subject of Donations,    *)
(* who is signed in that of Sessions, cards that of Cards; a recovery      *)
(* merges several guests one by one, each as here.                         *)
(***************************************************************************)
EXTENDS Integers, FiniteSets, FiniteSetsExt, Sequences

CONSTANTS
  User,
  Payment,       \* donations and charges
  Request,       \* requests that may be open at a time
  MaxSubs,       \* MAX_ACTIVE_SUBSCRIPTIONS (5)
  CleanBatch,    \* CLEANUP_BATCH_SIZE (500)
  MaxRequests,   \* bound on the requests made
  None

ASSUME AccountsAssumption ==
  /\ MaxSubs \in Nat \ {0} /\ CleanBatch \in Nat \ {0} /\ MaxRequests \in Nat
  /\ IsFiniteSet(Payment) /\ IsFiniteSet(User)
  /\ None \notin User \cup Payment \cup Request

VARIABLES
  user,       \* rows of users
  payment,    \* rows of donations and transactions
  subs,       \* subscriptions, in the order of creation
  request,    \* the requests in progress
  begun,      \* how many have been made
  raced,      \* history: users that met a merge, a cleanup or an anonymisation,
              \* and those they have been merged with
  crowded     \* history: users that asked for two subscriptions at a time, got
              \* those of another, or had a cancelled one brought back

vars == <<user, payment, subs, request, begun, raced, crowded>>

UserState == {"none", "live", "merged", "anonymized", "cleaned", "gone"}
SubStatus == {"pending_payment_method", "active", "paused", "cancelled"}
OpenSub   == SubStatus \ {"cancelled"}

NoPayment == [kind |-> "none", owner |-> None, sub |-> 0, status |-> "pending"]

(***************************************************************************)
(* The phases of a request:                                                *)
(*   posting      a pending payment, its owner and subscription are loaded *)
(*   refunding    a successful payment and its owner are loaded            *)
(*   changing     a subscription is loaded, and may get the status `to'    *)
(*   subscribing  the user has fewer than MaxSubs open subscriptions       *)
(*   merging      two accounts are loaded; total: of both                  *)
(*   cleaning     the guests to clean are loaded                           *)
(*   decided      ... their subscriptions are cancelled, and it is decided *)
(*                which of them are deleted for good (not committed)       *)
(***************************************************************************)
Phase == {"idle", "posting", "refunding", "changing", "subscribing", "merging", "cleaning",
          "decided"}

Idle == [at |-> "idle", users |-> {}, user |-> None, pay |-> None, sub |-> 0, to |-> "cancelled",
         total |-> 0, hard |-> {}]

TypeOK ==
  /\ user \in [User -> [state : UserState, anonymous : BOOLEAN, seen : BOOLEAN,
                        total : Nat]]
  /\ payment \in [Payment -> [kind : {"none", "donation", "charge"}, owner : User \cup {None},
                              sub : 0..Len(subs), status : {"pending", "success", "refunded"}]]
  /\ \A i \in DOMAIN subs : subs[i] \in [owner : User, status : SubStatus, late : BOOLEAN]
  /\ \A r \in Request : DOMAIN request[r] = DOMAIN Idle /\ request[r].at \in Phase
  /\ begun \in 0..MaxRequests
  /\ raced \subseteq User /\ crowded \subseteq User

NewUser(anonymous) == [state |-> "live", anonymous |-> anonymous, seen |-> TRUE, total |-> 0]

\* There may be active subscriptions already.
Init ==
  /\ user \in [User -> {NewUser(FALSE), NewUser(TRUE), [NewUser(TRUE) EXCEPT !.state = "none"]}]
  /\ payment = [p \in Payment |-> NoPayment]
  /\ \E n \in 0..2 : \E owner \in [1..n -> {u \in User : user[u].state = "live"}] :
       subs = [i \in 1..n |-> [owner |-> owner[i], status |-> "active", late |-> FALSE]]
  /\ \A u \in User : Cardinality({i \in DOMAIN subs : subs[i].owner = u}) <= MaxSubs
  /\ request = [r \in Request |-> Idle]
  /\ begun   = 0
  /\ raced   = {}
  /\ crowded = {}

-----------------------------------------------------------------------------
Ends == {"merging", "cleaning", "decided"}

\* The open requests on users U that q must not meet.
Met(r, q) == {o \in Request \ {r} : /\ request[o].users \cap q.users # {}
                                    /\ q.at \in Ends \/ request[o].at \in Ends}

Meeting(r, q) ==
  IF Met(r, q) = {} THEN {} ELSE q.users \cup UNION {request[o].users : o \in Met(r, q)}

Begin(r, q) ==
  /\ request[r] = Idle
  /\ begun < MaxRequests
  /\ begun' = begun + 1
  /\ request' = [request EXCEPT ![r] = q]
  /\ raced' = raced \cup Meeting(r, q)

Proceed(r, q) == request' = [request EXCEPT ![r] = q] /\ UNCHANGED <<begun, raced>>

Finish(r) == Proceed(r, Idle)

\* The handler raises, or the process dies: nothing was written.
Rollback(r) ==
  /\ request[r] # Idle
  /\ Finish(r)
  /\ UNCHANGED <<user, payment, subs, crowded>>

\* A handler of one step on the users U; does it end an account?
Once(U, ends) ==
  /\ begun < MaxRequests
  /\ begun' = begun + 1
  /\ raced' = raced \cup Meeting(None, [Idle EXCEPT !.users = U,
                                                    !.at = IF ends THEN "decided" ELSE "posting"])
  /\ UNCHANGED request

\* Whoever was merged or anonymised keeps an access token for a while; a guest
\* that is cleaned up has not been seen for far longer than a token lives.
HasToken(u) == user[u].state \in {"live", "merged", "anonymized"}

SubsOf(u) == {i \in DOMAIN subs : subs[i].owner = u}

OwnerOf(p) == IF payment[p].kind = "charge" THEN subs[payment[p].sub].owner
              ELSE payment[p].owner

\* Subscriptions a cleanup has cancelled and not committed are locked.
Held(i) == \E o \in Request : request[o].at = "decided" /\ i <= request[o].sub
                              /\ subs[i].owner \in request[o].users

-----------------------------------------------------------------------------
\* device_register.
Register(u) ==
  /\ user[u].state = "none"
  /\ user' = [user EXCEPT ![u] = NewUser(TRUE)]
  /\ Once({}, FALSE)
  /\ UNCHANGED <<payment, subs, crowded>>

\* LastSeenMiddleware.  Redis only spares writes that are minutes apart.
Visit(u) ==
  /\ user[u].state = "live" /\ ~user[u].seen
  /\ user' = [user EXCEPT ![u].seen = TRUE]
  /\ Once({u}, FALSE)
  /\ UNCHANGED <<payment, subs, crowded>>

\* ANONYMOUS_INACTIVE_DAYS pass.
StayAway(u) ==
  /\ user[u].seen
  /\ user' = [user EXCEPT ![u].seen = FALSE]
  /\ UNCHANGED <<payment, subs, request, begun, raced, crowded>>

\* create_donation commits.  The foreign key refuses a user who is gone.
Donate(u, p) ==
  /\ HasToken(u)
  /\ payment[p].kind = "none"
  /\ payment' = [payment EXCEPT ![p] = [NoPayment EXCEPT !.kind = "donation", !.owner = u]]
  /\ Once({u}, FALSE)
  /\ UNCHANGED <<user, subs, crowded>>

\* bind_card of a pending subscription, or the billing task: Billing tells when.
Charge(i, p) ==
  /\ subs[i].status \in {"pending_payment_method", "active"}
  /\ payment[p].kind = "none"
  /\ payment' = [payment EXCEPT ![p] = [NoPayment EXCEPT !.kind = "charge", !.sub = i]]
  /\ Once({subs[i].owner}, FALSE)
  /\ UNCHANGED <<user, subs, crowded>>

\* handle_payment_succeeded, and the refunds, load a payment and its owner.
LoadPayment(r, p, at) ==
  /\ payment[p].kind # "none"
  /\ payment[p].status = (IF at = "posting" THEN "pending" ELSE "success")
  /\ \A o \in Request : request[o].pay # p
  /\ Begin(r, [Idle EXCEPT !.at = at, !.users = {OwnerOf(p)} \ {None}, !.user = OwnerOf(p),
                           !.pay = p, !.sub = payment[p].sub,
                           !.to = IF payment[p].kind = "charge"
                                  THEN subs[payment[p].sub].status ELSE "cancelled"])
  /\ UNCHANGED <<user, payment, subs, crowded>>

\* A subscription cancelled since it was loaded comes back with status `to'.
BroughtBack(i, to) ==
  IF subs[i].status = "cancelled" /\ to # "cancelled" THEN {subs[i].owner} ELSE {}

\* The totals grow by an UPDATE, at the owner as loaded.  The first payment
\* makes its subscription active, which was pending when it was loaded.
CommitPost(r) ==
  LET q == request[r] IN
  /\ q.at = "posting"
  /\ q.to = "pending_payment_method" => ~Held(q.sub)
  /\ payment' = [payment EXCEPT ![q.pay].status = "success"]
  /\ user' = IF q.user = None THEN user ELSE [user EXCEPT ![q.user].total = @ + 1]
  /\ subs' = IF q.to = "pending_payment_method"
             THEN [subs EXCEPT ![q.sub].status = "active"] ELSE subs
  /\ crowded' = crowded \cup (IF q.to = "pending_payment_method"
                              THEN BroughtBack(q.sub, "active") ELSE {})
  /\ Finish(r)

\* A bug: GREATEST(0, ..) is missing.
LessUnbounded(n) == n - 1

Less(n) == IF n = 0 THEN 0 ELSE n - 1

\* reverse_successful_payment.
CommitRefund(r) ==
  LET q == request[r] IN
  /\ q.at = "refunding"
  /\ payment' = [payment EXCEPT ![q.pay].status = "refunded"]
  /\ user' = IF q.user = None THEN user ELSE [user EXCEPT ![q.user].total = Less(@)]
  /\ Finish(r)
  /\ UNCHANGED <<subs, crowded>>

-----------------------------------------------------------------------------
\* Pausing needs an active subscription, resuming a paused one.
MayBecome(i, to) == CASE to = "paused"    -> subs[i].status = "active"
                      [] to = "active"    -> subs[i].status = "paused"
                      [] to = "cancelled" -> subs[i].status # "cancelled"
                      [] OTHER            -> FALSE

LoadChange(r, i, to) ==
  /\ HasToken(subs[i].owner)
  /\ MayBecome(i, to)
  /\ Begin(r, [Idle EXCEPT !.at = "changing", !.users = {subs[i].owner}, !.sub = i, !.to = to])
  /\ UNCHANGED <<user, payment, subs, crowded>>

CommitChange(r) ==
  LET q == request[r] IN
  /\ q.at = "changing"
  /\ ~Held(q.sub)
  /\ subs' = [subs EXCEPT ![q.sub].status = q.to]
  /\ crowded' = crowded \cup BroughtBack(q.sub, q.to)
  /\ Finish(r)
  /\ UNCHANGED <<user, payment>>

\* A bug: pending subscriptions are not counted.
CountedPayingOnly == {"active", "paused"}

\* What check_subscription_limit counts.
Counted == {"active", "paused", "pending_payment_method"}

\* Its FOR UPDATE may have to wait for another request, but then counts the
\* rows of its own snapshot: what the other has inserted is not among them.
CheckLimit(r, u) ==
  /\ HasToken(u)
  /\ Cardinality({i \in SubsOf(u) : subs[i].status \in Counted}) < MaxSubs
  /\ Begin(r, [Idle EXCEPT !.at = "subscribing", !.users = {u}, !.user = u])
  /\ crowded' = IF \E o \in Request : request[o].at = "subscribing" /\ request[o].user = u
                THEN crowded \cup {u} ELSE crowded
  /\ UNCHANGED <<user, payment, subs>>

\* create_subscription does not look at the account (late: it has ended).
CommitSubscribe(r) ==
  LET u == request[r].user IN
  /\ request[r].at = "subscribing"
  /\ user[u].state # "gone"
  /\ subs' = Append(subs, [owner |-> u, status |-> "pending_payment_method",
                           late |-> user[u].state # "live"])
  /\ Finish(r)
  /\ UNCHANGED <<user, payment, crowded>>

-----------------------------------------------------------------------------
\* Of several active subscriptions the oldest stays.
Kept(I) == {i \in I : \A j \in I : i <= j}

\* A bug: the guest's donations are not counted.
BothTargetOnly(s, t) == 0

\* The new total of the target; 0 if there is nothing to add, and to write.
Both(s, t) == IF user[s].total = 0 THEN 0 ELSE user[s].total + user[t].total

\* A guest is merged into the account of its e-mail, or into one that has
\* recovered it by a card.
LoadMerge(r, s, t) ==
  /\ s # t
  /\ user[s].state = "live" /\ user[s].anonymous /\ user[t].state = "live"
  /\ Begin(r, [Idle EXCEPT !.at = "merging", !.users = {s, t}, !.user = t, !.total = Both(s, t)])
  /\ UNCHANGED <<user, payment, subs, crowded>>

\* merge_anonymous_into: UPDATEs move what belongs to the guest now, the total
\* is the one loaded.  The cards it moves are the subject of Cards, the streak
\* columns of Engagement's Merge.
CommitMerge(r) ==
  LET q == request[r]
      t == q.user
      active == {i \in SubsOf(q.user) \cup UNION {SubsOf(s) : s \in q.users} :
                   subs[i].status = "active"}
  IN
  /\ q.at = "merging"
  /\ \A u \in q.users : user[u].state # "gone" /\ \A i \in SubsOf(u) : ~Held(i)
  /\ payment' = [p \in Payment |-> IF payment[p].owner \in q.users
                                   THEN [payment[p] EXCEPT !.owner = t] ELSE payment[p]]
  /\ subs' = [i \in DOMAIN subs |->
                [subs[i] EXCEPT !.owner  = IF @ \in q.users THEN t ELSE @,
                                !.status = IF i \in active \ Kept(active) THEN "cancelled" ELSE @]]
  /\ user' = [u \in User |->
                CASE u = t           -> [user[u] EXCEPT !.total = IF q.total = 0 THEN @ ELSE q.total]
                  [] u \in q.users \ {t} -> [user[u] EXCEPT !.state = "merged"]
                  [] OTHER           -> user[u]]
  /\ crowded' = crowded \cup {t}
  /\ raced' = IF q.users \cap raced = {} THEN raced ELSE raced \cup q.users
  /\ request' = [request EXCEPT ![r] = Idle]
  /\ UNCHANGED begun

-----------------------------------------------------------------------------
\* A bug: pending subscriptions are forgotten.
ToCancelActive == {"active", "paused"}

\* What anonymize_user cancels.
ToCancel == {"active", "paused", "pending_payment_method"}

Anonymize(u) ==
  /\ user[u].state = "live"
  /\ \A i \in SubsOf(u) : ~Held(i)
  /\ user' = [user EXCEPT ![u].state = "anonymized"]
  /\ subs' = [i \in DOMAIN subs |-> IF i \in SubsOf(u) /\ subs[i].status \in ToCancel
                                    THEN [subs[i] EXCEPT !.status = "cancelled"] ELSE subs[i]]
  /\ Once({u}, TRUE)
  /\ UNCHANGED <<payment, crowded>>

\* An admin's deactivation pauses what is active.
DeactivateUser(u) ==
  /\ user[u].state = "live"
  /\ \A i \in SubsOf(u) : ~Held(i)
  /\ subs' = [i \in DOMAIN subs |-> IF i \in SubsOf(u) /\ subs[i].status = "active"
                                    THEN [subs[i] EXCEPT !.status = "paused"] ELSE subs[i]]
  /\ Once({u}, TRUE)
  /\ UNCHANGED <<user, payment, crowded>>

Inactive == {u \in User : user[u].state = "live" /\ user[u].anonymous /\ ~user[u].seen}

\* cleanup_inactive_anonymous_users: those seen longest ago, at most a batch.
LoadClean(r) ==
  \E B \in SUBSET Inactive :
    /\ B # {} /\ Cardinality(B) = Min({CleanBatch, Cardinality(Inactive)})
    /\ Begin(r, [Idle EXCEPT !.at = "cleaning", !.users = B])
    /\ UNCHANGED <<user, payment, subs, crowded>>

\* A bug: only successful donations count.
HasHistoryPaid(u) ==
  \/ \E p \in Payment : payment[p].owner = u /\ payment[p].status = "success"
  \/ SubsOf(u) # {}

HasHistory(u) == SubsOf(u) # {} \/ \E p \in Payment : payment[p].owner = u

\* _process_user for each: subscriptions are cancelled, and who has neither
\* donations nor subscriptions will be deleted for good.
Decide(r) ==
  LET q == request[r] IN
  /\ q.at = "cleaning"
  /\ Proceed(r, [q EXCEPT !.at = "decided", !.sub = Len(subs),
                          !.hard = {u \in q.users : ~HasHistory(u)}])
  /\ UNCHANGED <<user, payment, subs, crowded>>

\* One commit for the batch.  A subscription made meanwhile by a user who is
\* to be deleted makes it fail (RESTRICT), a donation loses its owner.
CommitClean(r) ==
  LET q == request[r] IN
  /\ q.at = "decided"
  /\ \A u \in q.hard : SubsOf(u) = {}
  /\ user' = [u \in User |-> IF u \in q.users
                             THEN [user[u] EXCEPT !.state = IF u \in q.hard THEN "gone" ELSE "cleaned"]
                             ELSE user[u]]
  /\ payment' = [p \in Payment |-> IF payment[p].owner \in q.hard
                                   THEN [payment[p] EXCEPT !.owner = None] ELSE payment[p]]
  /\ subs' = [i \in DOMAIN subs |->
                IF /\ i <= q.sub /\ subs[i].owner \in q.users
                   /\ subs[i].status \in {"active", "pending_payment_method"}
                THEN [subs[i] EXCEPT !.status = "cancelled"] ELSE subs[i]]
  /\ Finish(r)
  /\ UNCHANGED crowded

-----------------------------------------------------------------------------
Next ==
  \/ \E u \in User : Register(u) \/ Visit(u) \/ StayAway(u) \/ Anonymize(u) \/ DeactivateUser(u)
  \/ \E p \in Payment :
       (\E u \in User : Donate(u, p)) \/ (\E i \in DOMAIN subs : Charge(i, p))
  \/ \E r \in Request :
       \/ \E p \in Payment : LoadPayment(r, p, "posting") \/ LoadPayment(r, p, "refunding")
       \/ CommitPost(r) \/ CommitRefund(r)
       \/ \E i \in DOMAIN subs, to \in {"paused", "active", "cancelled"} : LoadChange(r, i, to)
       \/ CommitChange(r)
       \/ \E u \in User : CheckLimit(r, u)
       \/ CommitSubscribe(r)
       \/ \E s, t \in User : LoadMerge(r, s, t)
       \/ CommitMerge(r)
       \/ LoadClean(r) \/ Decide(r) \/ CommitClean(r)
       \/ Rollback(r)

Spec == Init /\ [][Next]_vars

-----------------------------------------------------------------------------
\* The total of an account counts the contributions that belong to it, also
\* those it got by merges, and less those given back since, unless a posting
\* or a refund has met a merge or the end of the account
\* (services/account_merge.py:48-56, 132-137, services/payment.py:134-150).
TotalsExact ==
  \A u \in User \ raced :
    user[u].state = "live" =>
      user[u].total = Cardinality({p \in Payment : /\ payment[p].kind # "none"
                                                   /\ payment[p].status = "success"
                                                   /\ OwnerOf(p) = u})

\* Cleaning up takes the owner of no donation, whatever becomes of it later,
\* unless it was made while the cleanup was at work
\* (tasks/inactive_anonymous_cleanup.py:172-212, models/donation.py:24).
HistoryIsKept ==
  [][\A p \in Payment :
       payment[p].owner # None /\ payment'[p].owner = None => payment[p].owner \in raced']_vars

\* An account that has ended is not charged any more: none of its
\* subscriptions is active, and none becomes it by a payment that arrives
\* late, unless that met the end, or the subscription was made afterwards
\* (services/user.py:62-67, tasks/inactive_anonymous_cleanup.py:118-129).
EndedIsNotCharged ==
  \A i \in DOMAIN subs :
    LET u == subs[i].owner IN
    subs[i].status = "active" /\ user[u].state # "live" => u \in raced \/ subs[i].late

\* Nobody has more open subscriptions than allowed, however they are paused,
\* resumed, paid and cancelled, unless two were asked for at a time, an
\* account was merged into this one, or one that was cancelled is brought back
\* by a request that had loaded it before (services/subscription_limits.py:
\* 17-41).
LimitKept ==
  \A u \in User \ crowded :
    Cardinality({i \in SubsOf(u) : subs[i].status \in OpenSub}) <= MaxSubs

=============================================================================
