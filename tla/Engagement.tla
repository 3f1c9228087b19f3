------------------------------ MODULE Engagement ------------------------------
(***************************************************************************)
(* What keeps a user giving: the cooldown between donations to a campaign  *)
(* (services/donation.py), which a patron's link does not ask for          *)
(* (services/patron.py), what feed and detail of the campaign say of it    *)
(* (services/campaign.py), and what a payment that is posted does to the   *)
(* streak (services/payment.py) and to the achievements                    *)
(* (services/impact.py), up to a merge of the account with a guest's       *)
(* (services/account_merge.py).                                            *)
(*                                                                         *)
(* One campaign, since cooldown and feed look at the donations of one user *)
(* to one campaign.  A payment is posted once: two notifications of one    *)
(* payment are the subject of Donations.  No payment of the two accounts   *)
(* is being posted while they are merged: that race is one of Accounts.    *)
(***************************************************************************)
EXTENDS Integers, FiniteSets, FiniteSetsExt

CONSTANTS
  User,
  Guest,         \* the users who sign in anonymously
  Payment,       \* donations, donations by a link, and charges of subscriptions
  Achievement,
  Condition,     \* condition_type and condition_value of each achievement
  Poster,        \* notifications and batches at work at a time
  Creator,       \* create_donation and create_payment_link requests at a time
  Cooldown,      \* DONATION_COOLDOWN_HOURS
  Day,           \* hours of a day
  MaxTime,       \* bound on the clock
  BatchSize,     \* RECONCILE_BATCH_SIZE
  MaxChanges,    \* bound on the achievements switched off
  MaxSkips,      \* bound on the charges skipped
  MaxGuestRows,  \* bound on the rows and open requests of a guest
  None

ASSUME EngagementAssumption ==
  /\ Cooldown \in Nat /\ Day \in Nat \ {0} /\ MaxTime \in Nat
  /\ {BatchSize, MaxChanges, MaxSkips, MaxGuestRows} \subseteq Nat
  /\ IsFiniteSet(Payment) /\ Guest \subseteq User
  /\ Condition \in [Achievement -> [type : {"streak_days", "donations_count"}, value : Int]]
  /\ None \notin User \cup Payment \cup Int

VARIABLES
  now,        \* the clock, in hours
  user,       \* rows of users; days, skips, unclear: history
  earned,     \* rows of user_achievements: how many of each
  active,     \* the achievements that are active
  payment,    \* rows of donations and transactions
  creator,    \* the requests for a donation or a link in progress
  poster,     \* the transactions that post payments
  most,       \* history: the most successful payments a user had at a time
  hasty,      \* history: users with two such requests at a time, or with one
              \* while donations were moved to them
  changed,    \* history: achievements that were not always active
  merged,     \* the guests merged into another account
  brought     \* history: pairs of donations that came to one user by a merge

vars == <<now, user, earned, active, payment, creator, poster,
          most, hasty, changed, merged, brought>>

Today == now \div Day
Date  == 0..(MaxTime \div Day)

(***************************************************************************)
(* days: dates a payment was posted on.  skips: dates a charge was skipped *)
(* on for want of a campaign.  unclear: the dates came in an order the     *)
(* CASE of update_user_streak makes no run of, or from a merged account.   *)
(***************************************************************************)
UserRow == [streak : Nat, last : Date \cup {None}, gifts : Nat,
            days : SUBSET Date, skips : SUBSET Date, unclear : BOOLEAN]

NewUser == [streak |-> 0, last |-> None, gifts |-> 0,
            days |-> {}, skips |-> {}, unclear |-> FALSE]

NoPayment == [kind |-> "none", owner |-> None, at |-> 0, status |-> "pending"]

(***************************************************************************)
(* A poster holds the payments still to post, the one in hand with the     *)
(* date read for it, and what it has written, to be seen after its commit: *)
(* the rows of users, which are locked meanwhile, and their awards.        *)
(***************************************************************************)
IdleCreator == [who |-> None, kind |-> "donation", at |-> 0]

IdlePoster == [todo |-> {}, in |-> None, today |-> 0, done |-> {},
               row |-> <<>>, won |-> <<>>, before |-> <<>>]

TypeOK ==
  /\ now \in 0..MaxTime
  /\ user \in [User -> UserRow]
  /\ \A u \in User : user[u].streak <= Today + 1
  /\ earned \in [User -> [Achievement -> Nat]]
  /\ active \subseteq Achievement
  /\ payment \in [Payment -> [kind : {"none", "donation", "link", "charge"}, owner : User \cup {None},
                              at : 0..MaxTime,
                              status : {"pending", "success", "failed", "refunded"}]]
  /\ creator \in [Creator -> [who : User \cup {None}, kind : {"donation", "link"}, at : 0..MaxTime]]
  /\ \A b \in Poster : poster[b].todo \cup poster[b].done \subseteq Payment
  /\ most \in [User -> Nat]
  /\ hasty \subseteq User /\ changed \subseteq Achievement
  /\ merged \subseteq Guest /\ brought \subseteq SUBSET Payment

Init ==
  /\ now     = 0
  /\ user    = [u \in User |-> NewUser]
  /\ earned  = [u \in User |-> [a \in Achievement |-> 0]]
  /\ active  = Achievement
  /\ payment = [p \in Payment |-> NoPayment]
  /\ creator = [k \in Creator |-> IdleCreator]
  /\ poster  = [b \in Poster |-> IdlePoster]
  /\ most    = [u \in User |-> 0]
  /\ hasty   = {}
  /\ changed = {}
  /\ merged  = {}
  /\ brought = {}

-----------------------------------------------------------------------------
(* The cooldown, and what is shown of it. *)

\* Rows of donations, of either source.
DonationsOf(u) == {p \in Payment : payment[p].kind \in {"donation", "link"} /\ payment[p].owner = u}

\* A bug: a donation that is still being paid does not count.
BlockingSuccessOnly(p) == payment[p].status = "success" /\ payment[p].at > now - Cooldown

\* _check_donation_cooldown: a donation younger than the cooldown.
Blocking(p) ==
  payment[p].status \in {"success", "pending"} /\ payment[p].at > now - Cooldown

Blocked(u) == \E p \in DonationsOf(u) : Blocking(p)

\* A bug: at the end of the cooldown the campaign still shows it.
NextAvailableClosed(p) == payment[p].at + Cooldown >= now

\* next_available_at is set.
NextAvailable(p) == payment[p].at + Cooldown > now

\* The last successful donation.
LastGiven(u) ==
  LET given == {p \in DonationsOf(u) : payment[p].status = "success"} IN
  {p \in given : \A q \in given : payment[q].at <= payment[p].at}

\* can_donate_now, as the list of campaigns shows it.
CanDonateNow(u) == \A p \in LastGiven(u) : ~NextAvailable(p)

\* next_available_at and can_donate_now in the detail of a campaign, which
\* computes them by itself.
NextInDetail(u) == {t \in {payment[p].at + Cooldown : p \in LastGiven(u)} : t > now}

CanDonateNowInDetail(u) == \A t \in NextInDetail(u) : t <= now

\* Bounds: a row is left for every request that is open, and a guest has few.
RowsLeft(u) ==
  /\ Cardinality({k \in Creator : creator[k] # IdleCreator})
       < Cardinality({p \in Payment : payment[p] = NoPayment})
  /\ u \in Guest =>
       Cardinality({p \in Payment : payment[p].owner = u})
         + Cardinality({k \in Creator : creator[k].who = u}) < MaxGuestRows

\* A request that inserts a donation, up to the provider's call.  created_at is
\* the time the transaction begins.
Begin(k, u, kind) ==
  /\ creator[k] = IdleCreator /\ RowsLeft(u)
  /\ creator' = [creator EXCEPT ![k] = [who |-> u, kind |-> kind, at |-> now]]
  /\ hasty' = IF \E o \in Creator : creator[o].who = u THEN hasty \cup {u} ELSE hasty
  /\ UNCHANGED <<now, user, earned, active, payment, poster, most, changed, merged, brought>>

\* create_donation checks the cooldown, ...
BeginDonation(k, u) == ~Blocked(u) /\ Begin(k, u, "donation")

\* ... create_payment_link does not.
BeginLink(k, u) == Begin(k, u, "link")

\* ... and its commit.
CommitDonation(k, p) ==
  /\ creator[k] # IdleCreator
  /\ payment[p] = NoPayment
  /\ payment' = [payment EXCEPT ![p] = [kind |-> creator[k].kind, owner |-> creator[k].who,
                                        at |-> creator[k].at, status |-> "pending"]]
  /\ creator' = [creator EXCEPT ![k] = IdleCreator]
  /\ UNCHANGED <<now, user, earned, active, poster, most, hasty, changed, merged, brought>>

\* The provider's call raises.
AbortDonation(k) ==
  /\ creator[k] # IdleCreator
  /\ creator' = [creator EXCEPT ![k] = IdleCreator]
  /\ UNCHANGED <<now, user, earned, active, payment, poster, most, hasty, changed, merged, brought>>

\* A subscription is charged: there is no cooldown, and created_at is not read.
Charge(p, u) ==
  /\ payment[p] = NoPayment /\ RowsLeft(u)
  /\ u \notin merged
  /\ payment' = [payment EXCEPT ![p] = [kind |-> "charge", owner |-> u,
                                        at |-> 0, status |-> "pending"]]
  /\ UNCHANGED <<now, user, earned, active, creator, poster, most, hasty, changed, merged, brought>>

InHand(p) == \E b \in Poster : p \in poster[b].todo \cup poster[b].done \cup {poster[b].in}

\* A pending donation is cancelled, or given up by the reconciliation.
Fail(p) ==
  /\ payment[p].kind \in {"donation", "link"} /\ payment[p].status = "pending"
  /\ ~InHand(p)
  /\ payment' = [payment EXCEPT ![p].status = "failed"]
  /\ UNCHANGED <<now, user, earned, active, creator, poster, most, hasty, changed, merged, brought>>

-----------------------------------------------------------------------------
(* Posting. *)

\* A bug: a second payment of the day counts as a further day.
NextStreakPerGift(row, today) == IF row.last \in {today, today - 1} THEN row.streak + 1 ELSE 1

\* A bug: a day without a payment does not end the streak.
NextStreakUnbroken(row, today) == IF row.last = today THEN row.streak ELSE row.streak + 1

\* The CASE of update_user_streak.
NextStreak(row, today) ==
  CASE row.last = today     -> row.streak
    [] row.last = today - 1 -> row.streak + 1
    [] OTHER                -> 1

\* The dates come in order, and no skip has taken the day's place.
InOrder(row, today) ==
  /\ row.last # None => row.last <= today
  /\ row.last = today => today \in row.days

\* The row of the user after a payment is posted on the date today.
Posted(row, today) ==
  [streak  |-> NextStreak(row, today),
   last    |-> today,
   gifts   |-> row.gifts + 1,
   days    |-> row.days \cup {today},
   skips   |-> row.skips,
   unclear |-> row.unclear \/ ~InOrder(row, today)]

\* A bug: the user is not refreshed, and the statistics are those the session
\* has had in memory since it first read the row.
StatisticsStale(seen, row) == seen

\* check_and_award_achievements reads the row again, within the transaction.
Statistics(seen, row) == row

Qualifies(a, row) == IF Condition[a].type = "streak_days" THEN row.streak >= Condition[a].value
                                                          ELSE row.gifts >= Condition[a].value

\* One award for every active achievement that is not earned.  seen: the row
\* when the session first read it.
Awarded(seen, row, won) ==
  [a \in Achievement |->
     IF a \in active /\ won[a] = 0 /\ Qualifies(a, Statistics(seen, row)) THEN 1 ELSE won[a]]

\* A notification, or a batch of the reconciliation, up to the first date that
\* update_user_streak reads: p is the first payment.
BeginPost(b, P, p) ==
  /\ poster[b] = IdlePoster
  /\ \A q \in P : payment[q].kind # "none" /\ payment[q].status = "pending" /\ ~InHand(q)
  /\ p \in P /\ Cardinality(P) <= BatchSize
  /\ poster' = [poster EXCEPT ![b].todo = P, ![b].in = p, ![b].today = Today]
  /\ UNCHANGED <<now, user, earned, active, payment, creator, most, hasty, changed, merged, brought>>

\* ... the date for the next payment of the batch ...
ReadDate(b, p) ==
  /\ p \in poster[b].todo /\ poster[b].in = None
  /\ poster' = [poster EXCEPT ![b].in = p, ![b].today = Today]
  /\ UNCHANGED <<now, user, earned, active, payment, creator, most, hasty, changed, merged, brought>>

LockedBy(b) == DOMAIN poster[b].row

\* ... and, when nobody else holds the row, updates it; update_user_impact and
\* check_and_award_achievements follow.
Post(b) ==
  LET q   == poster[b]
      u   == payment[q.in].owner
      old == IF u \in LockedBy(b) THEN q.row[u] ELSE user[u]
      won == IF u \in LockedBy(b) THEN q.won[u] ELSE earned[u]
      seen == IF u \in LockedBy(b) THEN q.before[u] ELSE user[u]
      row == Posted(old, q.today)
      with(f, x) == [v \in DOMAIN f \cup {u} |-> IF v = u THEN x ELSE f[v]]
  IN
  /\ q.in # None
  /\ \A o \in Poster \ {b} : u \notin LockedBy(o)
  /\ poster' = [poster EXCEPT ![b] =
       [todo |-> q.todo \ {q.in}, in |-> None, today |-> q.today,
        done |-> q.done \cup {q.in}, row |-> with(q.row, row),
        won |-> with(q.won, Awarded(seen, row, won)), before |-> with(q.before, seen)]]
  /\ UNCHANGED <<now, user, earned, active, payment, creator, most, hasty, changed, merged, brought>>

Given(u) == {p \in Payment : payment[p].owner = u /\ payment[p].status = "success"}

CommitPost(b) ==
  LET q == poster[b] IN
  /\ q.done # {} /\ q.todo = {}
  /\ payment' = [p \in Payment |-> IF p \in q.done THEN [payment[p] EXCEPT !.status = "success"]
                                                   ELSE payment[p]]
  /\ user'    = [u \in User |-> IF u \in LockedBy(b) THEN q.row[u] ELSE user[u]]
  /\ earned'  = [u \in User |-> IF u \in LockedBy(b) THEN q.won[u] ELSE earned[u]]
  /\ most'    = [u \in User |-> IF u \in LockedBy(b) THEN Max({most[u], Cardinality(Given(u)')})
                                                     ELSE most[u]]
  /\ poster'  = [poster EXCEPT ![b] = IdlePoster]
  /\ UNCHANGED <<now, active, creator, hasty, changed, merged, brought>>

\* The process dies, or PostgreSQL ends a deadlock of two batches.
AbortPost(b) ==
  /\ poster[b] # IdlePoster
  /\ poster' = [poster EXCEPT ![b] = IdlePoster]
  /\ UNCHANGED <<now, user, earned, active, payment, creator, most, hasty, changed, merged, brought>>

Free(u) == \A b \in Poster : u \notin LockedBy(b)

\* reverse_successful_payment: the streak stays.
Refund(p) ==
  LET u == payment[p].owner IN
  /\ payment[p].status = "success"
  /\ Free(u)
  /\ payment' = [payment EXCEPT ![p].status = "refunded"]
  /\ user' = [user EXCEPT ![u].gifts = IF @ = 0 THEN 0 ELSE @ - 1]
  /\ UNCHANGED <<now, earned, active, creator, poster, most, hasty, changed, merged, brought>>

\* mark_streak_no_campaigns: a charge is skipped for want of a campaign.  After
\* a day without a payment it keeps a streak that is over.
Skip(u) ==
  /\ Free(u) /\ u \notin merged
  /\ user[u].last # None => user[u].last < Today
  /\ Cardinality({x \in User \X Date : x[2] \in user[x[1]].skips}) < MaxSkips
  /\ user' = [user EXCEPT ![u].last = Today, ![u].skips = @ \cup {Today},
                          ![u].unclear = @ \/ user[u].last \notin {None, Today - 1}]
  /\ UNCHANGED <<now, earned, active, payment, creator, poster, most, hasty, changed, merged, brought>>

\* The admin switches an achievement off.  (Switching it on again, or another
\* value, is nothing to those it was not changed for.)
SetAchievement(a) ==
  /\ a \in active
  /\ Cardinality(changed) < MaxChanges
  /\ active' = active \ {a}
  /\ changed' = changed \cup {a}
  /\ UNCHANGED <<now, user, earned, payment, creator, poster, most, hasty, merged, brought>>

Tick ==
  /\ now < MaxTime
  /\ now' = now + 1
  /\ UNCHANGED <<user, earned, active, payment, creator, poster, most, hasty, changed, merged, brought>>

-----------------------------------------------------------------------------
(* Merging. *)

\* The later of two dates, one of which may be missing.
Later(a, b) == IF b # None /\ (a = None \/ b > a) THEN b ELSE a

\* The row of the target t: the higher streak, and the later date, each of
\* whichever account has it.
MergedRow(s, t) ==
  [streak  |-> Max({user[s].streak, user[t].streak}),
   last    |-> Later(user[t].last, user[s].last),
   gifts   |-> user[t].gifts + user[s].gifts,
   days    |-> user[t].days \cup user[s].days,
   skips   |-> user[t].skips \cup user[s].skips,
   unclear |-> user[t].unclear \/ user[s].last # None]

\* merge_anonymous_into of a guest s: donations and subscriptions move, the
\* awards stay, and the row of s keeps its numbers.
Merge(s, t) ==
  /\ s # t /\ s \notin merged /\ t \notin merged
  /\ Free(s) /\ Free(t)
  /\ \A p \in Payment : payment[p].owner \in {s, t} => ~InHand(p)
  /\ payment' = [p \in Payment |-> IF payment[p].owner = s THEN [payment[p] EXCEPT !.owner = t]
                                                           ELSE payment[p]]
  /\ user' = [user EXCEPT ![t] = MergedRow(s, t)]
  /\ merged' = merged \cup {s}
  /\ brought' = brought \cup {{p, q} : p \in DonationsOf(s), q \in DonationsOf(t)}
  /\ hasty' = IF t \in {creator[k].who : k \in Creator} \/ s \in hasty THEN hasty \cup {t} ELSE hasty
  /\ UNCHANGED <<now, earned, active, creator, poster, most, changed>>

-----------------------------------------------------------------------------
Next ==
  \/ \E k \in Creator :
       \/ \E u \in User : BeginDonation(k, u) \/ BeginLink(k, u)
       \/ \E p \in Payment : CommitDonation(k, p)
       \/ AbortDonation(k)
  \/ \E p \in Payment :
       \/ \E u \in User : Charge(p, u)
       \/ Fail(p) \/ Refund(p)
  \/ \E b \in Poster :
       \/ \E P \in SUBSET Payment, p \in Payment : BeginPost(b, P, p)
       \/ \E p \in Payment : ReadDate(b, p)
       \/ Post(b) \/ CommitPost(b) \/ AbortPost(b)
  \/ \E u \in User : Skip(u)
  \/ \E s \in Guest, t \in User : Merge(s, t)
  \/ \E a \in Achievement : SetAchievement(a)
  \/ Tick

Spec == Init /\ [][Next]_vars

-----------------------------------------------------------------------------
\* Of two donations of one user to a campaign that succeed or may still
\* succeed, one is at least the cooldown older than the other, or the later is
\* by a patron's link.  Except two donations that a merge brought to one user
\* from two, and except users with two requests of which neither had committed
\* when the other began, or with one while donations were moved to them
\* (services/donation.py:23-70, 101, 134, 165, services/patron.py:30-43,
\* services/account_merge.py:51-53).
CooldownKept ==
  \A u \in User \ hasty : \A p, q \in DonationsOf(u) :
    ( /\ p # q /\ {p, q} \notin brought
      /\ {payment[p].status, payment[q].status} \subseteq {"success", "pending"}
      /\ payment[q].at <= payment[p].at )
    => \/ payment[q].at + Cooldown <= payment[p].at
       \/ payment[p].kind = "link"
       \/ payment[q].kind = "link" /\ payment[q].at = payment[p].at

\* List and detail say "you can donate now" to the same users, and exactly to
\* those whom create_donation would not refuse, except while a donation is
\* still being paid, which only create_donation looks at
\* (services/campaign.py:30-49, 184-187, 275-277, services/donation.py:37-52).
FeedAgrees ==
  \A u \in User :
    /\ CanDonateNow(u) <=> CanDonateNowInDetail(u)
    /\ (\A p \in DonationsOf(u) : payment[p].status # "pending") =>
          (CanDonateNow(u) <=> ~Blocked(u))

\* The run of consecutive dates up to d, paid or skipped.
Run(row, d) == {e \in row.days \cup row.skips : e <= d /\ e..d \subseteq row.days \cup row.skips}

\* The streak never exceeds the days with a payment, those of merged accounts
\* included.  Unless dates came out of order or with a merge, which takes the
\* higher streak and the later date of the two accounts, it is the number of
\* days with a payment in the run of consecutive days that ends with the last
\* one, skipped charges bridging it, whatever batches and notifications post
\* around midnight and however many a day
\* (services/payment.py:105-131, 153-166, services/account_merge.py:139-145).
StreakExact ==
  \A u \in User :
    LET row == user[u] IN
    /\ row.streak <= Cardinality(row.days)
    /\ row.last = None => row.streak = 0
    /\ (row.last # None /\ ~row.unclear) =>
          row.streak = Cardinality(row.days \cap Run(row, row.last))

\* On some day the run had n days with a payment.
Reached(row, n) == \E d \in row.days : Cardinality(row.days \cap Run(row, d)) >= n

\* An achievement that was always active is earned, once, by exactly those who
\* have met its condition after some payment, and a refund takes it from nobody:
\* neither two notifications nor the payments of one batch award it twice or
\* miss the one that meets it (services/impact.py:46-101, models/achievement.py:32).
\* What a merge brings counts with the next payment, days it brings excepted;
\* the awards of a merged guest are lost, and his own row is left out.
AwardsExact ==
  \A u \in User \ merged, a \in Achievement \ changed :
    LET met == IF Condition[a].type = "donations_count"
               THEN most[u] > 0 /\ most[u] >= Condition[a].value
               ELSE Reached(user[u], Condition[a].value)
    IN (Condition[a].type = "donations_count" \/ ~user[u].unclear) =>
         earned[u][a] = IF met THEN 1 ELSE 0

=============================================================================
