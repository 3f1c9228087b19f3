-------------------------------- MODULE Books --------------------------------
(***************************************************************************)
(* The denormalised counters that services/payment.py keeps beside the     *)
(* contributions: campaigns.collected_amount and campaigns.donors_count,   *)
(* the campaign_donors rows, the campaign's goal and whether it is active, *)
(* and the totals of users.  "Books" is one committed state of those       *)
(* columns; the operators say what the code's SQL statements make of it.   *)
(* No behaviour here: the modules with sessions decide when the statements *)
(* run.                                                                    *)
(*                                                                         *)
(* A contribution (a row of donations or of transactions) belongs to one   *)
(* user, goes to one campaign and has an amount in kopecks.  The streak    *)
(* columns of users are not part of the books.                             *)
(***************************************************************************)
EXTENDS Integers, FiniteSets

CONSTANTS
  Contribution,  \* identifiers of contributions
  Campaign,
  User,
  Owner,         \* Owner[d]: user_id of contribution d
  Target,        \* Target[d]: campaign_id of contribution d
  Amount,        \* Amount[d]: amount_kopecks of contribution d
  Goals,         \* what an admin may set as goal_amount, 0 standing for a
                 \* campaign without a goal or a permanent one
  SumOf          \* SumOf[S]: PostgreSQL's SUM(amount_kopecks) over the rows S

ASSUME ContributionAssumption ==
  /\ IsFiniteSet(Contribution)
  /\ IsFiniteSet(Campaign)
  /\ IsFiniteSet(User)
  /\ Owner \in [Contribution -> User]
  /\ Target \in [Contribution -> Campaign]
  /\ Amount \in [Contribution -> Nat \ {0}]
  /\ Goals \subseteq Nat

\* All that is used of SUM is that it adds up: it is additive over disjoint
\* sets of rows and is the amount on a single row.
ASSUME SumAssumption ==
  /\ SumOf \in [SUBSET Contribution -> Nat]
  /\ \A d \in Contribution : SumOf[{d}] = Amount[d]
  /\ \A S, T \in SUBSET Contribution :
        S \cap T = {} => SumOf[S \cup T] = SumOf[S] + SumOf[T]

\* The contributions of a set that go to campaign c, or come from user u.
To(S, c) == {d \in S : Target[d] = c}
From(S, u) == {d \in S : Owner[d] = u}

\* Mutant: a plain subtraction.
FloorMissing(n) == n

\* GREATEST(0, n)
Floor(n) == IF n < 0 THEN 0 ELSE n

BooksType ==
  [collected   : [Campaign -> Nat],           \* campaigns.collected_amount
   donors      : SUBSET (Campaign \X User),   \* rows of campaign_donors
   donorsCount : [Campaign -> Nat],           \* campaigns.donors_count
   active      : SUBSET Campaign,             \* campaigns.status is active
   goal        : [Campaign -> Goals],         \* campaigns.goal_amount
   donated     : [User -> Nat],               \* users.total_donated_kopecks
   gifts       : [User -> Nat]]               \* users.total_donations_count

EmptyBooks(goal) ==
  [collected   |-> [c \in Campaign |-> 0],
   donors      |-> {},
   donorsCount |-> [c \in Campaign |-> 0],
   active      |-> Campaign,
   goal        |-> goal,
   donated     |-> [u \in User |-> 0],
   gifts       |-> [u \in User |-> 0]]

\* The users who have a campaign_donors row for c.
DonorsOf(rows, c) == {u \in User : <<c, u>> \in rows}

\* A campaign with this goal and an amount of n is to be completed.
GoalReached(goal, n) == goal > 0 /\ n >= goal

-----------------------------------------------------------------------------
\* Mutant: the goal is compared with the amount before the increment.
ProcessChecksGoalFirst(b, W) ==
  LET inserted == {<<Target[d], Owner[d]>> : d \in W} \ b.donors
  IN  [collected   |-> [c \in Campaign |-> b.collected[c] + SumOf[To(W, c)]],
       donors      |-> b.donors \cup inserted,
       donorsCount |-> [c \in Campaign |->
                          b.donorsCount[c] + Cardinality(DonorsOf(inserted, c))],
       active      |-> b.active \ {c \in Campaign : GoalReached(b.goal[c], b.collected[c])},
       goal        |-> b.goal,
       donated     |-> [u \in User |-> b.donated[u] + SumOf[From(W, u)]],
       gifts       |-> [u \in User |-> b.gifts[u] + Cardinality(From(W, u))]]

\* Mutant: donors_count grows although ON CONFLICT has inserted nothing.
ProcessCountsAgain(b, W) ==
  LET collected == [c \in Campaign |-> b.collected[c] + SumOf[To(W, c)]]
      rows      == {<<Target[d], Owner[d]>> : d \in W}
  IN  [collected   |-> collected,
       donors      |-> b.donors \cup rows,
       donorsCount |-> [c \in Campaign |->
                          b.donorsCount[c] + Cardinality(DonorsOf(rows, c))],
       active      |-> b.active \ {c \in Campaign : GoalReached(b.goal[c], collected[c])},
       goal        |-> b.goal,
       donated     |-> [u \in User |-> b.donated[u] + SumOf[From(W, u)]],
       gifts       |-> [u \in User |-> b.gifts[u] + Cardinality(From(W, u))]]

(***************************************************************************)
(* process_successful_payment for every contribution of W in turn: one     *)
(* webhook has W = {d}, a reconciliation batch commits several together.   *)
(* The increments commute and the INSERT .. ON CONFLICT DO NOTHING makes   *)
(* donors_count grow by the rows really inserted, so the order is free;    *)
(* check_campaign_auto_complete looks at a campaign after its increment,   *)
(* and completes it if it is active.                                       *)
(***************************************************************************)
Process(b, W) ==
  LET collected == [c \in Campaign |-> b.collected[c] + SumOf[To(W, c)]]
      rows      == {<<Target[d], Owner[d]>> : d \in W}
      inserted  == rows \ b.donors
      touched   == {Target[d] : d \in W}
  IN  [collected   |-> collected,
       donors      |-> b.donors \cup rows,
       donorsCount |-> [c \in Campaign |->
                          b.donorsCount[c] + Cardinality(DonorsOf(inserted, c))],
       active      |-> b.active \ {c \in touched : GoalReached(b.goal[c], collected[c])},
       goal        |-> b.goal,
       donated     |-> [u \in User |-> b.donated[u] + SumOf[From(W, u)]],
       gifts       |-> [u \in User |-> b.gifts[u] + Cardinality(From(W, u))]]

\* Mutant: the donor row is dropped without counting what is left.
ReverseDropsDonor(b, d, remaining) ==
  LET c    == Target[d]
      u    == Owner[d]
      gone == <<c, u>> \in b.donors
  IN  [b EXCEPT
         !.collected[c]   = Floor(@ - Amount[d]),
         !.donated[u]     = Floor(@ - Amount[d]),
         !.gifts[u]       = Floor(@ - 1),
         !.donors         = @ \ {<<c, u>>},
         !.donorsCount[c] = IF gone THEN Floor(@ - 1) ELSE @]

(***************************************************************************)
(* reverse_successful_payment for contribution d.  "remaining" is what the *)
(* counting query answers: the user still has a successful contribution to *)
(* the campaign, d itself having left status success before.               *)
(***************************************************************************)
Reverse(b, d, remaining) ==
  LET c    == Target[d]
      u    == Owner[d]
      gone == ~remaining /\ <<c, u>> \in b.donors
  IN  [b EXCEPT
         !.collected[c]   = Floor(@ - Amount[d]),
         !.donated[u]     = Floor(@ - Amount[d]),
         !.gifts[u]       = Floor(@ - 1),
         !.donors         = IF gone THEN @ \ {<<c, u>>} ELSE @,
         !.donorsCount[c] = IF gone THEN Floor(@ - 1) ELSE @]

=============================================================================
