------------------------------ MODULE Campaigns ------------------------------
(***************************************************************************)
(* Campaigns, and which of them the money of a subscription goes to: the   *)
(* status machine (api/v1/admin/campaigns.py, domain/campaign.py), closing *)
(* by an admin with the reallocation of subscriptions                      *)
(* (services/allocation.py), closing by goal and by date, offline          *)
(* payments, and payments that are posted long after they were made.       *)
(*                                                                         *)
(* An admin's request reads the campaign without a lock, writes and        *)
(* commits.  A closing is longer: its UPDATE of the campaign locks the row *)
(* to the commit, the subscriptions are read, and each is given a new      *)
(* campaign and flushed, which locks it too.  Subscriptions are of         *)
(* different users: the limit of five is the subject of Accounts; stale    *)
(* writes of a user's own requests are the subject of Billing.             *)
(***************************************************************************)
EXTENDS Naturals, FiniteSets

CONSTANTS
  Campaign, Foundation, Sub,
  Payment,       \* donations and charges
  Offline,       \* offline payments that may be made
  Ref,           \* external references of offline payments
  Goal,          \* goals a campaign may be given
  Request,       \* requests that may be open at a time
  MaxRequests,   \* bound on the requests, donations and charges made
  None

CampaignStatus == {"none", "draft", "active", "paused", "completed", "archived"}

ASSUME CampaignsAssumption ==
  /\ Goal \subseteq Nat \ {0}
  /\ MaxRequests \in Nat
  /\ IsFiniteSet(Payment) /\ IsFiniteSet(Offline)
  /\ Campaign \cap Sub = {}
  /\ None \notin Campaign \cup Foundation \cup Sub \cup Ref \cup Goal
  /\ None \notin CampaignStatus

VARIABLES
  campaign,     \* rows of campaigns
  foundation,   \* is the foundation active?
  sub,          \* rows of subscriptions
  payment,      \* the campaign a payment was made for, and whether it is posted
  offline,      \* rows of offline_payments: the campaign, None while there is no row
  request,      \* the requests in progress
  begun,        \* how many have been made
  raced         \* history: what two requests have worked on at the same time

vars == <<campaign, foundation, sub, payment, offline, request, begun, raced>>

SubStatus == {"none", "pending_payment_method", "active", "paused", "cancelled"}
Strategy  == {"specific_campaign", "foundation_pool", "platform_pool"}

CampaignRow == [status : CampaignStatus, of : Foundation, goal : Goal \cup {None},
                permanent : BOOLEAN, collected : Nat]

NoSub == [status |-> "none", strategy |-> "platform_pool", campaign |-> None,
          foundation |-> None, reason |-> None]

SubRow == [status : SubStatus, strategy : Strategy, campaign : Campaign \cup {None},
           foundation : Foundation \cup {None}, reason : {None, "user_request", "no_campaigns"}]

(***************************************************************************)
(* The phases of a request:                                                *)
(*   loaded    the campaign is read, its status allows the target          *)
(*   moving    subs are read (and the campaign is flushed as completed);   *)
(*             todo are still to be given a campaign, plan has the changes *)
(*   offline   the campaign is read and no payment with the reference      *)
(*   creating  the campaign of a new subscription was found active         *)
(***************************************************************************)
Phase  == {"idle", "loaded", "moving", "offline", "creating"}
Change == [to : Campaign \cup {None}, from : SubRow]

Idle == [phase |-> "idle", c |-> None, target |-> None, seen |-> 0, ref |-> None,
         todo |-> {}, plan |-> {}]

RequestState == [phase : Phase, c : Campaign \cup {None}, target : CampaignStatus \cup {None},
                 seen : Nat, ref : Ref \cup {None},
                 todo : SUBSET (Sub \X SubRow), plan : SUBSET (Sub \X Change)]

TypeOK ==
  /\ campaign \in [Campaign -> CampaignRow]
  /\ foundation \in [Foundation -> BOOLEAN]
  /\ sub \in [Sub -> SubRow]
  /\ payment \in [Payment -> [for : Campaign \cup {None}, posted : BOOLEAN]]
  /\ offline \in [Offline -> [for : Campaign \cup {None}, ref : Ref \cup {None}]]
  /\ request \in [Request -> RequestState]
  /\ begun \in Nat
  /\ raced \subseteq Campaign \cup Sub

Init ==
  /\ campaign \in [Campaign -> [status : {"none", "draft", "active"}, of : Foundation, goal : Goal,
                                permanent : {FALSE}, collected : {0}]]
  /\ foundation = [f \in Foundation |-> TRUE]
  /\ sub \in [Sub -> {NoSub} \cup [status : {"active"}, strategy : {"specific_campaign"},
                                   campaign : Campaign, foundation : {None}, reason : {None}]]
  /\ \A x \in Sub : sub[x].campaign # None => campaign[sub[x].campaign].status = "active"
  /\ payment    = [p \in Payment |-> [for |-> None, posted |-> FALSE]]
  /\ offline    = [o \in Offline |-> [for |-> None, ref |-> None]]
  /\ request    = [s \in Request |-> Idle]
  /\ begun = 0
  /\ raced = {}

-----------------------------------------------------------------------------
(* Requests. *)

Concerns(r) == ({r.c} \cup {e[1] : e \in r.todo \cup r.plan} \cup {e[2].to : e \in r.plan}) \ {None}

Busy(s) == UNION {Concerns(request[o]) : o \in Request \ {s}}

At(s, r) ==
  /\ request' = [request EXCEPT ![s] = r]
  /\ raced' = raced \cup (Concerns(r) \cap Busy(s))

Begin(s, r) ==
  /\ request[s] = Idle
  /\ begun < MaxRequests
  /\ begun' = begun + 1
  /\ At(s, r)

Proceed(s, r) == At(s, r) /\ UNCHANGED begun

\* A handler or task that is one step changes the rows X.
Meets(X) == raced' = raced \cup (X \cap UNION {Concerns(request[o]) : o \in Request})

\* A request, or a charge, that is one step.
Once == begun < MaxRequests /\ begun' = begun + 1

Finish(s) == request' = [request EXCEPT ![s] = Idle] /\ UNCHANGED <<begun, raced>>

\* Rows that a request has flushed are locked until it is over.
Flushed(s) == LET r == request[s] IN
  (IF r.phase = "moving" /\ r.target # None THEN {r.c} ELSE {}) \cup {e[1] : e \in r.plan}
Unlocked(s, rows) == \A o \in Request \ {s} : rows \cap Flushed(o) = {}
Free(rows) == Unlocked(None, rows)

-----------------------------------------------------------------------------
(* Which campaign a subscription pays to, if the statuses are st. *)

\* A bug: campaigns that are not active are found too.
PlatformAnyStatus(st) == {c \in Campaign : foundation[campaign[c].of]} \cup {None}

\* The first by urgency, share collected and position, all of which an admin
\* may edit at any time: any of them.
Platform(st) ==
  LET C == {c \in Campaign : st[c] = "active" /\ foundation[campaign[c].of]} IN
  IF C = {} THEN {None} ELSE C

FoundationPool(st, f) ==
  LET C == {c \in Campaign : st[c] = "active" /\ campaign[c].of = f} IN
  IF f = None \/ C = {} THEN Platform(st) ELSE C

FindCampaign(st, row) ==
  CASE row.strategy = "specific_campaign" ->
         IF row.campaign # None /\ st[row.campaign] = "active"
         THEN {row.campaign} ELSE FoundationPool(st, row.foundation)
    [] row.strategy = "foundation_pool" -> FoundationPool(st, row.foundation)
    [] OTHER -> Platform(st)

Statuses == [c \in Campaign |-> campaign[c].status]

-----------------------------------------------------------------------------
(* The status of a campaign. *)

ValidTransitions ==
  {<<"draft", "active">>, <<"active", "paused">>, <<"active", "completed">>,
   <<"paused", "active">>, <<"completed", "archived">>}

CreateCampaign(c, f, g, permanent) ==
  /\ Once
  /\ campaign[c].status = "none"
  /\ campaign' = [campaign EXCEPT ![c].status = "draft", ![c].of = f, ![c].goal = g,
                                  ![c].permanent = permanent]
  /\ UNCHANGED <<foundation, sub, payment, offline, request, raced>>

\* PATCH: columns that no other statement writes; an UPDATE is sent for what differs.
UpdateCampaign(c, f, g, permanent) ==
  /\ Once
  /\ campaign[c].status # "none"
  /\ Free({c})
  /\ campaign' = [campaign EXCEPT ![c].of = f, ![c].goal = g, ![c].permanent = permanent]
  /\ campaign' # campaign
  /\ UNCHANGED <<foundation, sub, payment, offline, request, raced>>

UpdateFoundation(f) ==
  /\ Once
  /\ foundation' = [foundation EXCEPT ![f] = ~@]
  /\ UNCHANGED <<campaign, sub, payment, offline, request, raced>>

\* _transition.
Transition(s, c, target) ==
  /\ <<campaign[c].status, target>> \in ValidTransitions
  /\ Begin(s, [Idle EXCEPT !.phase = "loaded", !.c = c, !.target = target])
  /\ UNCHANGED <<campaign, foundation, sub, payment, offline>>

\* publish, pause and archive.
CommitStatus(s) ==
  LET r == request[s] IN
  /\ r.phase = "loaded" /\ r.target # "completed"
  /\ Unlocked(s, {r.c})
  /\ campaign' = [campaign EXCEPT ![r.c].status = r.target]
  /\ Finish(s)
  /\ UNCHANGED <<foundation, sub, payment, offline>>

\* A bug: paused subscriptions are left where they are.
BoundActive(c) ==
  {<<x, sub[x]>> : x \in {y \in Sub : sub[y].campaign = c /\ sub[y].status = "active"}}

\* The subscriptions reallocate_campaign_subscriptions reads.
Bound(c) ==
  {<<x, sub[x]>> : x \in {y \in Sub : sub[y].campaign = c /\ sub[y].status \in {"active", "paused"}}}

\* complete and close-early: UPDATE of the campaign, then the subscriptions.
Close(s) ==
  LET r == request[s] IN
  /\ r.phase = "loaded" /\ r.target = "completed"
  /\ Unlocked(s, {r.c})
  /\ Proceed(s, [r EXCEPT !.phase = "moving", !.todo = Bound(r.c)])
  /\ UNCHANGED <<campaign, foundation, sub, payment, offline>>

\* force-realloc: active subscriptions only, and the campaign may be in any status.
ForceRealloc(s, c) ==
  /\ campaign[c].status # "none"
  /\ Begin(s, [Idle EXCEPT !.phase = "moving", !.c = c,
                 !.todo = {e \in Bound(c) : e[2].status = "active"}])
  /\ UNCHANGED <<campaign, foundation, sub, payment, offline>>

\* The statuses a request sees: what is committed, and what it has written.
View(r) == IF r.target = "completed" THEN [Statuses EXCEPT ![r.c] = "completed"] ELSE Statuses

\* reallocate_subscription.
Move(s, e) ==
  LET r == request[s] IN
  /\ r.phase = "moving" /\ e \in r.todo
  /\ \E t \in FindCampaign(View(r), e[2]) :
       IF t # None /\ t = e[2].campaign
       THEN Proceed(s, [r EXCEPT !.todo = @ \ {e}])
       ELSE /\ Unlocked(s, {e[1]})
            /\ Proceed(s, [r EXCEPT !.todo = @ \ {e},
                                    !.plan = @ \cup {<<e[1], [to |-> t, from |-> e[2]]>>}])
  /\ UNCHANGED <<campaign, foundation, sub, payment, offline>>

\* A bug: the reason of the allocation change is written as the paused_reason.
MovedWithItsReason(row, ch) ==
  IF ch.to # None THEN [row EXCEPT !.campaign = ch.to]
  ELSE [row EXCEPT !.status = "paused", !.reason = "campaign_completed"]

\* The row of a subscription after change ch: of the columns set, those that
\* differ from what was loaded.
Moved(row, ch) ==
  IF ch.to # None THEN [row EXCEPT !.campaign = ch.to]
  ELSE [row EXCEPT !.status = IF ch.from.status = "paused" THEN @ ELSE "paused",
                   !.reason = IF ch.from.reason = "no_campaigns" THEN @ ELSE "no_campaigns"]

CommitMoves(s) ==
  LET r == request[s] IN
  /\ r.phase = "moving" /\ r.todo = {}
  /\ sub' = [x \in Sub |-> IF \E e \in r.plan : e[1] = x
                           THEN Moved(sub[x], (CHOOSE e \in r.plan : e[1] = x)[2])
                           ELSE sub[x]]
  /\ campaign' = IF r.target = None THEN campaign
                 ELSE [campaign EXCEPT ![r.c].status = r.target]
  /\ Finish(s)
  /\ UNCHANGED <<foundation, payment, offline>>

\* The handler raises or the worker dies.
Rollback(s) ==
  /\ request[s] # Idle
  /\ Finish(s)
  /\ UNCHANGED <<campaign, foundation, sub, payment, offline>>

\* auto_close_expired_campaigns: one UPDATE of those whose ends_at has passed,
\* which may be any.  No subscription is touched.
CloseExpired(C) ==
  /\ C # {} /\ Free(C)
  /\ \A c \in C : campaign[c].status = "active" /\ ~campaign[c].permanent
  /\ campaign' = [c \in Campaign |-> IF c \in C THEN [campaign[c] EXCEPT !.status = "completed"]
                                     ELSE campaign[c]]
  /\ Meets(C)
  /\ UNCHANGED <<foundation, sub, payment, offline, request, begun>>

-----------------------------------------------------------------------------
(* Money. *)

\* A bug: the status is not looked at.
ReachedAnyStatus(row) == ~row.permanent /\ row.goal # None /\ row.collected >= row.goal

Reached(row) == /\ ~row.permanent /\ row.goal # None /\ row.collected >= row.goal
                /\ row.status = "active"

\* check_campaign_auto_complete.
AutoComplete(row) == IF Reached(row) THEN [row EXCEPT !.status = "completed"] ELSE row

\* increment_campaign_counters, atomic_increment_collected: one UPDATE.
Collect(row) == [row EXCEPT !.collected = @ + 1]

Donate(p, c) ==
  /\ Once
  /\ payment[p].for = None
  /\ campaign[c].status = "active"
  /\ payment' = [payment EXCEPT ![p].for = c]
  /\ UNCHANGED <<campaign, foundation, sub, offline, request, raced>>

\* The billing task, or the first payment of a subscription (bind_card).
Charge(p, x) ==
  /\ Once
  /\ payment[p].for = None
  /\ sub[x].status \in {"active", "pending_payment_method"}
  /\ \E c \in FindCampaign(Statuses, sub[x]) \ {None} : payment' = [payment EXCEPT ![p].for = c]
  /\ UNCHANGED <<campaign, foundation, sub, offline, request, raced>>

\* The payment succeeds, whatever has become of the campaign.
Post(p) ==
  LET c == payment[p].for IN
  /\ c # None /\ ~payment[p].posted
  /\ Free({c})
  /\ payment' = [payment EXCEPT ![p].posted = TRUE]
  /\ campaign' = [campaign EXCEPT ![c] = AutoComplete(Collect(@))]
  /\ IF campaign'[c].status # campaign[c].status THEN Meets({c}) ELSE UNCHANGED raced
  /\ UNCHANGED <<foundation, sub, offline, request, begun>>

\* Payments are of one date and amount, so those with a reference differ in it;
\* a payment without one is not looked for.
Known(c, ref) == ref # None /\ \E o \in Offline : offline[o] = [for |-> c, ref |-> ref]

\* create_offline_payment refuses a payment it finds already made.
LoadOffline(s, c, ref) ==
  /\ campaign[c].status # "none"
  /\ ~Known(c, ref)
  /\ Begin(s, [Idle EXCEPT !.phase = "offline", !.c = c, !.ref = ref,
                           !.seen = campaign[c].collected])
  /\ UNCHANGED <<campaign, foundation, sub, payment, offline>>

\* A bug: the object loaded is increased instead of the row.
CollectLoaded(row, r) == [row EXCEPT !.collected = r.seen + 1]

\* What the UPDATE of an offline payment makes of the row, in request r.
CollectOffline(row, r) == Collect(row)

CommitOffline(s) ==
  LET r == request[s] IN
  /\ r.phase = "offline"
  /\ ~Known(r.c, r.ref)     \* idx_offline_payments_dedup
  /\ Unlocked(s, {r.c})
  /\ \E o \in Offline :
       /\ offline[o].for = None
       /\ offline' = [offline EXCEPT ![o] = [for |-> r.c, ref |-> r.ref]]
  /\ campaign' = [campaign EXCEPT ![r.c] = AutoComplete(CollectOffline(@, r))]
  /\ Finish(s)
  /\ UNCHANGED <<foundation, sub, payment>>

-----------------------------------------------------------------------------
(* Users' subscriptions. *)

\* create_subscription: a specific campaign has to be active when it is read.
\* The new row keeps a campaign or a foundation, never both.
LoadCreate(s, c) ==
  /\ campaign[c].status = "active"
  /\ Begin(s, [Idle EXCEPT !.phase = "creating", !.c = c])
  /\ UNCHANGED <<campaign, foundation, sub, payment, offline>>

CommitCreate(s) ==
  /\ request[s].phase = "creating"
  /\ \E x \in Sub :
       /\ sub[x].status = "none"
       /\ sub' = [sub EXCEPT ![x] = [NoSub EXCEPT !.status = "pending_payment_method",
                                        !.strategy = "specific_campaign", !.campaign = request[s].c]]
  /\ Finish(s)
  /\ UNCHANGED <<campaign, foundation, payment, offline>>

CreatePooled(x, f) ==
  /\ Once
  /\ sub[x].status = "none"
  /\ sub' = [sub EXCEPT ![x] = [NoSub EXCEPT !.status = "pending_payment_method", !.foundation = f,
               !.strategy = IF f = None THEN "platform_pool" ELSE "foundation_pool"]]
  /\ UNCHANGED <<campaign, foundation, payment, offline, request, raced>>

\* The row of x becomes `row', in one request of its user.
Rewrite(x, row) ==
  /\ Once
  /\ Free({x})
  /\ sub[x] # row
  /\ sub' = [sub EXCEPT ![x] = row]
  /\ raced' = raced \cup (IF {x, sub[x].campaign, row.campaign} \cap UNION {Concerns(request[s]) : s \in Request}
                           # {} THEN {x} ELSE {})
  /\ UNCHANGED <<campaign, foundation, payment, offline, request>>

\* update_subscription: whatever the body names is set, a null is not; so a row
\* may come to name both a campaign and a foundation.
UpdateSubscription(x, strategy, c, f) ==
  /\ sub[x].status # "none"
  /\ Rewrite(x, [sub[x] EXCEPT !.strategy = strategy, !.campaign = IF c = None THEN @ ELSE c,
                               !.foundation = IF f = None THEN @ ELSE f])

\* The first payment goes through.
ActivateSubscription(x) ==
  /\ sub[x].status = "pending_payment_method"
  /\ Rewrite(x, [sub[x] EXCEPT !.status = "active"])

PauseSubscription(x) ==
  /\ sub[x].status = "active"
  /\ Rewrite(x, [sub[x] EXCEPT !.status = "paused", !.reason = "user_request"])

ResumeSubscription(x) ==
  /\ sub[x].status = "paused"
  /\ Rewrite(x, [sub[x] EXCEPT !.status = "active", !.reason = None])

CancelSubscription(x) ==
  /\ sub[x].status # "none"
  /\ Rewrite(x, [sub[x] EXCEPT !.status = "cancelled"])

-----------------------------------------------------------------------------
Handle(s) ==
  \/ \E c \in Campaign, t \in CampaignStatus : Transition(s, c, t)
  \/ CommitStatus(s)
  \/ Close(s)
  \/ \E c \in Campaign : ForceRealloc(s, c)
  \/ \E e \in request[s].todo : Move(s, e)
  \/ CommitMoves(s)
  \/ \E c \in Campaign, ref \in Ref \cup {None} : LoadOffline(s, c, ref)
  \/ CommitOffline(s)
  \/ \E c \in Campaign : LoadCreate(s, c)
  \/ CommitCreate(s)
  \/ Rollback(s)

Catalogue ==
  \/ \E c \in Campaign, f \in Foundation, g \in Goal \cup {None}, b \in BOOLEAN :
       CreateCampaign(c, f, g, b)
  \/ \E c \in Campaign, f \in Foundation, g \in Goal \cup {None}, b \in BOOLEAN :
       UpdateCampaign(c, f, g, b)
  \/ \E f \in Foundation : UpdateFoundation(f)
  \/ \E C \in SUBSET Campaign : CloseExpired(C)

Pay(p) ==
  \/ \E c \in Campaign : Donate(p, c)
  \/ \E x \in Sub : Charge(p, x)
  \/ Post(p)

Subscribe(x) ==
  \/ \E f \in Foundation \cup {None} : CreatePooled(x, f)
  \/ \E t \in Strategy, c \in Campaign \cup {None}, f \in Foundation \cup {None} :
       UpdateSubscription(x, t, c, f)
  \/ ActivateSubscription(x)
  \/ PauseSubscription(x)
  \/ ResumeSubscription(x)
  \/ CancelSubscription(x)

Next ==
  \/ \E s \in Request : Handle(s)
  \/ Catalogue
  \/ \E p \in Payment : Pay(p)
  \/ \E x \in Sub : Subscribe(x)

Spec == Init /\ [][Next]_vars

-----------------------------------------------------------------------------
\* A campaign's status changes only along VALID_TRANSITIONS, though it is also
\* changed by payments and by the nightly task, whose UPDATEs do not ask
\* validate_status_transition; unless two of them were at work on it at once.
LifeCycle ==
  [][\A c \in Campaign :
       campaign'[c].status # campaign[c].status =>
         \/ campaign[c].status = "none"
         \/ <<campaign[c].status, campaign'[c].status>> \in ValidTransitions
         \/ c \in raced']_vars

\* When an admin's closing commits, no subscription that is charged, or could
\* be by being resumed, is left on the campaign, unless it is paused for want
\* of campaigns or it was created or changed while the closing was at work.
ClosingEmpties ==
  [][\A s \in Request :
       (request[s].phase = "moving" /\ request[s].target = "completed" /\ campaign' # campaign
          /\ request'[s] = Idle)
         => \A x \in Sub : (sub'[x].campaign = request[s].c /\ sub'[x].status \in {"active", "paused"})
              => \/ sub'[x].reason = "no_campaigns"
                 \/ {x, request[s].c} \cap raced # {}]_vars

\* A subscription is moved to a campaign that is active when the move commits,
\* unless another request was at work on that campaign (to close it, say).
MovedToActive ==
  [][\A s \in Request, x \in Sub :
       (request[s].phase = "moving" /\ request'[s] = Idle /\ sub'[x].campaign # sub[x].campaign)
         => \/ campaign'[sub'[x].campaign].status = "active"
            \/ sub'[x].campaign \in raced]_vars

\* collected_amount is the sum of the payments posted and of the offline
\* payments, whichever of them are posted at the same time.
CollectedExact ==
  \A c \in Campaign :
    campaign[c].collected = Cardinality({p \in Payment : payment[p].for = c /\ payment[p].posted})
                            + Cardinality({o \in Offline : offline[o].for = c})

=============================================================================
