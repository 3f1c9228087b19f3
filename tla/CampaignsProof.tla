---------------------------- MODULE CampaignsProof -----------------------------
(***************************************************************************)
(* Safety of Campaigns for every set of campaigns, foundations,            *)
(* subscriptions, payments, references and requests, and every bound.      *)
(***************************************************************************)
EXTENDS Campaigns, FiniteSetTheorems, TLAPS

LEMMA IdleType == Idle \in RequestState
  BY DEF Idle, RequestState, Phase

LEMMA InitType == Init => TypeOK
<1> SUFFICES ASSUME Init PROVE TypeOK
  OBVIOUS
<1>1. campaign \in [Campaign -> CampaignRow]
  <2>1. campaign \in [Campaign -> [status : {"none", "draft", "active"}, of : Foundation,
                                   goal : Goal, permanent : {FALSE}, collected : {0}]]
    BY DEF Init
  <2>2. {FALSE} \subseteq BOOLEAN /\ {0} \subseteq Nat
        /\ {"none", "draft", "active"} \subseteq CampaignStatus
    BY DEF CampaignStatus
  <2>3. \A A, B, D, E, A1, B1, D1, E1 :
          A \subseteq A1 /\ B \subseteq B1 /\ D \subseteq D1 /\ E \subseteq E1 =>
            [status : A, of : Foundation, goal : B, permanent : D, collected : E]
              \subseteq [status : A1, of : Foundation, goal : B1, permanent : D1, collected : E1]
    OBVIOUS
  <2>4. [status : {"none", "draft", "active"}, of : Foundation, goal : Goal,
         permanent : {FALSE}, collected : {0}] \subseteq CampaignRow
    BY <2>2, <2>3 DEF CampaignRow
  <2>5. QED
    BY <2>1, <2>4
<1>2. sub \in [Sub -> SubRow]
  BY DEF Init, NoSub, SubRow, SubStatus, Strategy
<1>3. QED
  BY <1>1, <1>2, IdleType DEF Init, TypeOK

LEMMA AtType ==
  ASSUME TypeOK, NEW s \in Request, NEW r \in RequestState, At(s, r)
  PROVE  /\ request' \in [Request -> RequestState]
         /\ raced' \subseteq Campaign \cup Sub
<1>1. request' \in [Request -> RequestState]
  BY DEF TypeOK, At
<1>2. Concerns(r) \subseteq Campaign \cup Sub
  BY DEF Concerns, RequestState, Change
<1>3. QED
  BY <1>1, <1>2 DEF TypeOK, At

LEMMA FinishType ==
  ASSUME TypeOK, NEW s \in Request, Finish(s)
  PROVE  /\ request' \in [Request -> RequestState]
         /\ raced' \subseteq Campaign \cup Sub /\ begun' \in Nat
  BY IdleType DEF TypeOK, Finish

\* What the pools find is a campaign that is active, or nothing.
LEMMA PoolsFind ==
  ASSUME NEW st, NEW f, NEW t \in Platform(st) \cup FoundationPool(st, f), t # None
  PROVE  t \in Campaign /\ st[t] = "active"
  BY DEF Platform, FoundationPool

LEMMA Finds ==
  ASSUME NEW st, NEW row \in SubRow, NEW t \in FindCampaign(st, row), t # None
  PROVE  t \in Campaign /\ st[t] = "active"
<1>1. CASE row.strategy = "specific_campaign" /\ row.campaign # None /\ st[row.campaign] = "active"
  BY <1>1 DEF FindCampaign, SubRow
<1>2. CASE ~(row.strategy = "specific_campaign" /\ row.campaign # None
             /\ st[row.campaign] = "active")
  <2>1. t \in Platform(st) \cup FoundationPool(st, row.foundation)
    BY <1>2 DEF FindCampaign
  <2>2. QED
    BY <2>1, PoolsFind
<1>3. QED
  BY <1>1, <1>2

\* Closing by goal changes nothing of a row but its status.
LEMMA CollectType ==
  ASSUME NEW row \in CampaignRow
  PROVE  /\ AutoComplete(Collect(row)) \in CampaignRow
         /\ AutoComplete(Collect(row)).collected = row.collected + 1
         /\ \/ AutoComplete(Collect(row)).status = row.status
            \/ row.status = "active" /\ AutoComplete(Collect(row)).status = "completed"
<1>1. /\ Collect(row) \in CampaignRow
      /\ Collect(row).collected = row.collected + 1 /\ Collect(row).status = row.status
  BY DEF Collect, CampaignRow
<1>2. \A r \in CampaignRow : /\ [r EXCEPT !.status = "completed"] \in CampaignRow
                            /\ [r EXCEPT !.status = "completed"].collected = r.collected
                            /\ [r EXCEPT !.status = "completed"].status = "completed"
  BY DEF CampaignRow, CampaignStatus
<1>3. CASE Reached(Collect(row))
  BY <1>1, <1>2, <1>3 DEF AutoComplete, Reached
<1>4. CASE ~Reached(Collect(row))
  BY <1>1, <1>4 DEF AutoComplete
<1>5. QED
  BY <1>3, <1>4

\* Requests.
LEMMA RequestType ==
  ASSUME TypeOK, NEW s \in Request
  PROVE  /\ request[s].phase \in Phase /\ request[s].c \in Campaign \cup {None}
         /\ request[s].target \in CampaignStatus \cup {None}
         /\ request[s].ref \in Ref \cup {None} /\ request[s].seen \in Nat
         /\ request[s].todo \subseteq Sub \X SubRow /\ request[s].plan \subseteq Sub \X Change
         /\ request[s] = [phase |-> request[s].phase, c |-> request[s].c,
                          target |-> request[s].target, seen |-> request[s].seen,
                          ref |-> request[s].ref, todo |-> request[s].todo,
                          plan |-> request[s].plan]
  BY DEF TypeOK, RequestState

\* A request that is not idle has a campaign; what it is to do with it is known.
RequestRight(s) ==
  LET r == request[s] IN
  /\ r.phase # "idle" => r.c \in Campaign
  /\ r.phase = "loaded" => r.target # None
  /\ r.phase = "moving" => r.target \in {None, "completed"}
  /\ r.phase \notin {"loaded", "moving"} => r.target = None
  /\ r.phase # "moving" => r.todo = {} /\ r.plan = {}

RequestRights == \A s \in Request : RequestRight(s)

\* Closing by goal changes nothing else of a row.
LEMMA CollectedType ==
  ASSUME TypeOK, NEW c \in Campaign
  PROVE  [campaign EXCEPT ![c] = AutoComplete(Collect(@))] \in [Campaign -> CampaignRow]
<1>1. campaign[c] \in CampaignRow
  BY DEF TypeOK
<1>2. AutoComplete(Collect(campaign[c])) \in CampaignRow
  BY <1>1, CollectType
<1>3. QED
  BY <1>2 DEF TypeOK

LEMMA MovedType ==
  ASSUME NEW row \in SubRow, NEW ch \in Change
  PROVE  Moved(row, ch) \in SubRow
<1>1. /\ \A to \in Campaign \cup {None} : [row EXCEPT !.campaign = to] \in SubRow
      /\ \A st \in SubStatus, why \in {None, "user_request", "no_campaigns"} :
           [row EXCEPT !.status = st, !.reason = why] \in SubRow
  BY DEF SubRow
<1>2. ch.to \in Campaign \cup {None}
  BY DEF Change
<1>3. CASE ch.to # None
  BY <1>1, <1>2, <1>3 DEF Moved
<1>4. CASE ch.to = None
  <2>1. row.status \in SubStatus /\ "paused" \in SubStatus
        /\ row.reason \in {None, "user_request", "no_campaigns"}
    BY DEF SubRow, SubStatus
  <2>2. QED
    BY <1>1, <1>4, <2>1 DEF Moved
<1>5. QED
  BY <1>3, <1>4

LEMMA CommitMovesType ==
  ASSUME TypeOK, NEW s \in Request, CommitMoves(s)
  PROVE  sub' \in [Sub -> SubRow]
<1>1. request[s].plan \subseteq Sub \X Change
  BY RequestType
<1>2. ASSUME NEW x \in Sub, \E e \in request[s].plan : e[1] = x
      PROVE  Moved(sub[x], (CHOOSE e \in request[s].plan : e[1] = x)[2]) \in SubRow
  <2>1. PICK k : k = CHOOSE e \in request[s].plan : e[1] = x
    OBVIOUS
  <2>2. k \in request[s].plan
    BY <1>2, <2>1
  <2>3. k[2] \in Change /\ sub[x] \in SubRow
    BY <1>1, <2>2 DEF TypeOK
  <2>4. QED
    BY <2>1, <2>3, MovedType
<1>3. \A x \in Sub : sub[x] \in SubRow
  BY DEF TypeOK
<1>4. QED
  BY <1>2, <1>3 DEF CommitMoves

LEMMA HandleType ==
  ASSUME TypeOK, RequestRights, NEW s \in Request, Handle(s)
  PROVE  TypeOK'
<1> DEFINE r == request[s]
<1>1. RequestRight(s) /\ r \in RequestState
  BY DEF RequestRights, TypeOK
<1>2. ASSUME NEW q \in RequestState, Begin(s, q),
             UNCHANGED <<campaign, foundation, sub, payment, offline>>
      PROVE  TypeOK'
  <2>1. At(s, q) /\ begun' \in Nat
    BY <1>2 DEF Begin, TypeOK
  <2>2. QED
    BY <1>2, <2>1, AtType DEF TypeOK
<1>3. ASSUME NEW q \in RequestState, Proceed(s, q),
             UNCHANGED <<campaign, foundation, sub, payment, offline>>
      PROVE  TypeOK'
  <2>1. At(s, q) /\ begun' = begun
    BY <1>3 DEF Proceed
  <2>2. QED
    BY <1>3, <2>1, AtType DEF TypeOK
<1>4. ASSUME Finish(s), campaign' \in [Campaign -> CampaignRow], sub' \in [Sub -> SubRow],
             offline' \in [Offline -> [for : Campaign \cup {None}, ref : Ref \cup {None}]],
             UNCHANGED <<foundation, payment>>
      PROVE  TypeOK'
  BY <1>4, FinishType DEF TypeOK
<1>5. \A t : Bound(t) \subseteq Sub \X SubRow
  BY DEF Bound, TypeOK
<1>6. ASSUME NEW c \in Campaign, NEW t \in CampaignStatus, Transition(s, c, t) PROVE TypeOK'
  <2>1. [Idle EXCEPT !.phase = "loaded", !.c = c, !.target = t] \in RequestState
    BY DEF Idle, RequestState, Phase
  <2>2. QED
    BY <1>2, <1>6, <2>1 DEF Transition
<1>7. ASSUME CommitStatus(s) PROVE TypeOK'
  <2>1. r.c \in Campaign /\ r.target \in CampaignStatus
    BY <1>1, <1>7, RequestType DEF CommitStatus, RequestRight
  <2>2. [campaign[r.c] EXCEPT !.status = r.target] \in CampaignRow
    BY <2>1 DEF TypeOK, CampaignRow
  <2>3. campaign' \in [Campaign -> CampaignRow]
    BY <1>7, <2>2 DEF CommitStatus, TypeOK
  <2>4. QED
    BY <1>4, <1>7, <2>3 DEF CommitStatus, TypeOK
<1>8. ASSUME Close(s) PROVE TypeOK'
  <2>1. [r EXCEPT !.phase = "moving", !.todo = Bound(r.c)] \in RequestState
    BY <1>1, <1>5 DEF RequestState, Phase
  <2>2. QED
    BY <1>3, <1>8, <2>1 DEF Close
<1>9. ASSUME NEW c \in Campaign, ForceRealloc(s, c) PROVE TypeOK'
  <2>1. {e \in Bound(c) : e[2].status = "active"} \in SUBSET (Sub \X SubRow)
    BY <1>5
  <2>2. [Idle EXCEPT !.phase = "moving", !.c = c,
                     !.todo = {e \in Bound(c) : e[2].status = "active"}] \in RequestState
    BY <2>1 DEF Idle, RequestState, Phase
  <2>3. QED
    BY <1>2, <1>9, <2>2 DEF ForceRealloc
<1>10. ASSUME NEW e \in r.todo, Move(s, e) PROVE TypeOK'
  <2>1. /\ e[1] \in Sub /\ e[2] \in SubRow
        /\ r.todo \ {e} \in SUBSET (Sub \X SubRow) /\ r.plan \in SUBSET (Sub \X Change)
    BY <1>1, <1>10 DEF RequestState
  <2>2. PICK t \in FindCampaign(View(r), e[2]) :
          \/ Proceed(s, [r EXCEPT !.todo = @ \ {e}])
          \/ Proceed(s, [r EXCEPT !.todo = @ \ {e},
                                  !.plan = @ \cup {<<e[1], [to |-> t, from |-> e[2]]>>}])
    BY <1>10 DEF Move
  <2>3. t \in Campaign \cup {None}
    BY <2>1, Finds
  <2>4. r.plan \cup {<<e[1], [to |-> t, from |-> e[2]]>>} \in SUBSET (Sub \X Change)
    BY <2>1, <2>3 DEF Change
  <2>5. /\ [r EXCEPT !.todo = @ \ {e}] \in RequestState
        /\ [r EXCEPT !.todo = @ \ {e},
                     !.plan = @ \cup {<<e[1], [to |-> t, from |-> e[2]]>>}] \in RequestState
    BY <1>1, <2>1, <2>4 DEF RequestState
  <2>6. QED
    BY <1>3, <1>10, <2>2, <2>5 DEF Move
<1>11. ASSUME CommitMoves(s) PROVE TypeOK'
  <2>1. r.target = None \/ (r.c \in Campaign /\ r.target = "completed")
    BY <1>1, <1>11 DEF CommitMoves, RequestRight
  <2>2. campaign' \in [Campaign -> CampaignRow]
    <3>1. ASSUME r.c \in Campaign
          PROVE  [campaign[r.c] EXCEPT !.status = "completed"] \in CampaignRow
      <4>1. campaign[r.c] \in CampaignRow /\ "completed" \in CampaignStatus
        BY <3>1 DEF TypeOK, CampaignStatus
      <4>2. QED
        BY <4>1 DEF CampaignRow
    <3>2. QED
      BY <1>11, <2>1, <3>1 DEF CommitMoves, TypeOK
  <2>3. sub' \in [Sub -> SubRow]
    BY <1>11, CommitMovesType
  <2>4. QED
    BY <1>4, <1>11, <2>2, <2>3 DEF CommitMoves, TypeOK
<1>12. ASSUME NEW c \in Campaign, NEW ref \in Ref \cup {None}, LoadOffline(s, c, ref)
       PROVE  TypeOK'
  <2>1. campaign[c].collected \in Nat
    BY DEF TypeOK, CampaignRow
  <2>2. [Idle EXCEPT !.phase = "offline", !.c = c, !.ref = ref, !.seen = campaign[c].collected]
          \in RequestState
    BY <2>1 DEF Idle, RequestState, Phase
  <2>3. QED
    BY <1>2, <1>12, <2>2 DEF LoadOffline
<1>13. ASSUME CommitOffline(s) PROVE TypeOK'
  <2>1. r.c \in Campaign /\ r.ref \in Ref \cup {None}
    BY <1>1, <1>13, RequestType DEF CommitOffline, RequestRight
  <2>2. campaign' \in [Campaign -> CampaignRow]
    BY <1>13, <2>1, CollectedType DEF CommitOffline, CollectOffline
  <2>3. offline' \in [Offline -> [for : Campaign \cup {None}, ref : Ref \cup {None}]]
    BY <1>13, <2>1 DEF CommitOffline, TypeOK
  <2>4. QED
    BY <1>4, <1>13, <2>2, <2>3 DEF CommitOffline, TypeOK
<1>14. ASSUME NEW c \in Campaign, LoadCreate(s, c) PROVE TypeOK'
  <2>1. [Idle EXCEPT !.phase = "creating", !.c = c] \in RequestState
    BY DEF Idle, RequestState, Phase
  <2>2. QED
    BY <1>2, <1>14, <2>1 DEF LoadCreate
<1>15. ASSUME CommitCreate(s) PROVE TypeOK'
  <2>1. [NoSub EXCEPT !.status = "pending_payment_method", !.strategy = "specific_campaign",
                      !.campaign = request[s].c] \in SubRow
    BY RequestType DEF NoSub, SubRow, SubStatus, Strategy
  <2>2. sub' \in [Sub -> SubRow]
    BY <1>15, <2>1 DEF CommitCreate, TypeOK
  <2>3. QED
    BY <1>4, <1>15, <2>2 DEF CommitCreate, TypeOK
<1>16. ASSUME Rollback(s) PROVE TypeOK'
  BY <1>4, <1>16 DEF Rollback, TypeOK
<1>17. QED
  BY <1>6, <1>7, <1>8, <1>9, <1>10, <1>11, <1>12, <1>13, <1>14, <1>15, <1>16 DEF Handle

LEMMA CatalogueType ==
  ASSUME TypeOK, Catalogue
  PROVE  TypeOK'
<1>1. ASSUME NEW c \in Campaign, NEW f \in Foundation, NEW g \in Goal \cup {None},
             NEW b \in BOOLEAN, CreateCampaign(c, f, g, b)
      PROVE  TypeOK'
  <2>1. [campaign[c] EXCEPT !.status = "draft", !.of = f, !.goal = g, !.permanent = b] \in CampaignRow
    <3>1. \A B : \A row \in [status : CampaignStatus, of : Foundation, goal : Goal \cup {None},
                             permanent : B, collected : Nat], d \in B :
            [row EXCEPT !.status = "draft", !.of = f, !.goal = g, !.permanent = d]
              \in [status : CampaignStatus, of : Foundation, goal : Goal \cup {None},
                   permanent : B, collected : Nat]
      BY DEF CampaignStatus
    <3>2. \A row \in CampaignRow, d \in BOOLEAN :
            [row EXCEPT !.status = "draft", !.of = f, !.goal = g, !.permanent = d] \in CampaignRow
      BY <3>1 DEF CampaignRow
    <3>3. QED
      BY <3>2 DEF TypeOK
  <2>2. campaign' \in [Campaign -> CampaignRow]
    BY <1>1, <2>1 DEF CreateCampaign, TypeOK
  <2>3. QED
    BY <1>1, <2>2 DEF CreateCampaign, Once, TypeOK
<1>2. ASSUME NEW c \in Campaign, NEW f \in Foundation, NEW g \in Goal \cup {None},
             NEW b \in BOOLEAN, UpdateCampaign(c, f, g, b)
      PROVE  TypeOK'
  <2>1. [campaign[c] EXCEPT !.of = f, !.goal = g, !.permanent = b] \in CampaignRow
    <3>1. \A B : \A row \in [status : CampaignStatus, of : Foundation, goal : Goal \cup {None},
                             permanent : B, collected : Nat], d \in B :
            [row EXCEPT !.of = f, !.goal = g, !.permanent = d]
              \in [status : CampaignStatus, of : Foundation, goal : Goal \cup {None},
                   permanent : B, collected : Nat]
      OBVIOUS
    <3>2. \A row \in CampaignRow, d \in BOOLEAN :
            [row EXCEPT !.of = f, !.goal = g, !.permanent = d] \in CampaignRow
      BY <3>1 DEF CampaignRow
    <3>3. QED
      BY <3>2 DEF TypeOK
  <2>2. campaign' \in [Campaign -> CampaignRow]
    BY <1>2, <2>1 DEF UpdateCampaign, TypeOK
  <2>3. QED
    BY <1>2, <2>2 DEF UpdateCampaign, Once, TypeOK
<1>3. ASSUME NEW f \in Foundation, UpdateFoundation(f) PROVE TypeOK'
  BY <1>3 DEF UpdateFoundation, Once, TypeOK
<1>4. ASSUME NEW C \in SUBSET Campaign, CloseExpired(C) PROVE TypeOK'
  <2>1. \A c \in Campaign : [campaign[c] EXCEPT !.status = "completed"] \in CampaignRow
    BY DEF TypeOK, CampaignRow, CampaignStatus
  <2>2. campaign' \in [Campaign -> CampaignRow]
    BY <1>4, <2>1 DEF CloseExpired, TypeOK
  <2>3. raced' \subseteq Campaign \cup Sub
    BY <1>4 DEF CloseExpired, Meets, TypeOK
  <2>4. QED
    BY <1>4, <2>2, <2>3 DEF CloseExpired, TypeOK
<1>5. QED
  BY <1>1, <1>2, <1>3, <1>4 DEF Catalogue

LEMMA PayType ==
  ASSUME TypeOK, NEW p \in Payment, Pay(p)
  PROVE  TypeOK'
<1>1. ASSUME NEW c \in Campaign, Donate(p, c) PROVE TypeOK'
  BY <1>1 DEF Donate, Once, TypeOK
<1>2. ASSUME NEW x \in Sub, Charge(p, x) PROVE TypeOK'
  <2>1. PICK c \in FindCampaign(Statuses, sub[x]) \ {None} :
          payment' = [payment EXCEPT ![p].for = c]
    BY <1>2 DEF Charge
  <2>2. sub[x] \in SubRow
    BY DEF TypeOK
  <2>3. c \in Campaign
    BY <2>1, <2>2, Finds
  <2>4. payment' \in [Payment -> [for : Campaign \cup {None}, posted : BOOLEAN]]
    BY <2>1, <2>3 DEF TypeOK
  <2>5. QED
    BY <1>2, <2>4 DEF Charge, Once, TypeOK
<1>3. ASSUME Post(p) PROVE TypeOK'
  <2>1. payment[p].for \in Campaign
    BY <1>3 DEF Post, TypeOK
  <2>2. campaign' \in [Campaign -> CampaignRow]
    BY <1>3, <2>1, CollectedType DEF Post
  <2>3. raced' \subseteq Campaign \cup Sub
    BY <1>3, <2>1 DEF Post, Meets, TypeOK
  <2>4. payment' \in [Payment -> [for : Campaign \cup {None}, posted : BOOLEAN]]
    BY <1>3 DEF Post, TypeOK
  <2>5. QED
    BY <1>3, <2>2, <2>3, <2>4 DEF Post, TypeOK
<1>4. QED
  BY <1>1, <1>2, <1>3 DEF Pay

\* One step of a user's: the row, or its creation.
LEMMA SubscribeStep ==
  ASSUME TypeOK, NEW x \in Sub, Subscribe(x)
  PROVE  /\ UNCHANGED <<campaign, foundation, payment, offline, request>>
         /\ begun' \in Nat
         /\ \E row \in SubRow :
              /\ sub' = [sub EXCEPT ![x] = row]
              /\ \/ Rewrite(x, row)
                 \/ row.campaign = None /\ sub[x].status = "none" /\ raced' = raced
<1>1. ASSUME NEW row \in SubRow, Rewrite(x, row)
      PROVE  /\ UNCHANGED <<campaign, foundation, payment, offline, request>> /\ begun' \in Nat
             /\ sub' = [sub EXCEPT ![x] = row]
  BY <1>1 DEF Rewrite, Once, TypeOK
<1>2. ASSUME NEW f \in Foundation \cup {None}, CreatePooled(x, f)
      PROVE  /\ UNCHANGED <<campaign, foundation, payment, offline, request>> /\ begun' \in Nat
             /\ \E row \in SubRow : /\ sub' = [sub EXCEPT ![x] = row] /\ row.campaign = None
                                    /\ sub[x].status = "none" /\ raced' = raced
  <2> DEFINE row == [NoSub EXCEPT !.status = "pending_payment_method", !.foundation = f,
                       !.strategy = IF f = None THEN "platform_pool" ELSE "foundation_pool"]
  <2>1. row \in SubRow /\ row.campaign = None
    BY DEF NoSub, SubRow, SubStatus, Strategy
  <2>2. UNCHANGED <<campaign, foundation, payment, offline, request>> /\ begun' \in Nat
    BY <1>2 DEF CreatePooled, Once, TypeOK
  <2>3. sub' = [sub EXCEPT ![x] = row] /\ sub[x].status = "none" /\ raced' = raced
    BY <1>2 DEF CreatePooled
  <2>4. QED
    BY <2>1, <2>2, <2>3
<1>3. sub[x] \in SubRow
  BY DEF TypeOK
<1>4. ASSUME NEW t \in Strategy, NEW c \in Campaign \cup {None}, NEW f \in Foundation \cup {None}
      PROVE  [sub[x] EXCEPT !.strategy = t, !.campaign = IF c = None THEN @ ELSE c,
                            !.foundation = IF f = None THEN @ ELSE f] \in SubRow
  BY <1>3 DEF SubRow
<1>5. /\ [sub[x] EXCEPT !.status = "active"] \in SubRow
      /\ [sub[x] EXCEPT !.status = "paused", !.reason = "user_request"] \in SubRow
      /\ [sub[x] EXCEPT !.status = "active", !.reason = None] \in SubRow
      /\ [sub[x] EXCEPT !.status = "cancelled"] \in SubRow
  BY <1>3 DEF SubRow, SubStatus
<1>6. \/ \E f \in Foundation \cup {None} : CreatePooled(x, f)
      \/ \E row \in SubRow : Rewrite(x, row)
  BY <1>4, <1>5
  DEF Subscribe, UpdateSubscription, ActivateSubscription, PauseSubscription, ResumeSubscription,
      CancelSubscription
<1>7. QED
  BY <1>1, <1>2, <1>6

LEMMA SubscribeType ==
  ASSUME TypeOK, NEW x \in Sub, Subscribe(x)
  PROVE  TypeOK'
<1>1. PICK row \in SubRow : /\ sub' = [sub EXCEPT ![x] = row]
                            /\ Rewrite(x, row) \/ raced' = raced
  BY SubscribeStep
<1>2. raced' \subseteq Campaign \cup Sub
  BY <1>1 DEF Rewrite, TypeOK
<1>3. UNCHANGED <<campaign, foundation, payment, offline, request>> /\ begun' \in Nat
  BY SubscribeStep
<1>4. QED
  BY <1>1, <1>2, <1>3 DEF TypeOK

LEMMA NextType ==
  ASSUME TypeOK, RequestRights, [Next]_vars
  PROVE  TypeOK'
<1>1. CASE UNCHANGED vars
  BY <1>1 DEF vars, TypeOK
<1>2. QED
  BY <1>1, HandleType, CatalogueType, PayType, SubscribeType DEF Next

-----------------------------------------------------------------------------
(***************************************************************************)
(* What requests have read.  A row one of them has read and acts on is as  *)
(* it was read, or another step has been at work on it meanwhile and       *)
(* `raced' has it.                                                         *)
(***************************************************************************)
IsBound(row, c) == row.campaign = c /\ row.status \in {"active", "paused"}

\* Two requests that are at work on the same row have raced on it.
Apart ==
  \A s, o \in Request : s # o => Concerns(request[s]) \cap Concerns(request[o]) \subseteq raced

\* The campaign a request closes or publishes is in the status it was read in.
Seen(s) ==
  LET r == request[s] IN
  r.target # None => <<campaign[r.c].status, r.target>> \in ValidTransitions \/ r.c \in raced

\* The subscriptions still to be moved are as they were read, ...
TodoCurrent(s) ==
  \A e \in request[s].todo : /\ IsBound(e[2], request[s].c)
                             /\ sub[e[1]] = e[2] \/ e[1] \in raced

\* ... so are those with a new campaign, which is active and not the one that
\* is being closed.
PlanCurrent(s) ==
  \A e \in request[s].plan :
    /\ IsBound(e[2].from, request[s].c)
    /\ sub[e[1]] = e[2].from \/ e[1] \in raced
    /\ e[2].to # None => /\ request[s].target = "completed" => e[2].to # request[s].c
                         /\ campaign[e[2].to].status = "active" \/ e[2].to \in raced

\* The subscriptions that request r moves or leaves unpaid.
Listed(r) == {e[1] : e \in r.todo \cup r.plan}

\* A closing lists every subscription of the campaign.
Swept(s) ==
  LET r == request[s] IN
  r.phase = "moving" /\ r.target = "completed" =>
    \A x \in Sub : IsBound(sub[x], r.c) => x \in Listed(r) \/ {x, r.c} \cap raced # {}

Held(s) == RequestRight(s) /\ Seen(s) /\ TodoCurrent(s) /\ PlanCurrent(s) /\ Swept(s)

RaceInv == TypeOK /\ Apart /\ \A s \in Request : Held(s)

\* Request r acts on the status of campaign c.
Watches(r, c) == (r.target # None /\ c = r.c) \/ \E e \in r.plan : e[2].to = c

-----------------------------------------------------------------------------
LEMMA ConcernsAre ==
  ASSUME NEW r \in RequestState
  PROVE  /\ \A c \in Campaign : c = r.c \/ (\E e \in r.plan : e[2].to = c) => c \in Concerns(r)
         /\ \A x \in Sub : x \in Concerns(r) <=> \E e \in r.todo \cup r.plan : e[1] = x
         /\ None \notin Concerns(r)
<1>1. \A c \in Campaign : c # None
  BY CampaignsAssumption
<1>2. \A x \in Sub : x # None /\ x \notin Campaign
  BY CampaignsAssumption
<1>3. r.c \in Campaign \cup {None} /\ \A e \in r.plan : e[2].to \in Campaign \cup {None}
  BY DEF RequestState, Change
<1>4. QED
  BY <1>1, <1>2, <1>3 DEF Concerns

LEMMA IdleConcerns == Concerns(Idle) = {}
  BY DEF Concerns, Idle

LEMMA IdleHeld ==
  ASSUME NEW s \in Request, request'[s] = Idle
  PROVE  Held(s)'
  BY DEF Held, RequestRight, Seen, TodoCurrent, PlanCurrent, Swept, Idle

\* Two requests stay apart while one takes a step, or ends.
LEMMA ApartAt ==
  ASSUME TypeOK, Apart, NEW s \in Request, NEW r, At(s, r)
  PROVE  Apart' /\ raced \subseteq raced'
<1>1. /\ raced' = raced \cup (Concerns(r) \cap Busy(s))
      /\ request'[s] = r /\ \A o \in Request \ {s} : request'[o] = request[o]
  BY DEF At, TypeOK
<1>2. \A o \in Request \ {s} : Concerns(request[o]) \subseteq Busy(s)
  BY DEF Busy
<1>3. \A o \in Request \ {s} : Concerns(request'[o]) = Concerns(request[o])
  BY <1>1
<1>4. Concerns(request'[s]) = Concerns(r)
  BY <1>1
<1>5. ASSUME NEW k \in Request, NEW o \in Request, k # o
      PROVE  Concerns(request'[k]) \cap Concerns(request'[o]) \subseteq raced'
  <2>1. CASE k = s
    BY <1>1, <1>2, <1>3, <1>4, <1>5, <2>1
  <2>2. CASE o = s
    BY <1>1, <1>2, <1>3, <1>4, <1>5, <2>2
  <2>3. CASE k # s /\ o # s
    BY <1>1, <1>3, <1>5, <2>3 DEF Apart
  <2>4. QED
    BY <2>1, <2>2, <2>3
<1>6. Apart'
  BY <1>5 DEF Apart, Concerns
<1>7. QED
  BY <1>1, <1>6

LEMMA ApartFinish ==
  ASSUME TypeOK, Apart, NEW s \in Request, Finish(s)
  PROVE  Apart' /\ raced' = raced /\ request'[s] = Idle
<1>1. /\ raced' = raced /\ request'[s] = Idle
      /\ \A o \in Request \ {s} : request'[o] = request[o]
  BY DEF Finish, TypeOK
<1>2. /\ \A o \in Request \ {s} : Concerns(request'[o]) = Concerns(request[o])
      /\ Concerns(request'[s]) = {}
  BY <1>1, IdleConcerns
<1>3. \A k, o \in Request : k # o => Concerns(request'[k]) \cap Concerns(request'[o]) \subseteq raced'
  BY <1>1, <1>2 DEF Apart
<1>4. QED
  BY <1>1, <1>3 DEF Apart, Concerns

LEMMA ApartSame ==
  ASSUME Apart, request' = request, raced \subseteq raced'
  PROVE  Apart'
  BY DEF Apart, Concerns

\* A request that takes no step keeps what it holds, when what others change
\* under it is recorded in `raced'.
LEMMA HeldStays ==
  ASSUME TypeOK, NEW s \in Request, Held(s), request'[s] = request[s], raced \subseteq raced',
         \A c \in Campaign : Watches(request[s], c) =>
           campaign'[c].status = campaign[c].status \/ c \in raced',
         \A x \in Sub : x \in Listed(request[s]) => sub'[x] = sub[x] \/ x \in raced',
         request[s].phase = "moving" =>
           \A x \in Sub : IsBound(sub'[x], request[s].c) =>
             IsBound(sub[x], request[s].c) \/ {x, request[s].c} \cap raced' # {}
  PROVE  Held(s)'
<1> PICK r \in RequestState : r = request[s]
  BY DEF TypeOK
<1>1. request'[s] = r /\ r.todo \subseteq Sub \X SubRow /\ r.plan \subseteq Sub \X Change
  BY DEF RequestState
<1>2. RequestRight(s)'
  BY <1>1 DEF Held, RequestRight
<1>3. Seen(s)'
  <2> SUFFICES ASSUME r.target # None
               PROVE  <<campaign'[r.c].status, r.target>> \in ValidTransitions \/ r.c \in raced'
    BY <1>1 DEF Seen
  <2>1. r.c \in Campaign
    BY DEF Held, RequestRight
  <2>2. Watches(r, r.c)
    BY DEF Watches
  <2>3. <<campaign[r.c].status, r.target>> \in ValidTransitions \/ r.c \in raced
    BY DEF Held, Seen
  <2>4. QED
    BY <2>1, <2>2, <2>3
<1>4. TodoCurrent(s)'
  <2> SUFFICES ASSUME NEW e \in r.todo
               PROVE  IsBound(e[2], r.c) /\ (sub'[e[1]] = e[2] \/ e[1] \in raced')
    BY <1>1 DEF TodoCurrent, IsBound
  <2>1. e[1] \in Sub /\ e[1] \in Listed(r)
    BY <1>1 DEF Listed
  <2>2. IsBound(e[2], r.c) /\ (sub[e[1]] = e[2] \/ e[1] \in raced)
    BY DEF Held, TodoCurrent
  <2>3. QED
    BY <2>1, <2>2
<1>5. PlanCurrent(s)'
  <2> SUFFICES ASSUME NEW e \in r.plan
               PROVE  /\ IsBound(e[2].from, r.c)
                      /\ sub'[e[1]] = e[2].from \/ e[1] \in raced'
                      /\ e[2].to # None => /\ r.target = "completed" => e[2].to # r.c
                                           /\ campaign'[e[2].to].status = "active" \/ e[2].to \in raced'
    BY <1>1 DEF PlanCurrent, IsBound
  <2>1. e[1] \in Sub /\ e[1] \in Listed(r) /\ e[2].to \in Campaign \cup {None}
    BY <1>1 DEF Listed, Change
  <2>2. Watches(r, e[2].to)
    BY DEF Watches
  <2>3. /\ IsBound(e[2].from, r.c)
        /\ sub[e[1]] = e[2].from \/ e[1] \in raced
        /\ e[2].to # None => /\ r.target = "completed" => e[2].to # r.c
                             /\ campaign[e[2].to].status = "active" \/ e[2].to \in raced
    BY DEF Held, PlanCurrent
  <2>4. QED
    BY <2>1, <2>2, <2>3
<1>6. Swept(s)'
  <2> SUFFICES ASSUME r.phase = "moving", r.target = "completed",
                      NEW x \in Sub, IsBound(sub'[x], r.c)
               PROVE  x \in Listed(r) \/ {x, r.c} \cap raced' # {}
    BY <1>1 DEF Swept, IsBound, Listed
  <2>1. IsBound(sub[x], r.c) => x \in Listed(r) \/ {x, r.c} \cap raced # {}
    BY DEF Held, Swept
  <2>2. QED
    BY <2>1
<1>7. QED
  BY <1>2, <1>3, <1>4, <1>5, <1>6 DEF Held

-----------------------------------------------------------------------------
\* What a request watches or lists concerns it, so of two requests ...
LEMMA Concerned ==
  ASSUME TypeOK, NEW s \in Request
  PROVE  /\ \A c \in Campaign : Watches(request[s], c) => c \in Concerns(request[s])
         /\ \A x \in Sub : x \in Listed(request[s]) => x \in Concerns(request[s])
         /\ request[s].c \in Campaign => request[s].c \in Concerns(request[s])
<1>1. request[s] \in RequestState
  BY DEF TypeOK
<1>2. QED
  BY <1>1, ConcernsAre DEF Watches, Listed

\* ... one keeps what it holds while the other changes the status of a campaign
\* that it is at work on, and no subscription.
LEMMA OthersStay ==
  ASSUME RaceInv, NEW s \in Request, NEW o \in Request, o # s, request'[o] = request[o],
         raced \subseteq raced', sub' = sub,
         \A c \in Campaign :
           campaign'[c].status = campaign[c].status \/ c \in Concerns(request[s])
  PROVE  Held(o)'
<1>1. TypeOK /\ Held(o) /\ Concerns(request[o]) \cap Concerns(request[s]) \subseteq raced
  BY DEF RaceInv, Apart
<1>2. \A c \in Campaign : Watches(request[o], c) =>
        campaign'[c].status = campaign[c].status \/ c \in raced'
  BY <1>1, Concerned
<1>3. QED
  BY <1>1, <1>2, HeldStays

\* A request that has only read.
LEMMA ReadHeld ==
  ASSUME RaceInv, NEW s \in Request, NEW r \in RequestState, At(s, r),
         UNCHANGED <<campaign, sub>>, Held(s)'
  PROVE  Apart' /\ \A o \in Request : Held(o)'
<1>1. Apart' /\ raced \subseteq raced'
  BY ApartAt DEF RaceInv
<1>2. \A o \in Request \ {s} : request'[o] = request[o]
  BY DEF At, RaceInv, TypeOK
<1>3. \A o \in Request \ {s} : Held(o)'
  BY <1>1, <1>2, OthersStay
<1>4. QED
  BY <1>1, <1>3

\* A request that ends, and has changed no subscription.
LEMMA EndHeld ==
  ASSUME RaceInv, NEW s \in Request, Finish(s), sub' = sub,
         \A c \in Campaign :
           campaign'[c].status = campaign[c].status \/ c \in Concerns(request[s])
  PROVE  Apart' /\ \A o \in Request : Held(o)'
<1>1. Apart' /\ raced' = raced /\ request'[s] = Idle
  BY ApartFinish DEF RaceInv
<1>2. \A o \in Request \ {s} : request'[o] = request[o]
  BY DEF Finish, RaceInv, TypeOK
<1>3. \A o \in Request \ {s} : Held(o)'
  BY <1>1, <1>2, OthersStay
<1>4. QED
  BY <1>1, <1>3, IdleHeld

\* A request that begins.
LEMMA BeginHeld ==
  ASSUME RaceInv, NEW s \in Request, NEW r \in RequestState, Begin(s, r),
         UNCHANGED <<campaign, sub>>,
         r.c \in Campaign, r.todo = {}, r.plan = {},
         \/ r.phase \in {"offline", "creating"} /\ r.target = None
         \/ /\ r.phase = "loaded" /\ r.target # None
            /\ <<campaign[r.c].status, r.target>> \in ValidTransitions
  PROVE  Apart' /\ \A o \in Request : Held(o)'
<1>1. At(s, r)
  BY DEF Begin
<1>2. request'[s] = r
  BY <1>1 DEF At, RaceInv, TypeOK
<1>3. Held(s)'
  BY <1>2 DEF Held, RequestRight, Seen, TodoCurrent, PlanCurrent, Swept
<1>4. QED
  BY <1>1, <1>3, ReadHeld

\* A closing, or an admin's reallocation, reads the subscriptions.
LEMMA BoundHeld ==
  ASSUME RaceInv, TypeOK', NEW s \in Request,
         Close(s) \/ \E c \in Campaign : ForceRealloc(s, c)
  PROVE  Apart' /\ \A o \in Request : Held(o)'
<1>1. request[s] \in RequestState /\ RequestRight(s) /\ Seen(s)
  BY DEF RaceInv, TypeOK, Held
<1>2. PICK r : At(s, r) /\ r = request'[s]
  BY DEF Close, ForceRealloc, Begin, Proceed, At, RaceInv, TypeOK
<1>3. r \in RequestState /\ UNCHANGED <<campaign, sub>> /\ raced \subseteq raced'
  BY <1>2 DEF TypeOK, Close, ForceRealloc, At
<1>4. /\ r.phase = "moving" /\ r.c \in Campaign /\ r.plan = {} /\ r.todo \subseteq Bound(r.c)
      /\ \/ r.target = None
         \/ /\ r.target = "completed" /\ r.todo = Bound(r.c)
            /\ r.target = request[s].target /\ r.c = request[s].c
  <2>1. CASE Close(s)
    <3>1. r = [request[s] EXCEPT !.phase = "moving", !.todo = Bound(request[s].c)]
      BY <1>2, <2>1 DEF Close, Proceed, At, RaceInv, TypeOK
    <3>2. QED
      BY <1>1, <2>1, <3>1 DEF Close, RequestState, RequestRight
  <2>2. CASE \E c \in Campaign : ForceRealloc(s, c)
    <3>1. PICK c \in Campaign :
            r = [Idle EXCEPT !.phase = "moving", !.c = c,
                             !.todo = {e \in Bound(c) : e[2].status = "active"}]
      BY <1>2, <2>2 DEF ForceRealloc, Begin, At, RaceInv, TypeOK
    <3>2. QED
      BY <3>1 DEF Idle
  <2>3. QED
    BY <2>1, <2>2
<1>5. \A e \in Bound(r.c) : IsBound(e[2], r.c) /\ sub[e[1]] = e[2]
  BY DEF Bound, IsBound
<1>6. TodoCurrent(s)' /\ PlanCurrent(s)' /\ RequestRight(s)'
  BY <1>2, <1>3, <1>4, <1>5 DEF TodoCurrent, PlanCurrent, RequestRight, IsBound
<1>7. Seen(s)'
  BY <1>1, <1>2, <1>3, <1>4 DEF Seen
<1>8. Swept(s)'
  <2> SUFFICES ASSUME r.target = "completed", NEW x \in Sub, IsBound(sub[x], r.c)
               PROVE  x \in Listed(r)
    BY <1>2, <1>3 DEF Swept, IsBound, Listed
  <2>1. <<x, sub[x]>> \in Bound(r.c)
    BY DEF Bound, IsBound
  <2>2. QED
    BY <1>4, <2>1, CampaignsAssumption DEF Listed, CampaignStatus
<1>9. QED
  BY <1>2, <1>3, <1>6, <1>7, <1>8, ReadHeld DEF Held

\* A subscription is given another campaign, or left without.
LEMMA MoveHeld ==
  ASSUME RaceInv, TypeOK', NEW s \in Request, NEW e \in request[s].todo, Move(s, e)
  PROVE  Apart' /\ \A o \in Request : Held(o)'
<1> PICK r \in RequestState : r = request[s]
  BY DEF RaceInv, TypeOK
<1>1. /\ Held(s) /\ e[1] \in Sub /\ e[2] \in SubRow /\ e \in r.todo /\ r.phase = "moving"
      /\ UNCHANGED <<campaign, sub>>
  BY DEF RaceInv, RequestState, Move
<1>2. PICK t \in FindCampaign(View(r), e[2]) :
        \/ t # None /\ t = e[2].campaign /\ Proceed(s, [r EXCEPT !.todo = @ \ {e}])
        \/ Proceed(s, [r EXCEPT !.todo = @ \ {e},
                                !.plan = @ \cup {<<e[1], [to |-> t, from |-> e[2]]>>}])
  BY DEF Move
<1>3. IsBound(e[2], r.c) /\ (sub[e[1]] = e[2] \/ e[1] \in raced)
  BY <1>1 DEF Held, TodoCurrent
<1>4. r.c \in Campaign /\ r.target \in {None, "completed"} /\ None # "completed"
  BY <1>1, CampaignsAssumption DEF Held, RequestRight, CampaignStatus
<1>5. t # None => /\ t \in Campaign /\ campaign[t].status = "active"
                  /\ r.target = "completed" => t # r.c
  <2> SUFFICES ASSUME t # None
               PROVE  /\ t \in Campaign /\ campaign[t].status = "active"
                      /\ r.target = "completed" => t # r.c
    OBVIOUS
  <2>1. t \in Campaign /\ View(r)[t] = "active"
    BY <1>1, Finds
  <2>2. CASE r.target = "completed"
    BY <1>4, <2>1, <2>2 DEF View, Statuses
  <2>3. CASE r.target # "completed"
    BY <2>1, <2>3 DEF View, Statuses
  <2>4. QED
    BY <2>1, <2>2, <2>3
<1>6. PICK q \in RequestState : /\ At(s, q) /\ q = request'[s] /\ raced \subseteq raced'
                                /\ q.phase = r.phase /\ q.c = r.c /\ q.target = r.target
                                /\ q.todo = r.todo \ {e}
                                /\ \/ t # None /\ t = e[2].campaign /\ q.plan = r.plan
                                   \/ q.plan = r.plan \cup {<<e[1], [to |-> t, from |-> e[2]]>>}
  <2>1. PICK q : /\ At(s, q)
                 /\ \/ t # None /\ t = e[2].campaign /\ q = [r EXCEPT !.todo = @ \ {e}]
                    \/ q = [r EXCEPT !.todo = @ \ {e},
                                     !.plan = @ \cup {<<e[1], [to |-> t, from |-> e[2]]>>}]
    BY <1>2 DEF Proceed
  <2>2. q = request'[s] /\ raced \subseteq raced'
    BY <2>1 DEF At, RaceInv, TypeOK
  <2>3. q \in RequestState
    BY <2>2 DEF TypeOK
  <2>4. QED
    BY <2>1, <2>2, <2>3 DEF RequestState
<1>7. RequestRight(s)' /\ Seen(s)'
  BY <1>1, <1>6 DEF Held, RequestRight, Seen
<1>8. TodoCurrent(s)'
  <2>1. \A k \in r.todo : IsBound(k[2], r.c) /\ (sub[k[1]] = k[2] \/ k[1] \in raced)
    BY <1>1 DEF Held, TodoCurrent
  <2>2. QED
    BY <1>1, <1>6, <2>1 DEF TodoCurrent, IsBound
<1>9. PlanCurrent(s)'
  <2> DEFINE Fine(k) == /\ IsBound(k[2].from, r.c)
                        /\ sub[k[1]] = k[2].from \/ k[1] \in raced
                        /\ k[2].to # None => /\ r.target = "completed" => k[2].to # r.c
                                             /\ campaign[k[2].to].status = "active" \/ k[2].to \in raced
  <2>1. \A k \in r.plan : Fine(k)
    BY <1>1 DEF Held, PlanCurrent
  <2>2. Fine(<<e[1], [to |-> t, from |-> e[2]]>>)
    BY <1>3, <1>5
  <2>3. \A k \in q.plan : Fine(k)
    BY <1>6, <2>1, <2>2
  <2>4. QED
    BY <1>1, <1>6, <2>3 DEF PlanCurrent, IsBound
<1>10. Swept(s)'
  <2> SUFFICES ASSUME r.target = "completed", NEW x \in Sub, IsBound(sub[x], r.c)
               PROVE  x \in Listed(q) \/ {x, r.c} \cap raced' # {}
    BY <1>1, <1>6 DEF Swept, IsBound, Listed
  <2>1. x \in Listed(r) \/ {x, r.c} \cap raced # {}
    BY <1>1 DEF Held, Swept
  <2>2. q.plan = r.plan \cup {<<e[1], [to |-> t, from |-> e[2]]>>}
    BY <1>3, <1>5, <1>6 DEF IsBound
  <2>3. x \in Listed(r) => x \in Listed(q)
    <3> SUFFICES ASSUME NEW k \in r.todo \cup r.plan, k[1] = x PROVE x \in Listed(q)
      BY DEF Listed
    <3>1. CASE k = e
      <4>1. <<e[1], [to |-> t, from |-> e[2]]>> \in q.plan
        BY <2>2
      <4>2. QED
        BY <3>1, <4>1 DEF Listed
    <3>2. CASE k # e
      BY <1>6, <2>2, <3>2 DEF Listed
    <3>3. QED
      BY <3>1, <3>2
  <2>4. QED
    BY <1>6, <2>1, <2>3
<1>11. QED
  BY <1>1, <1>6, <1>7, <1>8, <1>9, <1>10, ReadHeld DEF Held

-----------------------------------------------------------------------------
LEMMA MovedIs ==
  ASSUME NEW row \in SubRow, NEW ch \in Change
  PROVE  /\ ch.to # None => Moved(row, ch).campaign = ch.to
         /\ ch.to = None => /\ Moved(row, ch).campaign = row.campaign
                            /\ row.reason = ch.from.reason => Moved(row, ch).reason = "no_campaigns"
  BY DEF Moved, SubRow

\* What a reallocation commits: the subscriptions listed are moved, others kept.
LEMMA MovesAre ==
  ASSUME TypeOK, NEW s \in Request, CommitMoves(s), NEW x \in Sub
  PROVE  \/ x \notin Listed(request[s]) /\ sub'[x] = sub[x]
         \/ \E e \in request[s].plan : /\ e[1] = x /\ e[2] \in Change
                                       /\ sub'[x] = Moved(sub[x], e[2])
<1>1. /\ request[s].plan \subseteq Sub \X Change /\ request[s].todo = {}
      /\ sub'[x] = IF \E e \in request[s].plan : e[1] = x
                   THEN Moved(sub[x], (CHOOSE e \in request[s].plan : e[1] = x)[2])
                   ELSE sub[x]
  BY RequestType DEF CommitMoves
<1>2. CASE \E e \in request[s].plan : e[1] = x
  <2>1. PICK k : k = CHOOSE e \in request[s].plan : e[1] = x
    OBVIOUS
  <2>2. k \in request[s].plan /\ k[1] = x
    BY <1>2, <2>1
  <2>3. QED
    BY <1>1, <1>2, <2>1, <2>2
<1>3. CASE ~\E e \in request[s].plan : e[1] = x
  BY <1>1, <1>3 DEF Listed
<1>4. QED
  BY <1>2, <1>3

\* ... and the campaign closed, if any.
LEMMA MovesClose ==
  ASSUME TypeOK, NEW s \in Request, RequestRight(s), CommitMoves(s)
  PROVE  \A c \in Campaign : campaign'[c].status
           = IF c = request[s].c /\ request[s].target = "completed" THEN "completed"
             ELSE campaign[c].status
<1>1. request[s].target = None \/ (request[s].target = "completed" /\ request[s].c \in Campaign)
  BY DEF CommitMoves, RequestRight
<1>2. None # "completed"
  BY CampaignsAssumption DEF CampaignStatus
<1>3. CASE request[s].target = None
  BY <1>2, <1>3 DEF CommitMoves
<1>4. CASE request[s].target = "completed" /\ request[s].c \in Campaign
  BY <1>2, <1>4 DEF CommitMoves, TypeOK, CampaignRow
<1>5. QED
  BY <1>1, <1>3, <1>4

LEMMA CommitMovesHeld ==
  ASSUME RaceInv, NEW s \in Request, CommitMoves(s)
  PROVE  Apart' /\ \A o \in Request : Held(o)'
<1>1. TypeOK /\ RequestRight(s)
  BY DEF RaceInv, Held
<1>2. Apart' /\ raced' = raced /\ request'[s] = Idle
  BY ApartFinish DEF RaceInv, CommitMoves
<1>3. ASSUME NEW o \in Request \ {s} PROVE Held(o)'
  <2>1. /\ request'[o] = request[o] /\ Held(o) /\ request[s] \in RequestState
        /\ Concerns(request[s]) \cap Concerns(request[o]) \subseteq raced
    BY <1>1 DEF CommitMoves, Finish, RaceInv, TypeOK, Apart
  <2>2. \A c \in Campaign : Watches(request[o], c) =>
          campaign'[c].status = campaign[c].status \/ c \in raced'
    <3>1. \A c \in Campaign : c = request[s].c => c \in Concerns(request[s])
      BY <2>1, ConcernsAre
    <3>2. \A c \in Campaign : Watches(request[o], c) => c \in Concerns(request[o])
      BY <1>1, Concerned
    <3>3. QED
      BY <1>1, <1>2, <2>1, <3>1, <3>2, MovesClose
  <2>3. ASSUME NEW x \in Sub, x \in Listed(request[o]) PROVE sub'[x] = sub[x] \/ x \in raced'
    <3>1. x \in Concerns(request[o])
      BY <1>1, <2>3, Concerned
    <3>2. x \in Listed(request[s]) => x \in Concerns(request[s])
      BY <1>1, Concerned
    <3>3. x \in Listed(request[s]) \/ sub'[x] = sub[x]
      BY <1>1, MovesAre DEF Listed
    <3>4. QED
      BY <1>2, <2>1, <3>1, <3>2, <3>3
  <2>4. ASSUME request[o].phase = "moving", NEW x \in Sub, IsBound(sub'[x], request[o].c)
        PROVE  IsBound(sub[x], request[o].c) \/ {x, request[o].c} \cap raced' # {}
    <3> PICK c \in Campaign : c = request[o].c
      BY <2>1, <2>4 DEF Held, RequestRight
    <3>1. c \in Concerns(request[o])
      BY <1>1, Concerned
    <3>2. CASE sub'[x] = sub[x]
      BY <2>4, <3>2
    <3>3. CASE \E e \in request[s].plan : /\ e[1] = x /\ e[2] \in Change
                                          /\ sub'[x] = Moved(sub[x], e[2])
      <4>1. PICK e \in request[s].plan : /\ e[1] = x /\ e[2] \in Change
                                         /\ sub'[x] = Moved(sub[x], e[2])
        BY <3>3
      <4>2. /\ IsBound(e[2].from, request[s].c) /\ (sub[x] = e[2].from \/ x \in raced)
            /\ sub[x] \in SubRow
        BY <1>1, <4>1 DEF RaceInv, Held, PlanCurrent, TypeOK
      <4>3. CASE e[2].to # None
        <5>1. e[2].to = c
          BY <2>4, <4>1, <4>2, <4>3, MovedIs DEF IsBound
        <5>2. c \in Concerns(request[s])
          BY <2>1, <4>1, <5>1, ConcernsAre
        <5>3. QED
          BY <1>2, <2>1, <3>1, <5>2
      <4>4. CASE e[2].to = None
        <5>1. sub[x].campaign = c
          BY <2>4, <4>1, <4>2, <4>4, MovedIs DEF IsBound
        <5>2. CASE x \in raced
          BY <1>2, <5>2
        <5>3. CASE sub[x] = e[2].from
          <6>1. request[s].c = c
            BY <4>2, <5>1, <5>3 DEF IsBound
          <6>2. c \in Concerns(request[s])
            BY <1>1, <6>1, Concerned
          <6>3. QED
            BY <1>2, <2>1, <3>1, <6>2
        <5>4. QED
          BY <4>2, <5>2, <5>3
      <4>5. QED
        BY <4>3, <4>4
    <3>4. QED
      BY <1>1, <3>2, <3>3, MovesAre
  <2>5. QED
    BY <1>1, <1>2, <2>1, <2>2, <2>3, <2>4, HeldStays
<1>4. QED
  BY <1>2, <1>3, IdleHeld

\* A row that is not there yet is listed by nobody.
LEMMA CreateHeld ==
  ASSUME RaceInv, NEW o \in Request, request'[o] = request[o], raced \subseteq raced',
         UNCHANGED campaign, NEW x \in Sub, sub[x].status = "none",
         \A y \in Sub \ {x} : sub'[y] = sub[y],
         sub'[x].status \notin {"active", "paused"} \/ sub'[x].campaign = None
  PROVE  Held(o)'
<1>1. TypeOK /\ Held(o)
  BY DEF RaceInv
<1>2. x \in Listed(request[o]) => x \in raced
  BY <1>1 DEF Listed, Held, TodoCurrent, PlanCurrent, IsBound
<1>3. request[o].phase = "moving" => ~IsBound(sub'[x], request[o].c)
  BY <1>1, CampaignsAssumption DEF IsBound, Held, RequestRight
<1>4. QED
  BY <1>1, <1>2, <1>3, HeldStays

LEMMA HandleHeld ==
  ASSUME RaceInv, TypeOK', NEW s \in Request, Handle(s)
  PROVE  Apart' /\ \A o \in Request : Held(o)'
<1>1. TypeOK /\ Held(s) /\ request[s] \in RequestState
  BY DEF RaceInv, TypeOK
<1>2. ASSUME NEW c \in Campaign, NEW t \in CampaignStatus, Transition(s, c, t)
      PROVE  Apart' /\ \A o \in Request : Held(o)'
  <2>1. PICK r : r = [Idle EXCEPT !.phase = "loaded", !.c = c, !.target = t]
    OBVIOUS
  <2>2. /\ r.phase = "loaded" /\ r.c = c /\ r.target = t /\ t # None
        /\ r.todo = {} /\ r.plan = {} /\ r \in RequestState
    BY <2>1, CampaignsAssumption DEF Idle, RequestState, Phase
  <2>3. QED
    BY <1>2, <2>1, <2>2, BeginHeld DEF Transition
<1>3. ASSUME NEW c \in Campaign, NEW ref \in Ref \cup {None}, LoadOffline(s, c, ref)
      PROVE  Apart' /\ \A o \in Request : Held(o)'
  <2>1. PICK r : r = [Idle EXCEPT !.phase = "offline", !.c = c, !.ref = ref,
                                  !.seen = campaign[c].collected]
    OBVIOUS
  <2>2. /\ r.phase = "offline" /\ r.c = c /\ r.target = None
        /\ r.todo = {} /\ r.plan = {}
    BY <2>1 DEF Idle
  <2>3. r \in RequestState
    BY <1>1, <2>1 DEF Idle, RequestState, Phase, TypeOK, CampaignRow
  <2>4. QED
    BY <1>3, <2>1, <2>2, <2>3, BeginHeld DEF LoadOffline
<1>4. ASSUME NEW c \in Campaign, LoadCreate(s, c)
      PROVE  Apart' /\ \A o \in Request : Held(o)'
  <2>1. PICK r : r = [Idle EXCEPT !.phase = "creating", !.c = c]
    OBVIOUS
  <2>2. /\ r.phase = "creating" /\ r.c = c /\ r.target = None
        /\ r.todo = {} /\ r.plan = {} /\ r \in RequestState
    BY <2>1 DEF Idle, RequestState, Phase
  <2>3. QED
    BY <1>4, <2>1, <2>2, BeginHeld DEF LoadCreate
<1>5. ASSUME CommitStatus(s) PROVE Apart' /\ \A o \in Request : Held(o)'
  <2>1. Finish(s) /\ sub' = sub
    BY <1>5 DEF CommitStatus
  <2>2. request[s].c \in Campaign
    BY <1>1, <1>5 DEF Held, RequestRight, CommitStatus
  <2>3. \A c \in Campaign : c # request[s].c => campaign'[c].status = campaign[c].status
    BY <1>1, <1>5, <2>2 DEF CommitStatus, TypeOK
  <2>4. request[s].c \in Concerns(request[s])
    BY <1>1, <2>2, Concerned
  <2>5. QED
    BY <2>1, <2>3, <2>4, EndHeld
<1>6. ASSUME CommitOffline(s) PROVE Apart' /\ \A o \in Request : Held(o)'
  <2>1. Finish(s) /\ sub' = sub
    BY <1>6 DEF CommitOffline
  <2>2. request[s].c \in Campaign
    BY <1>1, <1>6 DEF Held, RequestRight, CommitOffline
  <2>3. \A c \in Campaign : c # request[s].c => campaign'[c].status = campaign[c].status
    BY <1>1, <1>6, <2>2 DEF CommitOffline, TypeOK
  <2>4. request[s].c \in Concerns(request[s])
    BY <1>1, <2>2, Concerned
  <2>5. QED
    BY <2>1, <2>3, <2>4, EndHeld
<1>7. ASSUME Rollback(s) PROVE Apart' /\ \A o \in Request : Held(o)'
  BY <1>7, EndHeld DEF Rollback
<1>8. ASSUME CommitCreate(s) PROVE Apart' /\ \A o \in Request : Held(o)'
  <2>1. PICK x \in Sub :
          /\ sub[x].status = "none"
          /\ sub' = [sub EXCEPT ![x] = [NoSub EXCEPT !.status = "pending_payment_method",
                                          !.strategy = "specific_campaign", !.campaign = request[s].c]]
    BY <1>8 DEF CommitCreate
  <2>2. sub'[x].status = "pending_payment_method" /\ \A y \in Sub \ {x} : sub'[y] = sub[y]
    BY <1>1, <2>1 DEF TypeOK, NoSub
  <2>3. Apart' /\ raced' = raced /\ request'[s] = Idle
    BY <1>1, <1>8, ApartFinish DEF RaceInv, CommitCreate
  <2>4. \A o \in Request \ {s} : request'[o] = request[o]
    BY <1>1, <1>8 DEF CommitCreate, Finish, TypeOK
  <2>5. \A o \in Request \ {s} : Held(o)'
    BY <1>8, <2>1, <2>2, <2>3, <2>4, CreateHeld DEF CommitCreate
  <2>6. QED
    BY <2>3, <2>5, IdleHeld
<1>9. QED
  BY <1>2, <1>3, <1>4, <1>5, <1>6, <1>7, <1>8, BoundHeld, MoveHeld, CommitMovesHeld DEF Handle

-----------------------------------------------------------------------------
\* Steps that are no request's.
LEMMA CatalogueHeld ==
  ASSUME RaceInv, Catalogue
  PROVE  Apart' /\ \A o \in Request : Held(o)'
<1>1. TypeOK /\ Apart /\ UNCHANGED <<sub, request>> /\ raced \subseteq raced'
  BY DEF RaceInv, Catalogue, CreateCampaign, UpdateCampaign, UpdateFoundation, CloseExpired, Meets
<1>2. Apart'
  BY <1>1, ApartSame
<1>3. ASSUME NEW o \in Request,
             \A c \in Campaign : Watches(request[o], c) =>
               campaign'[c].status = campaign[c].status \/ c \in raced'
      PROVE  Held(o)'
  BY <1>1, <1>3, HeldStays DEF RaceInv
<1>4. ASSUME NEW c \in Campaign, NEW f \in Foundation, NEW g \in Goal \cup {None},
             NEW b \in BOOLEAN, CreateCampaign(c, f, g, b), NEW o \in Request
      PROVE  Held(o)'
  <2>1. \A k \in Campaign \ {c} : campaign'[k] = campaign[k]
    BY <1>1, <1>4 DEF CreateCampaign, TypeOK
  <2>2. Watches(request[o], c) => c \in raced
    <3>1. campaign[c].status = "none" /\ Seen(o) /\ PlanCurrent(o)
      BY <1>4 DEF CreateCampaign, RaceInv, Held
    <3>2. \A t : <<"none", t>> \notin ValidTransitions
      BY DEF ValidTransitions
    <3>3. CASE request[o].target # None /\ c = request[o].c
      BY <3>1, <3>2, <3>3 DEF Seen
    <3>4. ASSUME NEW e \in request[o].plan, e[2].to = c PROVE c \in raced
      <4>1. e[2].to # None
        BY <3>4, CampaignsAssumption
      <4>2. campaign[e[2].to].status = "active" \/ e[2].to \in raced
        BY <3>1, <4>1 DEF PlanCurrent
      <4>3. QED
        BY <3>1, <3>4, <4>2
    <3>5. QED
      BY <3>3, <3>4 DEF Watches
  <2>3. QED
    BY <1>1, <1>3, <2>1, <2>2
<1>5. ASSUME NEW c \in Campaign, NEW f \in Foundation, NEW g \in Goal \cup {None},
             NEW b \in BOOLEAN, UpdateCampaign(c, f, g, b), NEW o \in Request
      PROVE  Held(o)'
  <2>1. \A k \in Campaign : campaign'[k].status = campaign[k].status
    BY <1>1, <1>5 DEF UpdateCampaign, TypeOK, CampaignRow
  <2>2. QED
    BY <1>3, <2>1
<1>6. ASSUME NEW f \in Foundation, UpdateFoundation(f), NEW o \in Request PROVE Held(o)'
  BY <1>3, <1>6 DEF UpdateFoundation
<1>7. ASSUME NEW C \in SUBSET Campaign, CloseExpired(C), NEW o \in Request PROVE Held(o)'
  <2>1. \A c \in Campaign : Watches(request[o], c) => c \in Concerns(request[o])
    BY <1>1, Concerned
  <2>2. raced' = raced \cup (C \cap UNION {Concerns(request[k]) : k \in Request})
    BY <1>7 DEF CloseExpired, Meets
  <2>3. \A c \in Campaign \ C : campaign'[c] = campaign[c]
    BY <1>7 DEF CloseExpired
  <2>4. \A c \in C : c \in Concerns(request[o]) => c \in raced'
    BY <2>2
  <2>5. QED
    BY <1>3, <2>1, <2>3, <2>4
<1>8. QED
  BY <1>2, <1>4, <1>5, <1>6, <1>7 DEF Catalogue

LEMMA PayHeld ==
  ASSUME RaceInv, NEW p \in Payment, Pay(p)
  PROVE  Apart' /\ \A o \in Request : Held(o)'
<1>1. TypeOK /\ Apart
  BY DEF RaceInv
<1>2. UNCHANGED <<sub, request>> /\ raced \subseteq raced'
  BY DEF Pay, Donate, Charge, Post, Meets
<1>3. ASSUME NEW o \in Request, NEW c \in Campaign, Watches(request[o], c)
      PROVE  campaign'[c].status = campaign[c].status \/ c \in raced'
  <2>1. CASE UNCHANGED campaign
    BY <2>1
  <2>2. CASE Post(p)
    <3>1. PICK k \in Campaign : k = payment[p].for
      BY <1>1, <2>2 DEF Post, TypeOK
    <3>2. \A j \in Campaign \ {k} : campaign'[j] = campaign[j]
      BY <1>1, <2>2, <3>1 DEF Post, TypeOK
    <3>3. campaign'[k].status = campaign[k].status
          \/ raced' = raced \cup ({k} \cap UNION {Concerns(request[i]) : i \in Request})
      BY <2>2, <3>1 DEF Post, Meets
    <3>4. c \in Concerns(request[o])
      BY <1>1, <1>3, Concerned
    <3>5. QED
      BY <3>2, <3>3, <3>4
  <2>3. QED
    BY <2>1, <2>2 DEF Pay, Donate, Charge
<1>4. \A o \in Request : Held(o)'
  BY <1>1, <1>2, <1>3, HeldStays DEF RaceInv
<1>5. QED
  BY <1>1, <1>2, <1>4, ApartSame

LEMMA SubscribeHeld ==
  ASSUME RaceInv, NEW x \in Sub, Subscribe(x)
  PROVE  Apart' /\ \A o \in Request : Held(o)'
<1>1. TypeOK /\ Apart /\ UNCHANGED <<campaign, request>>
  BY SubscribeStep DEF RaceInv
<1>2. PICK row \in SubRow :
        /\ sub' = [sub EXCEPT ![x] = row]
        /\ \/ Rewrite(x, row)
           \/ row.campaign = None /\ sub[x].status = "none" /\ raced' = raced
  BY <1>1, SubscribeStep
<1>3. /\ sub'[x] = row /\ \A y \in Sub \ {x} : sub'[y] = sub[y]
      /\ raced \subseteq raced'
  BY <1>1, <1>2 DEF Rewrite, TypeOK
<1>4. ASSUME NEW o \in Request PROVE Held(o)'
  <2>1. CASE row.campaign = None /\ sub[x].status = "none" /\ raced' = raced
    BY <1>1, <1>3, <2>1, CreateHeld
  <2>2. CASE Rewrite(x, row)
    <3>1. raced' = raced \cup (IF {x, sub[x].campaign, row.campaign}
                                    \cap UNION {Concerns(request[s]) : s \in Request} # {}
                               THEN {x} ELSE {})
      BY <2>2 DEF Rewrite
    <3>2. \A i \in {x, sub[x].campaign, row.campaign} : i \in Concerns(request[o]) => x \in raced'
      BY <3>1
    <3>3. x \in Listed(request[o]) => x \in raced'
      BY <1>1, <3>2, Concerned
    <3>4. ASSUME request[o].phase = "moving", IsBound(row, request[o].c) PROVE x \in raced'
      <4>1. request[o].c \in Concerns(request[o])
        BY <1>1, <3>4, Concerned DEF RaceInv, Held, RequestRight
      <4>2. QED
        BY <3>2, <3>4, <4>1 DEF IsBound
    <3>5. \A c \in Campaign : campaign'[c].status = campaign[c].status
      BY <1>1
    <3>6. \A y \in Sub : y \in Listed(request[o]) => sub'[y] = sub[y] \/ y \in raced'
      BY <1>3, <3>3
    <3>7. request[o].phase = "moving" => \A y \in Sub : IsBound(sub'[y], request[o].c) =>
            IsBound(sub[y], request[o].c) \/ {y, request[o].c} \cap raced' # {}
      BY <1>3, <3>4
    <3>8. QED
      BY <1>1, <1>3, <3>5, <3>6, <3>7, HeldStays DEF RaceInv
  <2>3. QED
    BY <1>2, <2>1, <2>2
<1>5. QED
  BY <1>1, <1>3, <1>4, ApartSame

LEMMA InitRace == Init => RaceInv
<1> SUFFICES ASSUME Init PROVE RaceInv
  OBVIOUS
<1>1. \A s \in Request : request[s] = Idle
  BY DEF Init
<1>2. \A s \in Request : Held(s)
  BY <1>1 DEF Held, RequestRight, Seen, TodoCurrent, PlanCurrent, Swept, Idle
<1>3. Apart
  BY <1>1, IdleConcerns DEF Apart
<1>4. QED
  BY <1>2, <1>3, InitType DEF RaceInv

LEMMA NextRace ==
  ASSUME RaceInv, [Next]_vars
  PROVE  RaceInv'
<1>1. TypeOK'
  BY NextType DEF RaceInv, RequestRights, Held
<1>2. CASE UNCHANGED vars
  <2>1. UNCHANGED <<campaign, sub, request, raced>>
    BY <1>2 DEF vars
  <2>2. Apart' /\ \A o \in Request : Held(o)'
    BY <2>1, HeldStays, ApartSame DEF RaceInv
  <2>3. QED
    BY <1>1, <2>2 DEF RaceInv
<1>3. CASE Next
  BY <1>1, <1>3, HandleHeld, CatalogueHeld, PayHeld, SubscribeHeld DEF Next, RaceInv
<1>4. QED
  BY <1>2, <1>3

\* Every variable keeps its type: a closing gives no subscription a reason or a
\* campaign there is not.
THEOREM TypeCorrect == Spec => []TypeOK
<1>1. RaceInv /\ [Next]_vars => RaceInv'
  BY NextRace
<1>2. RaceInv => TypeOK
  BY DEF RaceInv
<1>3. QED
  BY <1>1, <1>2, InitRace, PTL DEF Spec

-----------------------------------------------------------------------------
(***************************************************************************)
(* What a step may not do.                                                 *)
(***************************************************************************)
\* The status machine, step by step.
LEMMA StatusStep ==
  ASSUME RaceInv, [Next]_vars, NEW c \in Campaign, campaign'[c].status # campaign[c].status
  PROVE  \/ campaign[c].status = "none"
         \/ <<campaign[c].status, campaign'[c].status>> \in ValidTransitions
         \/ c \in raced'
<1>1. TypeOK /\ campaign[c] \in CampaignRow
  BY DEF RaceInv, TypeOK
<1>2. <<"active", "completed">> \in ValidTransitions
  BY DEF ValidTransitions
<1>3. ASSUME NEW s \in Request, Handle(s)
      PROVE  \/ <<campaign[c].status, campaign'[c].status>> \in ValidTransitions
             \/ c \in raced'
  <2>1. Held(s)
    BY DEF RaceInv
  <2>2. CASE CommitStatus(s)
    <3>1. c = request[s].c /\ campaign'[c].status = request[s].target /\ request[s].target # None
      BY <1>1, <2>1, <2>2 DEF CommitStatus, Held, RequestRight, TypeOK, CampaignRow
    <3>2. raced' = raced
      BY <2>2 DEF CommitStatus, Finish
    <3>3. QED
      BY <2>1, <3>1, <3>2 DEF Held, Seen
  <2>3. CASE CommitMoves(s)
    <3>1. /\ c = request[s].c /\ request[s].target = "completed"
          /\ campaign'[c].status = "completed"
      BY <1>1, <2>1, <2>3, MovesClose DEF Held
    <3>2. request[s].target # None /\ raced' = raced
      BY <2>3, <3>1, CampaignsAssumption DEF CommitMoves, Finish, CampaignStatus
    <3>3. QED
      BY <2>1, <3>1, <3>2 DEF Held, Seen
  <2>4. CASE CommitOffline(s)
    <3>1. campaign' = [campaign EXCEPT ![request[s].c] = AutoComplete(Collect(@))]
      BY <2>4 DEF CommitOffline, CollectOffline
    <3>2. c = request[s].c /\ campaign'[c] = AutoComplete(Collect(campaign[c]))
      BY <1>1, <3>1 DEF TypeOK
    <3>3. QED
      BY <1>1, <1>2, <3>2, CollectType
  <2>5. CASE UNCHANGED campaign
    BY <2>5
  <2>6. QED
    BY <1>3, <2>2, <2>3, <2>4, <2>5
    DEF Handle, Transition, Close, ForceRealloc, Move, LoadOffline, LoadCreate, CommitCreate, Rollback
<1>4. ASSUME Catalogue
      PROVE  \/ campaign[c].status = "none"
             \/ <<campaign[c].status, campaign'[c].status>> \in ValidTransitions
  <2>1. ASSUME NEW k \in Campaign, NEW f \in Foundation, NEW g \in Goal \cup {None},
               NEW b \in BOOLEAN, CreateCampaign(k, f, g, b)
        PROVE  campaign[c].status = "none"
    BY <1>1, <2>1 DEF CreateCampaign, TypeOK
  <2>2. ASSUME NEW k \in Campaign, NEW f \in Foundation, NEW g \in Goal \cup {None},
               NEW b \in BOOLEAN, UpdateCampaign(k, f, g, b)
        PROVE  FALSE
    BY <1>1, <2>2 DEF UpdateCampaign, TypeOK, CampaignRow
  <2>3. ASSUME NEW C \in SUBSET Campaign, CloseExpired(C)
        PROVE  campaign[c].status = "active" /\ campaign'[c].status = "completed"
    BY <1>1, <2>3 DEF CloseExpired, CampaignRow
  <2>4. QED
    BY <1>2, <1>4, <2>1, <2>2, <2>3 DEF Catalogue, UpdateFoundation
<1>5. ASSUME NEW p \in Payment, Pay(p)
      PROVE  <<campaign[c].status, campaign'[c].status>> \in ValidTransitions
  <2>1. CASE Post(p)
    <3>1. campaign' = [campaign EXCEPT ![payment[p].for] = AutoComplete(Collect(@))]
      BY <2>1 DEF Post
    <3>2. campaign'[c] = AutoComplete(Collect(campaign[c]))
      BY <1>1, <3>1 DEF TypeOK
    <3>3. QED
      BY <1>1, <1>2, <3>2, CollectType
  <2>2. QED
    BY <1>5, <2>1 DEF Pay, Donate, Charge
<1>6. ASSUME NEW x \in Sub, Subscribe(x) PROVE FALSE
  BY <1>1, <1>6, SubscribeStep
<1>7. QED
  BY <1>3, <1>4, <1>5, <1>6 DEF Next, vars

\* A campaign changes its status only as VALID_TRANSITIONS allow, by whatever
\* request, payment or task; two of them at once may not.
THEOREM LifeCycleCorrect == Spec => LifeCycle
<1>1. RaceInv /\ [Next]_vars => RaceInv'
  BY NextRace
<1>2. RaceInv /\ [Next]_vars =>
        [\A c \in Campaign :
           campaign'[c].status # campaign[c].status =>
             \/ campaign[c].status = "none"
             \/ <<campaign[c].status, campaign'[c].status>> \in ValidTransitions
             \/ c \in raced']_vars
  BY StatusStep
<1>3. QED
  BY <1>1, <1>2, InitRace, PTL DEF Spec, LifeCycle

\* A reallocation ends by committing its moves, or leaves no trace.
LEMMA MovingEnds ==
  ASSUME TypeOK, [Next]_vars, NEW s \in Request, request[s].phase = "moving", request'[s] = Idle
  PROVE  CommitMoves(s) \/ UNCHANGED <<campaign, sub>>
<1>1. request'[s] # request[s]
  BY DEF Idle
<1>2. request[s] # Idle
  BY DEF Idle
<1>3. ASSUME NEW o \in Request, Handle(o) PROVE CommitMoves(s) \/ UNCHANGED <<campaign, sub>>
  <2>1. CASE o # s
    <3>1. request'[s] = request[s]
      BY <1>3, <2>1
      DEF Handle, Transition, CommitStatus, Close, ForceRealloc, Move, CommitMoves, LoadOffline,
          CommitOffline, LoadCreate, CommitCreate, Rollback, Begin, Proceed, At, Finish, TypeOK
    <3>2. QED
      BY <1>1, <3>1
  <2>2. CASE o = s
    BY <1>2, <1>3, <2>2
    DEF Handle, Transition, CommitStatus, Close, ForceRealloc, Move, LoadOffline,
        CommitOffline, LoadCreate, CommitCreate, Rollback, Begin
  <2>3. QED
    BY <2>1, <2>2
<1>4. CASE UNCHANGED request
  BY <1>1, <1>4
<1>5. ASSUME NEW x \in Sub, Subscribe(x) PROVE UNCHANGED request
  BY <1>5, SubscribeStep
<1>6. QED
  BY <1>3, <1>4, <1>5
  DEF Next, vars, Catalogue, CreateCampaign, UpdateCampaign, UpdateFoundation, CloseExpired, Pay,
      Donate, Charge, Post

\* A closing leaves nobody behind ...
LEMMA CloseStep ==
  ASSUME RaceInv, NEW s \in Request, CommitMoves(s), request[s].target = "completed",
         NEW x \in Sub, IsBound(sub'[x], request[s].c)
  PROVE  sub'[x].reason = "no_campaigns" \/ {x, request[s].c} \cap raced # {}
<1>1. TypeOK /\ Held(s) /\ request[s].phase = "moving"
  BY DEF RaceInv, CommitMoves
<1>2. CASE x \notin Listed(request[s]) /\ sub'[x] = sub[x]
  BY <1>1, <1>2 DEF Held, Swept
<1>3. CASE \E e \in request[s].plan : /\ e[1] = x /\ e[2] \in Change
                                      /\ sub'[x] = Moved(sub[x], e[2])
  <2>1. PICK e \in request[s].plan : /\ e[1] = x /\ e[2] \in Change
                                     /\ sub'[x] = Moved(sub[x], e[2])
    BY <1>3
  <2>2. /\ sub[x] = e[2].from \/ x \in raced
        /\ e[2].to # None => e[2].to # request[s].c
        /\ sub[x] \in SubRow
    BY <1>1, <2>1 DEF Held, PlanCurrent, TypeOK
  <2>3. e[2].to = None
    BY <2>1, <2>2, MovedIs DEF IsBound
  <2>4. QED
    BY <2>1, <2>2, <2>3, MovedIs
<1>4. QED
  BY <1>1, <1>2, <1>3, MovesAre

\* ... and moves the others to campaigns that are open.
LEMMA MoveStep ==
  ASSUME RaceInv, NEW s \in Request, CommitMoves(s),
         NEW x \in Sub, sub'[x].campaign # sub[x].campaign
  PROVE  campaign'[sub'[x].campaign].status = "active" \/ sub'[x].campaign \in raced
<1>1. TypeOK /\ Held(s)
  BY DEF RaceInv
<1>2. PICK e \in request[s].plan : e[1] = x /\ e[2] \in Change /\ sub'[x] = Moved(sub[x], e[2])
  BY <1>1, MovesAre
<1>3. sub[x] \in SubRow
  BY <1>1 DEF TypeOK
<1>4. e[2].to # None /\ sub'[x].campaign = e[2].to
  BY <1>2, <1>3, MovedIs
<1>5. /\ request[s].target = "completed" => e[2].to # request[s].c
      /\ campaign[e[2].to].status = "active" \/ e[2].to \in raced
  BY <1>1, <1>2, <1>4 DEF Held, PlanCurrent
<1>6. e[2].to \in Campaign
  BY <1>2, <1>4 DEF Change
<1>7. ~(e[2].to = request[s].c /\ request[s].target = "completed")
  BY <1>5
<1>8. campaign'[e[2].to].status = campaign[e[2].to].status
  BY <1>1, <1>6, <1>7, MovesClose DEF Held
<1>9. QED
  BY <1>4, <1>5, <1>8

\* When a closing commits, every subscription that could be charged has left
\* the campaign or waits for one, unless somebody else was at work on it.
THEOREM ClosingCorrect == Spec => ClosingEmpties
<1>1. RaceInv /\ [Next]_vars => RaceInv'
  BY NextRace
<1>2. ASSUME RaceInv, [Next]_vars, NEW s \in Request, request[s].phase = "moving",
             request[s].target = "completed", campaign' # campaign, request'[s] = Idle,
             NEW x \in Sub, sub'[x].campaign = request[s].c, sub'[x].status \in {"active", "paused"}
      PROVE  sub'[x].reason = "no_campaigns" \/ {x, request[s].c} \cap raced # {}
  <2>1. CommitMoves(s)
    BY <1>2, MovingEnds DEF RaceInv
  <2>2. QED
    BY <1>2, <2>1, CloseStep DEF IsBound
<1>3. RaceInv /\ [Next]_vars =>
  [\A s \in Request :
       (request[s].phase = "moving" /\ request[s].target = "completed" /\ campaign' # campaign
          /\ request'[s] = Idle)
         => \A x \in Sub : (sub'[x].campaign = request[s].c /\ sub'[x].status \in {"active", "paused"})
              => \/ sub'[x].reason = "no_campaigns"
                 \/ {x, request[s].c} \cap raced # {}]_vars
  BY <1>2
<1>4. QED
  BY <1>1, <1>3, InitRace, PTL DEF Spec, ClosingEmpties

\* No subscription is moved to a campaign that is closed in the meantime,
\* unless the two were at work at once.
THEOREM MovedCorrect == Spec => MovedToActive
<1>1. RaceInv /\ [Next]_vars => RaceInv'
  BY NextRace
<1>2. ASSUME RaceInv, [Next]_vars, NEW s \in Request, NEW x \in Sub,
             request[s].phase = "moving", request'[s] = Idle, sub'[x].campaign # sub[x].campaign
      PROVE  campaign'[sub'[x].campaign].status = "active" \/ sub'[x].campaign \in raced
  <2>1. CommitMoves(s)
    BY <1>2, MovingEnds DEF RaceInv
  <2>2. QED
    BY <1>2, <2>1, MoveStep
<1>3. RaceInv /\ [Next]_vars =>
  [\A s \in Request, x \in Sub :
       (request[s].phase = "moving" /\ request'[s] = Idle /\ sub'[x].campaign # sub[x].campaign)
         => \/ campaign'[sub'[x].campaign].status = "active"
            \/ sub'[x].campaign \in raced]_vars
  BY <1>2
<1>4. QED
  BY <1>1, <1>3, InitRace, PTL DEF Spec, MovedToActive

-----------------------------------------------------------------------------
(***************************************************************************)
(* collected_amount.                                                       *)
(***************************************************************************)
Posted(c) == {p \in Payment : payment[p].for = c /\ payment[p].posted}
Booked(c) == {o \in Offline : offline[o].for = c}

\* A payment is posted after it was made for a campaign.
MadeFirst == \A p \in Payment : payment[p].posted => payment[p].for # None

CollectedInv == CollectedExact /\ MadeFirst

\* One more member counts one more.
LEMMA OneMore ==
  ASSUME NEW X, IsFiniteSet(X), NEW S \in SUBSET X, NEW p \in X, p \notin S
  PROVE  Cardinality(S) \in Nat /\ Cardinality(S \cup {p}) = Cardinality(S) + 1
<1>1. IsFiniteSet(S)
  BY FS_Subset
<1>2. QED
  BY <1>1, FS_AddElement, FS_CardinalityType

\* A campaign collects as much as is counted for it, and others nothing.
LEMMA CollectStep ==
  ASSUME TypeOK, CollectedExact, NEW k \in Campaign,
         campaign' = [campaign EXCEPT ![k] = AutoComplete(Collect(@))],
         \A c \in Campaign :
           Cardinality(Posted(c)') + Cardinality(Booked(c)')
             = Cardinality(Posted(c)) + Cardinality(Booked(c)) + (IF c = k THEN 1 ELSE 0)
  PROVE  CollectedExact'
<1>1. ASSUME NEW c \in Campaign
      PROVE  campaign'[c].collected = Cardinality(Posted(c)') + Cardinality(Booked(c)')
  <2>1. /\ campaign[c] \in CampaignRow /\ campaign[c].collected \in Nat
        /\ campaign'[c] = IF c = k THEN AutoComplete(Collect(campaign[c])) ELSE campaign[c]
    BY DEF TypeOK, CampaignRow
  <2>2. campaign'[c].collected = campaign[c].collected + (IF c = k THEN 1 ELSE 0)
    BY <2>1, CollectType
  <2>3. campaign[c].collected = Cardinality(Posted(c)) + Cardinality(Booked(c))
    BY DEF CollectedExact, Posted, Booked
  <2>4. QED
    BY <2>2, <2>3
<1>2. QED
  BY <1>1 DEF CollectedExact, Posted, Booked

\* Columns that no payment is about may change.
LEMMA CollectedApart ==
  ASSUME CollectedInv, \A c \in Campaign : campaign'[c].collected = campaign[c].collected,
         UNCHANGED <<payment, offline>>
  PROVE  CollectedInv'
  BY DEF CollectedInv, CollectedExact, MadeFirst

LEMMA OfflineCollected ==
  ASSUME RaceInv, CollectedInv, NEW s \in Request, CommitOffline(s)
  PROVE  CollectedInv'
<1>1. PICK k \in Campaign : k = request[s].c
  BY DEF RaceInv, Held, RequestRight, CommitOffline
<1>2. PICK o \in Offline : /\ offline[o].for = None
                           /\ offline' = [offline EXCEPT ![o] = [for |-> k, ref |-> request[s].ref]]
  BY <1>1 DEF CommitOffline
<1>3. k # None /\ IsFiniteSet(Offline)
  BY CampaignsAssumption
<1>4. /\ \A c \in Campaign : Posted(c)' = Posted(c)
      /\ MadeFirst'
  BY DEF CommitOffline, Posted, CollectedInv, MadeFirst
<1>5. /\ Booked(k)' = Booked(k) \cup {o} /\ o \notin Booked(k)
      /\ \A c \in Campaign \ {k} : Booked(c)' = Booked(c)
  <2>1. /\ offline'[o].for = k
        /\ \A i \in Offline \ {o} : offline'[i] = offline[i]
    BY <1>2 DEF RaceInv, TypeOK
  <2>2. \A c \in Campaign : c # None
    BY CampaignsAssumption
  <2>3. QED
    BY <1>2, <1>3, <2>1, <2>2 DEF Booked
<1>6. /\ Cardinality(Booked(k)) \in Nat
      /\ Cardinality(Booked(k)') = Cardinality(Booked(k)) + 1
  BY <1>3, <1>5, OneMore DEF Booked
<1>7. \A c \in Campaign : Cardinality(Posted(c)) \in Nat /\ Cardinality(Booked(c)) \in Nat
  BY CampaignsAssumption, FS_Subset, FS_CardinalityType DEF Posted, Booked
<1>8. \A c \in Campaign :
        Cardinality(Posted(c)') + Cardinality(Booked(c)')
          = Cardinality(Posted(c)) + Cardinality(Booked(c)) + (IF c = k THEN 1 ELSE 0)
  <2> TAKE c \in Campaign
  <2>1. Cardinality(Posted(c)') = Cardinality(Posted(c))
    BY <1>4
  <2>2. Cardinality(Booked(c)') = Cardinality(Booked(c)) + (IF c = k THEN 1 ELSE 0)
    BY <1>5, <1>6, <1>7
  <2>3. QED
    BY <1>7, <2>1, <2>2
<1>9. campaign' = [campaign EXCEPT ![k] = AutoComplete(Collect(@))]
  BY <1>1 DEF CommitOffline, CollectOffline
<1>10. QED
  BY <1>4, <1>8, <1>9, CollectStep DEF CollectedInv, RaceInv

LEMMA PostCollected ==
  ASSUME TypeOK, CollectedInv, NEW p \in Payment, Post(p)
  PROVE  CollectedInv'
<1>1. PICK k \in Campaign : k = payment[p].for
  BY DEF TypeOK, Post
<1>2. /\ payment'[p].for = k /\ payment'[p].posted /\ ~payment[p].posted
      /\ \A i \in Payment \ {p} : payment'[i] = payment[i]
  BY <1>1 DEF Post, TypeOK
<1>3. /\ \A c \in Campaign : Booked(c)' = Booked(c)
      /\ MadeFirst'
  BY <1>2, CampaignsAssumption DEF Post, Booked, CollectedInv, MadeFirst
<1>4. /\ Posted(k)' = Posted(k) \cup {p} /\ p \notin Posted(k)
      /\ \A c \in Campaign \ {k} : Posted(c)' = Posted(c)
  BY <1>1, <1>2 DEF Posted
<1>5. /\ Cardinality(Posted(k)) \in Nat
      /\ Cardinality(Posted(k)') = Cardinality(Posted(k)) + 1
  <2>1. Posted(k) \in SUBSET Payment /\ IsFiniteSet(Payment)
    BY CampaignsAssumption DEF Posted
  <2>2. \A S \in SUBSET Payment : p \notin S =>
          Cardinality(S) \in Nat /\ Cardinality(S \cup {p}) = Cardinality(S) + 1
    BY <2>1, OneMore
  <2>3. p \notin Posted(k)
    BY <1>4
  <2>4. Cardinality(Posted(k) \cup {p}) = Cardinality(Posted(k)) + 1
    BY <2>1, <2>2, <2>3
  <2>5. QED
    BY <1>4, <2>1, <2>2, <2>4
<1>6. \A c \in Campaign : Cardinality(Posted(c)) \in Nat /\ Cardinality(Booked(c)) \in Nat
  BY CampaignsAssumption, FS_Subset, FS_CardinalityType DEF Posted, Booked
<1>7. \A c \in Campaign :
        Cardinality(Posted(c)') + Cardinality(Booked(c)')
          = Cardinality(Posted(c)) + Cardinality(Booked(c)) + (IF c = k THEN 1 ELSE 0)
  <2> TAKE c \in Campaign
  <2>1. Cardinality(Booked(c)') = Cardinality(Booked(c))
    BY <1>3
  <2>2. Cardinality(Posted(c)') = Cardinality(Posted(c)) + (IF c = k THEN 1 ELSE 0)
    <3>1. CASE c = k
      BY <1>5, <3>1
    <3>2. CASE c # k
      <4>1. Posted(c)' = Posted(c)
        BY <1>4, <3>2
      <4>2. QED
        BY <1>6, <3>2, <4>1
    <3>3. QED
      BY <3>1, <3>2
  <2>3. QED
    BY <1>6, <2>1, <2>2
<1>8. campaign' = [campaign EXCEPT ![k] = AutoComplete(Collect(@))]
  BY <1>1 DEF Post
<1>9. QED
  BY <1>3, <1>7, <1>8, CollectStep DEF CollectedInv

\* A payment that is made is not posted yet.
LEMMA MadeCollected ==
  ASSUME TypeOK, CollectedInv, UNCHANGED <<campaign, offline>>, NEW p \in Payment, NEW c,
         payment[p].for = None, c # None, payment' = [payment EXCEPT ![p].for = c]
  PROVE  CollectedInv'
<1>1. /\ payment'[p].for = c /\ payment'[p].posted = payment[p].posted /\ ~payment[p].posted
      /\ \A i \in Payment \ {p} : payment'[i] = payment[i]
  BY DEF TypeOK, CollectedInv, MadeFirst
<1>2. \A k \in Campaign : Posted(k)' = Posted(k)
  BY <1>1 DEF Posted
<1>3. MadeFirst'
  BY <1>1 DEF CollectedInv, MadeFirst
<1>4. QED
  BY <1>2, <1>3 DEF CollectedInv, CollectedExact, Posted

LEMMA NextCollected ==
  ASSUME RaceInv, CollectedInv, [Next]_vars
  PROVE  CollectedInv'
<1>1. TypeOK
  BY DEF RaceInv
<1>2. ASSUME NEW s \in Request, Handle(s) PROVE CollectedInv'
  <2>1. CASE CommitOffline(s)
    BY <2>1, OfflineCollected
  <2>2. CASE CommitStatus(s)
    <3>1. \A c \in Campaign : campaign'[c].collected = campaign[c].collected
      BY <1>1, <2>2 DEF CommitStatus, TypeOK, CampaignRow
    <3>2. QED
      BY <2>2, <3>1, CollectedApart DEF CommitStatus
  <2>3. CASE CommitMoves(s)
    <3>1. \A c \in Campaign : campaign'[c].collected = campaign[c].collected
      BY <1>1, <2>3 DEF CommitMoves, TypeOK, CampaignRow
    <3>2. QED
      BY <2>3, <3>1, CollectedApart DEF CommitMoves
  <2>4. CASE UNCHANGED <<campaign, payment, offline>>
    BY <2>4, CollectedApart
  <2>5. QED
    BY <1>2, <2>1, <2>2, <2>3, <2>4
    DEF Handle, Transition, Close, ForceRealloc, Move, LoadOffline, LoadCreate, CommitCreate, Rollback
<1>3. ASSUME Catalogue PROVE CollectedInv'
  <2>1. UNCHANGED <<payment, offline>>
    BY <1>3 DEF Catalogue, CreateCampaign, UpdateCampaign, UpdateFoundation, CloseExpired
  <2>2. ASSUME NEW k \in Campaign PROVE campaign'[k].collected = campaign[k].collected
    <3>1. campaign[k] \in CampaignRow
      BY <1>1 DEF TypeOK
    <3>2. CASE \E c \in Campaign, f \in Foundation, g \in Goal \cup {None}, b \in BOOLEAN :
                 CreateCampaign(c, f, g, b)
      BY <1>1, <3>1, <3>2 DEF CreateCampaign, TypeOK, CampaignRow
    <3>3. CASE \E c \in Campaign, f \in Foundation, g \in Goal \cup {None}, b \in BOOLEAN :
                 UpdateCampaign(c, f, g, b)
      BY <1>1, <3>1, <3>3 DEF UpdateCampaign, TypeOK, CampaignRow
    <3>4. CASE \E C \in SUBSET Campaign : CloseExpired(C)
      BY <3>1, <3>4 DEF CloseExpired, CampaignRow
    <3>5. QED
      BY <1>3, <3>2, <3>3, <3>4 DEF Catalogue, UpdateFoundation
  <2>3. QED
    BY <2>1, <2>2, CollectedApart
<1>4. ASSUME NEW p \in Payment, Pay(p) PROVE CollectedInv'
  <2>1. ASSUME NEW c \in Campaign, Donate(p, c) PROVE CollectedInv'
    BY <1>1, <2>1, MadeCollected, CampaignsAssumption DEF Donate
  <2>2. ASSUME NEW x \in Sub, Charge(p, x) PROVE CollectedInv'
    BY <1>1, <2>2, MadeCollected DEF Charge
  <2>3. QED
    BY <1>1, <1>4, <2>1, <2>2, PostCollected DEF Pay
<1>5. ASSUME NEW x \in Sub, Subscribe(x) PROVE CollectedInv'
  BY <1>1, <1>5, SubscribeStep, CollectedApart
<1>6. CASE UNCHANGED vars
  BY <1>6, CollectedApart DEF vars
<1>7. QED
  BY <1>2, <1>3, <1>4, <1>5, <1>6 DEF Next

\* collected_amount is what was posted and recorded offline, no increment lost
\* to a closing, an admin's form or another payment.
THEOREM CollectedCorrect == Spec => []CollectedExact
<1>1. Init => CollectedInv
  <2> SUFFICES ASSUME Init PROVE CollectedInv
    OBVIOUS
  <2>1. \A c \in Campaign : /\ c # None /\ campaign[c].collected = 0
                            /\ Posted(c) = {} /\ Booked(c) = {}
    BY CampaignsAssumption DEF Init, Posted, Booked
  <2>2. MadeFirst
    BY DEF Init, MadeFirst
  <2>3. \A c \in Campaign :
          campaign[c].collected = Cardinality(Posted(c)) + Cardinality(Booked(c))
    BY <2>1, FS_EmptySet
  <2>4. QED
    BY <2>2, <2>3 DEF CollectedInv, CollectedExact, Posted, Booked
<1>2. RaceInv /\ CollectedInv /\ [Next]_vars => RaceInv' /\ CollectedInv'
  BY NextRace, NextCollected
<1>3. CollectedInv => CollectedExact
  BY DEF CollectedInv
<1>4. QED
  BY <1>1, <1>2, <1>3, InitRace, PTL DEF Spec

=============================================================================
