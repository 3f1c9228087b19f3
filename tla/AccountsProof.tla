---------------------------- MODULE AccountsProof ----------------------------
(***************************************************************************)
(* Safety of Accounts for any number of users, payments and requests at a  *)
(* time, and any bounds.                                                   *)
(***************************************************************************)
EXTENDS Accounts, FiniteSetTheorems, TLAPS

UserRow == [state : UserState, anonymous : BOOLEAN, seen : BOOLEAN, total : Nat]

PayRow == [kind : {"none", "donation", "charge"}, owner : User \cup {None}, sub : Nat,
           status : {"pending", "success", "refunded"}]

SubRow == [owner : User, status : SubStatus, late : BOOLEAN]

RequestState ==
  [at : Phase, users : SUBSET User, user : User \cup {None}, pay : Payment \cup {None}, sub : Nat,
   to : SubStatus, total : Nat, hard : SUBSET User]

-----------------------------------------------------------------------------
(***************************************************************************)
(* The inductive invariant.                                                *)
(***************************************************************************)
Columns ==
  /\ user \in [User -> UserRow]
  /\ payment \in [Payment -> PayRow]
  /\ subs \in Seq(SubRow)
  /\ request \in [Request -> RequestState]
  /\ begun \in 0..MaxRequests
  /\ raced \subseteq User /\ crowded \subseteq User

Made(u) == user[u].state # "none"

\* Whoever a payment or a subscription belongs to has registered.
RowsExist ==
  /\ \A p \in Payment : /\ payment[p].sub <= Len(subs)
                        /\ payment[p].kind = "charge" => payment[p].sub > 0
                        /\ payment[p].owner # None => Made(payment[p].owner)
                        /\ payment[p].kind = "none" => payment[p].owner = None
  /\ \A i \in DOMAIN subs : Made(subs[i].owner)

Pays(q) == q.at \in {"posting", "refunding"}

\* q is going to write the status of a subscription.
Writes(q) == q.at = "changing" \/ (q.at = "posting" /\ q.to = "pending_payment_method")

\* What the phase of a request says of its fields.
Shape(q) ==
  /\ Pays(q) => q.pay \in Payment /\ q.users = {q.user} \ {None}
  /\ q.pay # None => Pays(q)
  /\ Writes(q) => q.sub > 0
  /\ q.sub <= Len(subs)
  /\ q.at = "subscribing" => q.user \in User /\ q.users = {q.user}
  /\ q.at = "merging" => q.user \in User /\ \E s \in User \ {q.user} : q.users = {s, q.user}
  /\ q.at = "idle" => q.users = {}
  /\ q.hard \subseteq q.users
  /\ \A u \in q.users : Made(u)

\* Two requests on the accounts of which one is being ended are raced.
OverlapsRaced ==
  \A r, o \in Request :
    (r # o /\ request[r].at \in Ends /\ request[r].users \cap request[o].users # {}) =>
      request[r].users \cup request[o].users \subseteq raced

(***************************************************************************)
(* What a request may still rely on, unless it is raced: the payment is as *)
(* it was loaded,                                                          *)
(***************************************************************************)
Paying(q) ==
  Pays(q) =>
    /\ payment[q.pay].kind # "none"
    /\ payment[q.pay].status = IF q.at = "posting" THEN "pending" ELSE "success"
    /\ OwnerOf(q.pay) = q.user \/ {OwnerOf(q.pay), q.user} \subseteq raced \cup {None}

\* who has the subscription that is becoming active has not ended,
Writing(q) ==
  Writes(q) =>
    /\ subs[q.sub].owner \in q.users \cup raced
    /\ q.to # "cancelled" => \/ user[subs[q.sub].owner].state = "live"
                             \/ subs[q.sub].late
                             \/ subs[q.sub].owner \in raced

\* the accounts that are merged have not, and their totals are as loaded,
Merging(q) ==
  q.at = "merging" =>
    /\ \A u \in q.users \ raced : user[u].state = "live"
    /\ q.users \cap raced = {} => \A s \in q.users \ {q.user} : q.total = Both(s, q.user)

\* who is going to be deleted has no donation, and whose subscriptions have
\* been cancelled has no new one.
Cleaning(q) ==
  q.at = "decided" =>
    /\ \A p \in Payment : payment[p].owner \in q.hard => payment[p].owner \in raced
    /\ \A i \in DOMAIN subs : (i > q.sub /\ subs[i].owner \in q.users) => subs[i].owner \in raced

Knows(q) == Paying(q) /\ Writing(q) /\ Merging(q) /\ Cleaning(q)

OpenSubs(u) == {i \in DOMAIN subs : subs[i].owner = u /\ subs[i].status \in OpenSub}

\* who asks for a subscription has fewer than allowed.
Asking(q) ==
  q.at = "subscribing" => q.user \in crowded \/ Cardinality(OpenSubs(q.user)) < MaxSubs

Requests == \A r \in Request : Shape(request[r]) /\ Knows(request[r]) /\ Asking(request[r])

\* A payment is worked on by one request at a time, and who asks for two
\* subscriptions at a time is crowded.
Alone ==
  \A r, o \in Request : r # o =>
    /\ request[r].pay = request[o].pay => request[r].pay = None
    /\ (request[r].at = "subscribing" /\ request[o].at = "subscribing"
          /\ request[r].user = request[o].user) => request[r].user \in crowded

\* Who has ended has no subscription that is charged, or about to be.
Stopped ==
  \A i \in DOMAIN subs :
    \/ user[subs[i].owner].state = "live"
    \/ subs[i].owner \in raced
    \/ subs[i].late
    \/ subs[i].status = "cancelled"
    \/ subs[i].status = "paused" /\ user[subs[i].owner].state = "cleaned"

Inv ==
  /\ Columns /\ RowsExist /\ OverlapsRaced /\ Requests /\ Alone
  /\ Stopped /\ TotalsExact /\ LimitKept

-----------------------------------------------------------------------------
(***************************************************************************)
(* What the pieces of the actions do.                                      *)
(***************************************************************************)
LEMMA IdleState == Idle \in RequestState
  BY DEF Idle, RequestState, Phase, SubStatus

LEMMA SubsAre ==
  ASSUME NEW s \in Seq(SubRow)
  PROVE  /\ Len(s) \in Nat /\ DOMAIN s = 1..Len(s)
         /\ \A i \in DOMAIN s : /\ s[i] \in SubRow /\ s[i].owner \in User
                                /\ s[i].status \in SubStatus /\ s[i].late \in BOOLEAN
<1>1. \A i \in DOMAIN s : s[i] \in SubRow
  OBVIOUS
<1>2. QED
  BY <1>1 DEF SubRow

LEMMA IdleKnows ==
  ASSUME Columns
  PROVE  Shape(Idle) /\ Knows(Idle) /\ Asking(Idle)
<1>1. Len(subs) \in Nat
  BY DEF Columns
<1>2. Shape(Idle)
  BY <1>1, AccountsAssumption DEF Idle, Shape, Pays, Writes
<1>3. Knows(Idle) /\ Asking(Idle)
  BY DEF Idle, Knows, Paying, Pays, Writing, Writes, Merging, Cleaning, Asking
<1>4. QED
  BY <1>2, <1>3

LEMMA MeetingIs ==
  ASSUME Columns, NEW r \in Request \cup {None}, NEW q, q.users \subseteq User
  PROVE  /\ Meeting(r, q) \subseteq User
         /\ \A o \in Request : (o # r /\ request[o].users \cap q.users # {}
                                  /\ (q.at \in Ends \/ request[o].at \in Ends)) =>
              q.users \cup request[o].users \subseteq Meeting(r, q)
<1>1. \A o \in Request : request[o].users \subseteq User
  BY DEF Columns, RequestState
<1>2. QED
  BY <1>1 DEF Meeting, Met

\* Columns that only change in one direction.
Grows ==
  /\ raced \subseteq raced' /\ crowded \subseteq crowded'
  /\ Len(subs) <= Len(subs')
  /\ \A i \in DOMAIN subs : subs'[i].late = subs[i].late
  /\ \A u \in User : Made(u) => Made(u)'

\* What belonged to u and now belongs to v does not disturb request q.
Moved(u, v, q) ==
  \/ u = v
  \/ /\ u # None
     /\ (u \in q.users \/ v \in q.users) => \A w \in q.users \cup {u, v} : w \in raced' \cup {None}
     /\ u \in raced => v \in raced' \cup {None}

\* A step disturbs nothing that request q relies on, or q is raced.
Passes(q) ==
  /\ \A u \in q.users : user[u].state = "live" => user'[u].state = "live" \/ u \in raced'
  /\ q.at = "merging" => \A u \in q.users : user'[u].total = user[u].total \/ u \in raced'
  /\ \A i \in DOMAIN subs : Moved(subs[i].owner, subs'[i].owner, q)
  /\ q.pay # None =>
       /\ payment'[q.pay].kind = payment[q.pay].kind /\ payment'[q.pay].sub = payment[q.pay].sub
       /\ payment'[q.pay].status = payment[q.pay].status
       /\ Moved(payment[q.pay].owner, payment'[q.pay].owner, q)
  /\ q.at = "decided" =>
       /\ \A p \in Payment : payment'[p].owner \in q.hard =>
            payment'[p].owner = payment[p].owner \/ payment'[p].owner \in raced'
       /\ \A i \in DOMAIN subs' : subs'[i].owner \in q.users =>
            (i \in DOMAIN subs /\ subs'[i].owner = subs[i].owner) \/ subs'[i].owner \in raced'

LEMMA KnowsPass ==
  ASSUME Columns, Columns', RowsExist, Grows, NEW q \in RequestState, Shape(q), Knows(q), Passes(q)
  PROVE  Shape(q)' /\ Knows(q)'
<1>a. subs \in Seq(SubRow) /\ subs' \in Seq(SubRow)
  BY DEF Columns
<1>b. q.users \subseteq User /\ q.sub \in Nat
  BY DEF RequestState
<1>c. /\ None \notin User /\ raced \subseteq raced' /\ raced' \subseteq User
      /\ Len(subs) <= Len(subs')
  BY AccountsAssumption DEF Columns, Grows
<1>0. /\ Len(subs) \in Nat /\ DOMAIN subs = 1..Len(subs)
      /\ Len(subs') \in Nat /\ DOMAIN subs' = 1..Len(subs')
      /\ q.users \subseteq User /\ q.sub \in Nat
      /\ None \notin User /\ raced \subseteq raced' /\ raced' \subseteq User
      /\ Len(subs) <= Len(subs')
      /\ \A i \in DOMAIN subs : subs[i].owner \in User
      /\ \A i \in DOMAIN subs' : subs'[i].owner \in User
  BY <1>a, <1>b, <1>c, SubsAre
<1>1. Shape(q)'
  BY <1>0 DEF Shape, Grows, Pays, Writes
<1>2. Paying(q)'
  <2> SUFFICES ASSUME Pays(q) PROVE Paying(q)'
    BY DEF Paying, Pays
  <2> DEFINE p == q.pay
  <2>1. /\ p \in Payment /\ q.users = {q.user} \ {None} /\ p # None
        /\ payment'[p].kind = payment[p].kind /\ payment'[p].sub = payment[p].sub
        /\ payment'[p].status = payment[p].status
        /\ Moved(payment[p].owner, payment'[p].owner, q)
    BY AccountsAssumption DEF Shape, Passes
  <2>2. /\ payment[p].kind # "none"
        /\ payment[p].status = IF q.at = "posting" THEN "pending" ELSE "success"
        /\ OwnerOf(p) = q.user \/ {OwnerOf(p), q.user} \subseteq raced \cup {None}
    BY DEF Knows, Paying
  <2>3. Moved(OwnerOf(p), OwnerOf(p)', q)
    <3>1. CASE payment[p].kind = "charge"
      <4>1. payment[p].sub \in DOMAIN subs
        BY <1>0, <2>1, <3>1 DEF RowsExist, Columns, PayRow
      <4>2. OwnerOf(p) = subs[payment[p].sub].owner /\ OwnerOf(p)' = subs'[payment[p].sub].owner
        BY <2>1, <3>1 DEF OwnerOf
      <4>3. QED
        BY <4>1, <4>2 DEF Passes
    <3>2. CASE payment[p].kind # "charge"
      BY <2>1, <3>2 DEF OwnerOf
    <3>3. QED
      BY <3>1, <3>2
  <2>4. OwnerOf(p)' = q.user \/ {OwnerOf(p)', q.user} \subseteq raced' \cup {None}
    <3>1. PICK u : u = OwnerOf(p)
      OBVIOUS
    <3>2. PICK v : v = OwnerOf(p)'
      OBVIOUS
    <3>3. Moved(u, v, q) /\ (u = q.user \/ {u, q.user} \subseteq raced \cup {None})
      BY <2>2, <2>3, <3>1, <3>2
    <3>4. v = q.user \/ {v, q.user} \subseteq raced' \cup {None}
      BY <1>0, <2>1, <3>3 DEF Moved
    <3>5. QED
      BY <3>2, <3>4
  <2>5. QED
    BY <2>1, <2>2, <2>4 DEF Paying, Pays
<1>3. Writing(q)'
  <2> SUFFICES ASSUME Writes(q) PROVE Writing(q)'
    BY DEF Writing, Writes
  <2> DEFINE i == q.sub
             u == subs[i].owner
             v == subs'[i].owner
  <2>1. i \in DOMAIN subs /\ i \in DOMAIN subs'
    BY <1>0 DEF Shape
  <2>2. /\ u \in User /\ v \in User /\ Moved(u, v, q) /\ subs'[i].late = subs[i].late
        /\ \A w \in q.users : user[w].state = "live" => user'[w].state = "live" \/ w \in raced'
    BY <1>0, <2>1 DEF Passes, Grows
  <2>3. /\ u \in q.users \cup raced
        /\ q.to # "cancelled" => user[u].state = "live" \/ subs[i].late \/ u \in raced
    BY DEF Knows, Writing
  <2> HIDE DEF u, v
  <2>4. /\ v \in q.users \cup raced'
        /\ q.to # "cancelled" => user'[v].state = "live" \/ subs'[i].late \/ v \in raced'
    BY <1>0, <2>2, <2>3 DEF Moved
  <2>5. QED
    BY <2>4 DEF Writing, Writes, v
<1>4. Merging(q)'
  <2> SUFFICES ASSUME q.at = "merging" PROVE Merging(q)'
    BY DEF Merging
  <2>1. /\ \A u \in q.users \ raced : user[u].state = "live"
        /\ q.users \cap raced = {} => \A s \in q.users \ {q.user} : q.total = Both(s, q.user)
        /\ \A u \in q.users : user[u].state = "live" => user'[u].state = "live" \/ u \in raced'
        /\ \A u \in q.users : user'[u].total = user[u].total \/ u \in raced'
        /\ q.user \in q.users
    BY DEF Knows, Merging, Passes, Shape
  <2>2. \A u \in q.users \ raced' : user'[u].state = "live"
    BY <1>0, <2>1
  <2>3. ASSUME q.users \cap raced' = {}, NEW s \in q.users \ {q.user}
        PROVE  q.total = Both(s, q.user)'
    <3>1. q.total = Both(s, q.user)
      BY <1>0, <2>1, <2>3
    <3>2. user'[s].total = user[s].total /\ user'[q.user].total = user[q.user].total
      BY <2>1, <2>3
    <3>3. QED
      BY <3>1, <3>2 DEF Both
  <2>4. QED
    BY <2>2, <2>3 DEF Merging
<1>5. Cleaning(q)'
  BY <1>0 DEF Knows, Cleaning, Passes
<1>6. QED
  BY <1>1, <1>2, <1>3, <1>4, <1>5 DEF Knows

LEMMA LimitIs ==
  /\ LimitKept <=> \A u \in User \ crowded : Cardinality(OpenSubs(u)) <= MaxSubs
  /\ LimitKept' <=> \A u \in User \ crowded' : Cardinality(OpenSubs(u)') <= MaxSubs
<1>1. \A u : {i \in SubsOf(u) : subs[i].status \in OpenSub} = OpenSubs(u)
  BY DEF SubsOf, OpenSubs
<1>2. \A u : {i \in SubsOf(u)' : subs'[i].status \in OpenSub} = OpenSubs(u)'
  BY DEF SubsOf, OpenSubs
<1>3. QED
  BY <1>1, <1>2 DEF LimitKept

LEMMA OpenFinite ==
  ASSUME NEW s \in Seq(SubRow), NEW S \in SUBSET DOMAIN s
  PROVE  IsFiniteSet(S) /\ Cardinality(S) \in Nat
<1>1. IsFiniteSet(1..Len(s))
  BY FS_Interval
<1>2. IsFiniteSet(S)
  BY <1>1, FS_Subset
<1>3. QED
  BY <1>2, FS_CardinalityType

\* Requests go on, or are over.
LEMMA SettleKeeps ==
  ASSUME Inv, Columns', RowsExist', Grows,
         \A o \in Request : \/ request'[o] = Idle
                            \/ /\ request'[o] = request[o] /\ Passes(request[o])
                               /\ Asking(request[o])',
         Stopped', TotalsExact', LimitKept'
  PROVE  Inv'
<1>1. OverlapsRaced'
  BY DEF Inv, OverlapsRaced, Grows, Idle, Ends
<1>2. Alone'
  BY DEF Inv, Alone, Grows, Idle
<1>3. ASSUME NEW r \in Request
      PROVE  Shape(request[r])' /\ Knows(request[r])' /\ Asking(request[r])'
  <2>1. CASE request'[r] = Idle
    <3>1. Len(subs)' \in Nat
      BY DEF Columns
    <3>2. Shape(Idle)'
      BY <3>1, AccountsAssumption DEF Idle, Shape, Pays, Writes
    <3>3. Knows(Idle)' /\ Asking(Idle)'
      BY DEF Idle, Knows, Paying, Pays, Writing, Writes, Merging, Cleaning, Asking
    <3>4. QED
      BY <2>1, <3>2, <3>3
  <2>2. CASE request'[r] = request[r] /\ Passes(request[r]) /\ Asking(request[r])'
    <3>1. PICK q : q = request[r]
      OBVIOUS
    <3>2. q \in RequestState /\ Shape(q) /\ Knows(q) /\ Passes(q)
      BY <2>2, <3>1 DEF Inv, Columns, Requests
    <3>3. Shape(q)' /\ Knows(q)'
      BY <3>2, KnowsPass DEF Inv
    <3>4. QED
      BY <2>2, <3>1, <3>3
  <2>3. QED
    BY <2>1, <2>2
<1>4. Requests'
  BY <1>3 DEF Requests
<1>5. QED
  BY <1>1, <1>2, <1>4 DEF Inv

\* ... and nobody gets more subscriptions.
LEMMA NoMoreKeeps ==
  ASSUME Inv, Columns', RowsExist', Grows,
         \A o \in Request : request'[o] = Idle \/ (request'[o] = request[o] /\ Passes(request[o])),
         \A u \in User : u \in crowded' \/ OpenSubs(u)' \subseteq OpenSubs(u),
         Stopped', TotalsExact'
  PROVE  Inv'
<1>1. ASSUME NEW u \in User, u \notin crowded'
      PROVE  Cardinality(OpenSubs(u)') <= Cardinality(OpenSubs(u))
             /\ Cardinality(OpenSubs(u)) \in Nat /\ Cardinality(OpenSubs(u)') \in Nat
  <2>1. OpenSubs(u)' \subseteq OpenSubs(u)
    BY <1>1
  <2>2. OpenSubs(u) \subseteq DOMAIN subs /\ subs \in Seq(SubRow)
    BY DEF Inv, Columns, OpenSubs
  <2>3. IsFiniteSet(OpenSubs(u))
    BY <2>2, OpenFinite
  <2>4. QED
    BY <2>1, <2>3, FS_Subset, FS_CardinalityType
<1>2. LimitKept'
  BY <1>1, LimitIs, AccountsAssumption DEF Inv, Grows
<1>3. ASSUME NEW r \in Request, request'[r] = request[r]
      PROVE  Asking(request[r])'
  <2>1. PICK q : q = request[r]
    OBVIOUS
  <2>2. q \in RequestState /\ Shape(q) /\ Asking(q)
    BY <2>1 DEF Inv, Columns, Requests
  <2>3. ASSUME q.at = "subscribing", q.user \notin crowded'
        PROVE  Cardinality(OpenSubs(q.user)') < MaxSubs
    <3>1. q.user \in User /\ Cardinality(OpenSubs(q.user)) < MaxSubs
      BY <2>2, <2>3 DEF Shape, Asking, Grows
    <3>2. QED
      BY <1>1, <2>3, <3>1, AccountsAssumption
  <2>4. Asking(q)'
    BY <2>3 DEF Asking
  <2>5. QED
    BY <1>3, <2>1, <2>4
<1>4. QED
  BY <1>2, <1>3, SettleKeeps

\* A request that reads.
LEMMA ProceedKeeps ==
  ASSUME Inv, NEW r \in Request, NEW q \in RequestState,
         request' = [request EXCEPT ![r] = q], UNCHANGED <<user, payment, subs>>,
         Shape(q), Knows(q), Asking(q),
         begun' \in 0..MaxRequests,
         raced \subseteq raced', raced' \subseteq User,
         crowded \subseteq crowded', crowded' \subseteq User,
         \A o \in Request \ {r} :
           /\ (request[o].at \in Ends \/ q.at \in Ends) /\ request[o].users \cap q.users # {} =>
                request[o].users \cup q.users \subseteq raced'
           /\ q.pay # None => request[o].pay # q.pay
           /\ (q.at = "subscribing" /\ request[o].at = "subscribing" /\ request[o].user = q.user) =>
                q.user \in crowded'
  PROVE  Inv'
<1>0. /\ request \in [Request -> RequestState] /\ subs \in Seq(SubRow)
      /\ request'[r] = q /\ \A o \in Request \ {r} : request'[o] = request[o]
  BY DEF Inv, Columns
<1>1. Columns'
  BY DEF Inv, Columns
<1>2. RowsExist'
  BY DEF Inv, RowsExist, Made
<1>3. Grows
  <2>1. Len(subs) \in Nat
    BY <1>0
  <2>2. QED
    BY <2>1 DEF Grows, Made
<1>4. \A o \in Request : /\ request'[o] \in RequestState /\ Shape(request'[o])
                         /\ Knows(request'[o]) /\ Asking(request'[o])
  BY <1>0 DEF Inv, Requests
<1>5. ASSUME NEW o \in Request
      PROVE  Shape(request[o])' /\ Knows(request[o])' /\ Asking(request[o])'
  <2>1. PICK x : x = request'[o]
    OBVIOUS
  <2>2. x \in RequestState /\ Shape(x) /\ Knows(x) /\ Asking(x)
    BY <1>4, <2>1
  <2>3. Passes(x)
    BY DEF Passes, Moved
  <2>4. Shape(x)' /\ Knows(x)'
    BY <1>1, <1>3, <2>2, <2>3, KnowsPass DEF Inv
  <2>5. Asking(x)'
    BY <2>2 DEF Asking, OpenSubs
  <2>6. QED
    BY <2>1, <2>4, <2>5
<1>6. OverlapsRaced'
  <2> SUFFICES ASSUME NEW a \in Request, NEW b \in Request, a # b, request'[a].at \in Ends,
                      request'[a].users \cap request'[b].users # {}
               PROVE  request'[a].users \cup request'[b].users \subseteq raced'
    BY DEF OverlapsRaced
  <2>1. CASE a = r
    BY <1>0, <2>1
  <2>2. CASE b = r
    BY <1>0, <2>2
  <2>3. CASE a # r /\ b # r
    BY <1>0, <2>3 DEF Inv, OverlapsRaced
  <2>4. QED
    BY <2>1, <2>2, <2>3
<1>7. Alone'
  <2> SUFFICES ASSUME NEW a \in Request, NEW b \in Request, a # b
               PROVE  /\ request'[a].pay = request'[b].pay => request'[a].pay = None
                      /\ (request'[a].at = "subscribing" /\ request'[b].at = "subscribing"
                            /\ request'[a].user = request'[b].user) => request'[a].user \in crowded'
    BY DEF Alone
  <2>1. CASE a = r
    BY <1>0, <2>1
  <2>2. CASE b = r
    BY <1>0, <2>2
  <2>3. CASE a # r /\ b # r
    BY <1>0, <2>3 DEF Inv, Alone
  <2>4. QED
    BY <2>1, <2>2, <2>3
<1>8. Stopped'
  BY DEF Inv, Stopped
<1>9. TotalsExact'
  BY DEF Inv, TotalsExact, OwnerOf
<1>10. LimitKept'
  BY DEF Inv, LimitKept, SubsOf
<1>11. Requests'
  BY <1>5 DEF Requests
<1>12. QED
  BY <1>1, <1>2, <1>6, <1>7, <1>8, <1>9, <1>10, <1>11 DEF Inv

LEMMA BeginKeeps ==
  ASSUME Inv, NEW r \in Request, NEW q \in RequestState, Begin(r, q),
         Shape(q), Knows(q), Asking(q), UNCHANGED <<user, payment, subs>>,
         crowded \subseteq crowded', crowded' \subseteq User,
         q.pay # None => \A o \in Request : request[o].pay # q.pay,
         q.at = "subscribing" =>
           \A o \in Request : (request[o].at = "subscribing" /\ request[o].user = q.user) =>
             q.user \in crowded'
  PROVE  Inv'
<1>1. /\ request' = [request EXCEPT ![r] = q] /\ raced' = raced \cup Meeting(r, q)
      /\ begun' \in 0..MaxRequests
  BY AccountsAssumption DEF Inv, Columns, Begin
<1>2. q.users \subseteq User /\ Columns
  BY DEF RequestState, Inv
<1>3. Meeting(r, q) \subseteq User
  BY <1>2, MeetingIs
<1>4. \A o \in Request \ {r} :
        (request[o].at \in Ends \/ q.at \in Ends) /\ request[o].users \cap q.users # {} =>
           request[o].users \cup q.users \subseteq raced'
  BY <1>1, <1>2, MeetingIs
<1>5. raced \subseteq raced' /\ raced' \subseteq User
  BY <1>1, <1>2, <1>3 DEF Columns
<1>6. \A o \in Request \ {r} :
        /\ (request[o].at \in Ends \/ q.at \in Ends) /\ request[o].users \cap q.users # {} =>
             request[o].users \cup q.users \subseteq raced'
        /\ q.pay # None => request[o].pay # q.pay
        /\ (q.at = "subscribing" /\ request[o].at = "subscribing" /\ request[o].user = q.user) =>
             q.user \in crowded'
  BY <1>4
<1>7. QED
  BY <1>1, <1>5, <1>6, ProceedKeeps

-----------------------------------------------------------------------------
(***************************************************************************)
(* Every action keeps the invariant.                                       *)
(***************************************************************************)
LEMMA OwnerIs ==
  ASSUME Columns, RowsExist, NEW p \in Payment
  PROVE  /\ payment[p] \in PayRow /\ payment[p].sub \in 0..Len(subs)
         /\ payment[p].kind = "charge" => payment[p].sub \in DOMAIN subs
         /\ OwnerOf(p) \in User \cup {None}
         /\ OwnerOf(p) # None => Made(OwnerOf(p))
<1>1. payment[p] \in PayRow /\ Len(subs) \in Nat /\ DOMAIN subs = 1..Len(subs)
  BY DEF Columns
<1>2. payment[p].sub \in Nat /\ payment[p].owner \in User \cup {None}
  BY <1>1 DEF PayRow
<1>3. payment[p].kind = "charge" => payment[p].sub \in DOMAIN subs
  BY <1>1, <1>2 DEF RowsExist
<1>4. \A i \in DOMAIN subs : subs[i].owner \in User
  BY SubsAre DEF Columns
<1>5. QED
  BY <1>1, <1>2, <1>3, <1>4 DEF RowsExist, OwnerOf

LEMMA LoadPaymentKeeps ==
  ASSUME Inv, NEW r \in Request, NEW p \in Payment, NEW at \in {"posting", "refunding"},
         LoadPayment(r, p, at)
  PROVE  Inv'
<1> DEFINE to == IF payment[p].kind = "charge" THEN subs[payment[p].sub].status ELSE "cancelled"
           q == [Idle EXCEPT !.at = at, !.users = {OwnerOf(p)} \ {None}, !.user = OwnerOf(p),
                             !.pay = p, !.sub = payment[p].sub, !.to = to]
<1>1. /\ payment[p] \in PayRow /\ payment[p].sub \in 0..Len(subs)
      /\ payment[p].kind = "charge" => payment[p].sub \in DOMAIN subs
      /\ OwnerOf(p) \in User \cup {None}
      /\ OwnerOf(p) # None => Made(OwnerOf(p))
  BY OwnerIs DEF Inv
<1>2. /\ Len(subs) \in Nat /\ None \notin User /\ p # None
      /\ \A i \in DOMAIN subs : subs[i].status \in SubStatus
  BY SubsAre, AccountsAssumption DEF Inv, Columns
<1>3. /\ payment[p].kind # "none"
      /\ payment[p].status = (IF at = "posting" THEN "pending" ELSE "success")
      /\ \A o \in Request : request[o].pay # p
      /\ Begin(r, q) /\ UNCHANGED <<user, payment, subs, crowded>>
  BY DEF LoadPayment
<1>4. to \in SubStatus
  BY <1>1, <1>2 DEF SubStatus
<1>5. /\ q.at = at /\ q.users = {OwnerOf(p)} \ {None} /\ q.user = OwnerOf(p) /\ q.pay = p
      /\ q.sub = payment[p].sub /\ q.to = to /\ q.total = 0 /\ q.hard = {}
  BY DEF Idle
<1>6. q \in RequestState
  <2>1. payment[p].sub \in Nat /\ at \in Phase /\ {OwnerOf(p)} \ {None} \subseteq User
    BY <1>1, <1>2 DEF Phase
  <2> HIDE DEF to
  <2>2. QED
    BY <1>1, <1>4, <2>1 DEF Idle, RequestState
<1> HIDE DEF q
<1>7. Writes(q) => payment[p].kind = "charge" /\ subs[payment[p].sub].status = "pending_payment_method"
  BY <1>5 DEF Writes
<1>8. Shape(q)
  BY <1>1, <1>2, <1>5, <1>7 DEF Shape, Pays
<1>9. Knows(q)
  <2>1. Paying(q)
    BY <1>3, <1>5 DEF Paying
  <2>2. Writing(q)
    <3> SUFFICES ASSUME Writes(q)
                 PROVE  /\ subs[q.sub].owner \in q.users
                        /\ \/ user[subs[q.sub].owner].state = "live"
                           \/ subs[q.sub].late
                           \/ subs[q.sub].owner \in raced
      BY DEF Writing
    <3>1. q.sub \in DOMAIN subs /\ OwnerOf(p) = subs[q.sub].owner /\ subs[q.sub].owner \in User
      BY <1>1, <1>5, <1>7, SubsAre DEF OwnerOf, Inv, Columns
    <3>2. QED
      BY <1>2, <1>5, <1>7, <3>1 DEF Inv, Stopped
  <2>3. Merging(q) /\ Cleaning(q)
    BY <1>5 DEF Merging, Cleaning
  <2>4. QED
    BY <2>1, <2>2, <2>3 DEF Knows
<1>10. Asking(q)
  BY <1>5 DEF Asking
<1>11. crowded' = crowded /\ crowded \subseteq User
  BY <1>3 DEF Inv, Columns
<1>12. q.at # "subscribing" /\ (q.pay # None => \A o \in Request : request[o].pay # q.pay)
  BY <1>3, <1>5
<1>13. QED
  BY <1>3, <1>6, <1>8, <1>9, <1>10, <1>11, <1>12, BeginKeeps

LEMMA LoadChangeKeeps ==
  ASSUME Inv, NEW r \in Request, NEW i \in DOMAIN subs, NEW to \in {"paused", "active", "cancelled"},
         LoadChange(r, i, to)
  PROVE  Inv'
<1> DEFINE u == subs[i].owner
           q == [Idle EXCEPT !.at = "changing", !.users = {u}, !.sub = i, !.to = to]
<1>1. /\ Len(subs) \in Nat /\ i \in 1..Len(subs) /\ u \in User
  BY SubsAre DEF Inv, Columns
<1>2. /\ HasToken(u) /\ MayBecome(i, to)
      /\ Begin(r, q) /\ UNCHANGED <<user, payment, subs, crowded>>
  BY DEF LoadChange
<1>3. /\ q.at = "changing" /\ q.users = {u} /\ q.user = None /\ q.pay = None
      /\ q.sub = i /\ q.to = to /\ q.hard = {}
  BY DEF Idle
<1>4. q \in RequestState
  <2>1. i \in Nat /\ to \in SubStatus
    BY <1>1 DEF SubStatus
  <2> HIDE DEF u
  <2>2. QED
    BY <1>1, <2>1 DEF Idle, RequestState, Phase
<1> HIDE DEF q
<1>5. Shape(q)
  BY <1>1, <1>3, AccountsAssumption DEF Shape, Pays, Inv, RowsExist
<1>6. to # "cancelled" => subs[i].status \in {"active", "paused"}
                          /\ (to = "paused" => subs[i].status = "active")
  BY <1>2 DEF MayBecome
<1>7. Writing(q)
  BY <1>2, <1>3, <1>6 DEF Writing, HasToken, Inv, Stopped
<1>8. Knows(q) /\ Asking(q)
  BY <1>3, <1>7 DEF Knows, Paying, Pays, Merging, Cleaning, Asking
<1>9. crowded' = crowded /\ crowded \subseteq User
  BY <1>2 DEF Inv, Columns
<1>10. q.at # "subscribing" /\ q.pay = None
  BY <1>3
<1>11. QED
  BY <1>2, <1>4, <1>5, <1>8, <1>9, <1>10, BeginKeeps

LEMMA CheckLimitKeeps ==
  ASSUME Inv, NEW r \in Request, NEW u \in User, CheckLimit(r, u)
  PROVE  Inv'
<1> DEFINE q == [Idle EXCEPT !.at = "subscribing", !.users = {u}, !.user = u]
<1>1. /\ HasToken(u) /\ Cardinality({i \in SubsOf(u) : subs[i].status \in Counted}) < MaxSubs
      /\ Begin(r, q) /\ UNCHANGED <<user, payment, subs>>
      /\ crowded' = IF \E o \in Request : request[o].at = "subscribing" /\ request[o].user = u
                    THEN crowded \cup {u} ELSE crowded
  BY DEF CheckLimit
<1>2. /\ q.at = "subscribing" /\ q.users = {u} /\ q.user = u /\ q.pay = None
      /\ q.sub = 0 /\ q.hard = {}
  BY DEF Idle
<1>3. q \in RequestState
  BY DEF Idle, RequestState, Phase, SubStatus
<1> HIDE DEF q
<1>4. Len(subs) \in Nat
  BY DEF Inv, Columns
<1>5. Shape(q)
  BY <1>1, <1>2, <1>4 DEF Shape, Pays, Writes, HasToken, Made
<1>6. {i \in SubsOf(u) : subs[i].status \in Counted} = OpenSubs(u)
  BY SubsAre DEF SubsOf, OpenSubs, Counted, OpenSub, SubStatus, Inv, Columns
<1>7. Asking(q)
  BY <1>1, <1>2, <1>6 DEF Asking
<1>8. Knows(q)
  BY <1>2 DEF Knows, Paying, Pays, Writing, Writes, Merging, Cleaning
<1>9. /\ crowded \subseteq crowded' /\ crowded' \subseteq User
      /\ \A o \in Request : (request[o].at = "subscribing" /\ request[o].user = q.user) =>
            q.user \in crowded'
  BY <1>1, <1>2 DEF Inv, Columns
<1>10. QED
  BY <1>1, <1>2, <1>3, <1>5, <1>7, <1>8, <1>9, BeginKeeps

LEMMA LoadMergeKeeps ==
  ASSUME Inv, NEW r \in Request, NEW s \in User, NEW t \in User, LoadMerge(r, s, t)
  PROVE  Inv'
<1> DEFINE n == Both(s, t)
           q == [Idle EXCEPT !.at = "merging", !.users = {s, t}, !.user = t, !.total = n]
<1>1. /\ s # t /\ user[s].state = "live" /\ user[t].state = "live"
      /\ Begin(r, q) /\ UNCHANGED <<user, payment, subs, crowded>>
  BY DEF LoadMerge
<1>2. user[s].total \in Nat /\ user[t].total \in Nat
  BY DEF Inv, Columns, UserRow
<1>3. n \in Nat
  BY <1>2 DEF Both
<1>4. /\ q.at = "merging" /\ q.users = {s, t} /\ q.user = t /\ q.pay = None
      /\ q.sub = 0 /\ q.total = n /\ q.hard = {}
  BY DEF Idle
<1>5. q \in RequestState
  BY <1>3 DEF Idle, RequestState, Phase, SubStatus
<1> HIDE DEF q
<1>6. Len(subs) \in Nat
  BY DEF Inv, Columns
<1>7. Shape(q)
  BY <1>1, <1>4, <1>6 DEF Shape, Pays, Writes, Made
<1>8. Merging(q)
  BY <1>1, <1>4 DEF Merging
<1>9. Knows(q) /\ Asking(q)
  BY <1>4, <1>8 DEF Knows, Paying, Pays, Writing, Writes, Cleaning, Asking
<1>10. crowded' = crowded /\ crowded \subseteq User
  BY <1>1 DEF Inv, Columns
<1>11. q.at # "subscribing" /\ q.pay = None
  BY <1>4
<1>12. QED
  BY <1>1, <1>5, <1>7, <1>9, <1>10, <1>11, BeginKeeps

LEMMA LoadCleanKeeps ==
  ASSUME Inv, NEW r \in Request, LoadClean(r)
  PROVE  Inv'
<1>1. PICK B \in SUBSET Inactive :
        Begin(r, [Idle EXCEPT !.at = "cleaning", !.users = B]) /\ UNCHANGED <<user, payment, subs, crowded>>
  BY DEF LoadClean
<1> DEFINE q == [Idle EXCEPT !.at = "cleaning", !.users = B]
<1>2. /\ q.at = "cleaning" /\ q.users = B /\ q.pay = None
      /\ q.sub = 0 /\ q.hard = {}
  BY DEF Idle
<1>3. B \subseteq User /\ \A u \in B : Made(u)
  BY DEF Inactive, Made
<1>4. q \in RequestState
  BY <1>3 DEF Idle, RequestState, Phase, SubStatus
<1>5. Begin(r, q)
  BY <1>1
<1> HIDE DEF q
<1>6. Len(subs) \in Nat
  BY DEF Inv, Columns
<1>7. Shape(q)
  BY <1>2, <1>3, <1>6 DEF Shape, Pays, Writes
<1>8. Knows(q) /\ Asking(q)
  BY <1>2 DEF Knows, Paying, Pays, Writing, Writes, Merging, Cleaning, Asking
<1>9. crowded' = crowded /\ crowded \subseteq User
  BY <1>1 DEF Inv, Columns
<1>10. q.at # "subscribing" /\ q.pay = None
  BY <1>2
<1>11. QED
  BY <1>1, <1>4, <1>5, <1>7, <1>8, <1>9, <1>10, BeginKeeps

LEMMA DecideKeeps ==
  ASSUME Inv, NEW r \in Request, Decide(r)
  PROVE  Inv'
<1>1. PICK q0 : q0 = request[r]
  OBVIOUS
<1> DEFINE q == [q0 EXCEPT !.at = "decided", !.sub = Len(subs),
                           !.hard = {u \in q0.users : ~HasHistory(u)}]
<1>2. /\ q0.at = "cleaning" /\ request' = [request EXCEPT ![r] = q]
      /\ UNCHANGED <<user, payment, subs, crowded, begun, raced>>
  BY <1>1 DEF Decide, Proceed
<1>3. q0 \in RequestState /\ Shape(q0)
  BY <1>1 DEF Inv, Columns, Requests
<1>4. Len(subs) \in Nat /\ DOMAIN subs = 1..Len(subs)
  BY DEF Inv, Columns
<1>5. /\ q.at = "decided" /\ q.users = q0.users /\ q.pay = q0.pay /\ q.pay = None
      /\ q.sub = Len(subs) /\ q.hard = {u \in q0.users : ~HasHistory(u)}
  BY <1>2, <1>3 DEF RequestState, Shape, Pays
<1>6. q \in RequestState
  BY <1>3, <1>4 DEF RequestState, Phase
<1> HIDE DEF q
<1>7. Shape(q)
  BY <1>3, <1>4, <1>5 DEF Shape, Pays, Writes
<1>8. Cleaning(q)
  BY <1>4, <1>5 DEF Cleaning, HasHistory
<1>9. Knows(q) /\ Asking(q)
  BY <1>5, <1>8 DEF Knows, Paying, Pays, Writing, Writes, Merging, Asking
<1>10. \A o \in Request \ {r} :
        /\ (request[o].at \in Ends \/ q.at \in Ends) /\ request[o].users \cap q.users # {} =>
             request[o].users \cup q.users \subseteq raced'
        /\ q.pay # None => request[o].pay # q.pay
        /\ (q.at = "subscribing" /\ request[o].at = "subscribing" /\ request[o].user = q.user) =>
             q.user \in crowded'
  BY <1>1, <1>2, <1>5 DEF Inv, OverlapsRaced, Ends
<1>11. /\ begun' \in 0..MaxRequests /\ raced \subseteq raced' /\ raced' \subseteq User
       /\ crowded \subseteq crowded' /\ crowded' \subseteq User
  BY <1>2 DEF Inv, Columns
<1>12. QED
  BY <1>2, <1>6, <1>7, <1>9, <1>10, <1>11, ProceedKeeps

-----------------------------------------------------------------------------
\* What users have given.
Gifts(u) == {p \in Payment : /\ payment[p].kind # "none" /\ payment[p].status = "success"
                             /\ OwnerOf(p) = u}

LEMMA TotalsIs ==
  /\ TotalsExact <=> \A u \in User \ raced :
                       user[u].state = "live" => user[u].total = Cardinality(Gifts(u))
  /\ TotalsExact' <=> \A u \in User \ raced' :
                       user'[u].state = "live" => user'[u].total = Cardinality(Gifts(u)')
  BY DEF TotalsExact, Gifts

LEMMA TotalsKeep ==
  ASSUME TotalsExact, raced \subseteq raced',
         \A u \in User \ raced' : user'[u].state = "live" =>
           /\ user[u].state = "live" /\ user'[u].total = user[u].total
           /\ Gifts(u)' = Gifts(u)
  PROVE  TotalsExact'
  BY TotalsIs

LEMMA SameGifts ==
  ASSUME UNCHANGED <<payment, subs>>
  PROVE  \A u : Gifts(u)' = Gifts(u)
  BY DEF Gifts, OwnerOf

LEMMA Mapped ==
  ASSUME NEW s \in Seq(SubRow), NEW f \in [DOMAIN s -> SubRow]
  PROVE  f \in Seq(SubRow) /\ Len(f) = Len(s) /\ DOMAIN f = DOMAIN s
<1>1. Len(s) \in Nat /\ DOMAIN s = 1..Len(s)
  OBVIOUS
<1>2. f \in [1..Len(s) -> SubRow]
  BY <1>1
<1>3. QED
  BY <1>1, <1>2

LEMMA FinishIs ==
  ASSUME Columns, NEW r \in Request, request' = [request EXCEPT ![r] = Idle]
  PROVE  /\ request' \in [Request -> RequestState] /\ request'[r] = Idle
         /\ \A o \in Request \ {r} : request'[o] = request[o]
  BY IdleState DEF Columns

LEMMA OnceIs ==
  ASSUME Columns, NEW U \in SUBSET User, NEW ends \in BOOLEAN, Once(U, ends)
  PROVE  /\ request' = request /\ begun' \in 0..MaxRequests
         /\ raced \subseteq raced' /\ raced' \subseteq User
         /\ \A o \in Request : (request[o].users \cap U # {} /\ (ends \/ request[o].at \in Ends)) =>
              U \cup request[o].users \subseteq raced'
<1> DEFINE q == [Idle EXCEPT !.users = U, !.at = IF ends THEN "decided" ELSE "posting"]
<1>1. /\ request' = request /\ begun' \in 0..MaxRequests
      /\ raced' = raced \cup Meeting(None, q)
  BY AccountsAssumption DEF Once, Columns
<1>2. q.users = U /\ q.at = IF ends THEN "decided" ELSE "posting"
  BY DEF Idle
<1> HIDE DEF q
<1>3. /\ Meeting(None, q) \subseteq User
      /\ \A o \in Request : (o # None /\ request[o].users \cap U # {}
                               /\ (q.at \in Ends \/ request[o].at \in Ends)) =>
              U \cup request[o].users \subseteq Meeting(None, q)
  BY <1>2, MeetingIs
<1>4. QED
  BY <1>1, <1>2, <1>3, AccountsAssumption DEF Columns, Ends

\* Requests give up, or nothing happens.
LEMMA NothingKeeps ==
  ASSUME Inv, UNCHANGED <<user, payment, subs, crowded, begun, raced>>,
         request' \in [Request -> RequestState],
         \A o \in Request : request'[o] = Idle \/ request'[o] = request[o]
  PROVE  Inv'
<1>1. Columns' /\ RowsExist' /\ Grows
  <2>1. Len(subs) \in Nat
    BY DEF Inv, Columns
  <2>2. QED
    BY <2>1 DEF Inv, Columns, RowsExist, Made, Grows
<1>2. \A o \in Request : Passes(request[o])
  BY DEF Passes, Moved
<1>3. Stopped'
  BY DEF Inv, Stopped
<1>4. TotalsExact'
  BY SameGifts, TotalsKeep DEF Inv
<1>5. \A u \in User : OpenSubs(u)' \subseteq OpenSubs(u)
  BY DEF OpenSubs
<1>6. QED
  BY <1>1, <1>2, <1>3, <1>4, <1>5, NoMoreKeeps

LEMMA RollbackKeeps ==
  ASSUME Inv, NEW r \in Request, Rollback(r)
  PROVE  Inv'
<1>1. request' = [request EXCEPT ![r] = Idle] /\ UNCHANGED <<user, payment, subs, crowded, begun, raced>>
  BY DEF Rollback, Finish, Proceed
<1>2. QED
  BY <1>1, FinishIs, NothingKeeps DEF Inv

LEMMA StutterKeeps ==
  ASSUME Inv, UNCHANGED vars
  PROVE  Inv'
  BY NothingKeeps DEF vars, Inv, Columns

LEMMA SeenKeeps ==
  ASSUME Inv, NEW u \in User, NEW b \in BOOLEAN, user' = [user EXCEPT ![u].seen = b],
         UNCHANGED <<payment, subs, crowded, request>>, begun' \in 0..MaxRequests,
         raced \subseteq raced', raced' \subseteq User
  PROVE  Inv'
<1>1. /\ user' \in [User -> UserRow]
      /\ \A v \in User : user'[v].state = user[v].state /\ user'[v].total = user[v].total
  BY DEF Inv, Columns, UserRow
<1>2. Len(subs) \in Nat /\ \A i \in DOMAIN subs : subs[i].owner \in User
  BY SubsAre DEF Inv, Columns
<1>3. Columns' /\ RowsExist' /\ Grows
  <2>1. \A p \in Payment : payment[p].owner \in User \cup {None}
    BY DEF Inv, Columns, PayRow
  <2>2. QED
    BY <1>1, <1>2, <2>1 DEF Inv, Columns, RowsExist, Made, Grows
<1>4. \A o \in Request : Passes(request[o])
  <2>1. \A o \in Request : request[o].users \subseteq User
    BY DEF Inv, Columns, RequestState
  <2>2. QED
    BY <1>1, <2>1 DEF Passes, Moved
<1>5. Stopped'
  BY <1>1, <1>2 DEF Inv, Stopped
<1>6. TotalsExact'
  BY <1>1, SameGifts, TotalsKeep DEF Inv
<1>7. \A v \in User : OpenSubs(v)' \subseteq OpenSubs(v)
  BY DEF OpenSubs
<1>8. QED
  BY <1>3, <1>4, <1>5, <1>6, <1>7, NoMoreKeeps

LEMMA VisitKeeps ==
  ASSUME Inv, NEW u \in User, Visit(u) \/ StayAway(u)
  PROVE  Inv'
<1>1. CASE Visit(u)
  <2>1. Once({u}, FALSE) /\ user' = [user EXCEPT ![u].seen = TRUE] /\ UNCHANGED <<payment, subs, crowded>>
    BY <1>1 DEF Visit
  <2>2. /\ request' = request /\ begun' \in 0..MaxRequests
        /\ raced \subseteq raced' /\ raced' \subseteq User
    BY <2>1, OnceIs DEF Inv
  <2>3. QED
    BY <2>1, <2>2, SeenKeeps
<1>2. CASE StayAway(u)
  <2>1. /\ user' = [user EXCEPT ![u].seen = FALSE]
        /\ UNCHANGED <<payment, subs, request, begun, raced, crowded>>
    BY <1>2 DEF StayAway
  <2>2. begun' \in 0..MaxRequests /\ raced' \subseteq User
    BY <2>1 DEF Inv, Columns
  <2>3. QED
    BY <2>1, <2>2, SeenKeeps
<1>3. QED
  BY <1>1, <1>2

LEMMA RegisterKeeps ==
  ASSUME Inv, NEW u \in User, Register(u)
  PROVE  Inv'
<1>1. /\ user[u].state = "none" /\ user' = [user EXCEPT ![u] = NewUser(TRUE)]
      /\ Once({}, FALSE) /\ UNCHANGED <<payment, subs, crowded>>
  BY DEF Register
<1>2. /\ request' = request /\ begun' \in 0..MaxRequests
      /\ raced \subseteq raced' /\ raced' \subseteq User
  BY <1>1, OnceIs DEF Inv
<1>3. /\ user' \in [User -> UserRow] /\ user'[u].state = "live" /\ user'[u].total = 0
      /\ \A v \in User \ {u} : user'[v] = user[v]
  BY <1>1 DEF Inv, Columns, UserRow, NewUser, UserState
<1>4. Len(subs) \in Nat /\ \A i \in DOMAIN subs : subs[i].owner \in User
  BY SubsAre DEF Inv, Columns
<1>5. Columns' /\ RowsExist' /\ Grows
  <2>1. \A p \in Payment : payment[p].owner \in User \cup {None}
    BY DEF Inv, Columns, PayRow
  <2>2. \A v \in User : Made(v) => Made(v)'
    BY <1>3 DEF Made
  <2>3. Columns'
    BY <1>1, <1>2, <1>3 DEF Inv, Columns
  <2>4. Grows
    BY <1>1, <1>2, <1>4, <2>2 DEF Grows
  <2>5. RowsExist'
    BY <1>1, <1>4, <2>1, <2>2, AccountsAssumption DEF Inv, RowsExist
  <2>6. QED
    BY <2>3, <2>4, <2>5
<1>6. \A o \in Request : Passes(request[o])
  <2>1. \A o \in Request : request[o].users \subseteq User \ {u}
    BY <1>1 DEF Inv, Columns, RequestState, Requests, Shape, Made
  <2>2. QED
    BY <1>1, <1>3, <2>1 DEF Passes, Moved
<1>7. Stopped'
  BY <1>1, <1>2, <1>3, <1>4 DEF Inv, Stopped
<1>8. TotalsExact'
  <2>1. \A v : Gifts(v)' = Gifts(v)
    BY <1>1, SameGifts
  <2>2. Gifts(u) = {}
    BY <1>1, OwnerIs, AccountsAssumption DEF Gifts, Inv, Made
  <2>3. Cardinality(Gifts(u)') = 0
    BY <2>1, <2>2, FS_EmptySet
  <2>4. QED
    BY <1>2, <1>3, <2>1, <2>3, TotalsIs DEF Inv
<1>9. \A v \in User : OpenSubs(v)' \subseteq OpenSubs(v)
  BY <1>1 DEF OpenSubs
<1>10. QED
  BY <1>2, <1>5, <1>6, <1>7, <1>8, <1>9, NoMoreKeeps

\* A payment is made: nothing but its row is written.
LEMMA PaymentKeeps ==
  ASSUME Inv, NEW p \in Payment, NEW U \in SUBSET User, NEW row \in PayRow,
         payment[p].kind = "none", payment' = [payment EXCEPT ![p] = row],
         row.status = "pending", row.sub <= Len(subs),
         row.kind # "none", row.kind = "charge" => row.sub > 0,
         row.owner \in U \cup {None}, \A u \in U : Made(u),
         Once(U, FALSE), UNCHANGED <<user, subs, crowded>>
  PROVE  Inv'
<1>1. /\ request' = request /\ begun' \in 0..MaxRequests
      /\ raced \subseteq raced' /\ raced' \subseteq User
      /\ \A o \in Request : (request[o].users \cap U # {} /\ request[o].at \in Ends) =>
           U \cup request[o].users \subseteq raced'
  BY OnceIs DEF Inv
<1>2. /\ payment' \in [Payment -> PayRow] /\ payment'[p] = row
      /\ \A x \in Payment \ {p} : payment'[x] = payment[x]
  BY DEF Inv, Columns
<1>3. Columns' /\ RowsExist' /\ Grows
  <2>1. Len(subs) \in Nat
    BY DEF Inv, Columns
  <2>2. Columns' /\ Grows
    BY <1>1, <1>2, <2>1 DEF Inv, Columns, Made, Grows
  <2>3. RowsExist'
    BY <1>2 DEF Inv, RowsExist, Made
  <2>4. QED
    BY <2>2, <2>3
<1>4. ASSUME NEW o \in Request
      PROVE  Passes(request[o])
  <2>1. PICK q : q = request[o]
    OBVIOUS
  <2>2. q \in RequestState /\ Shape(q) /\ Paying(q)
    BY <2>1 DEF Inv, Columns, Requests, Knows
  <2>3. q.pay # None => q.pay \in Payment \ {p}
    BY <2>2 DEF Shape, Paying
  <2>4. q.at = "decided" => \A x \in Payment : payment'[x].owner \in q.hard =>
              payment'[x].owner = payment[x].owner \/ payment'[x].owner \in raced'
    <3> SUFFICES ASSUME q.at = "decided", row.owner \in q.hard
                 PROVE  row.owner \in raced'
      BY <1>2
    <3>1. row.owner \in q.users /\ row.owner \in U
      BY <2>2, AccountsAssumption DEF Shape, RequestState
    <3>2. QED
      BY <1>1, <2>1, <3>1 DEF Ends
  <2>5. Passes(q)
    BY <1>2, <2>3, <2>4 DEF Passes, Moved
  <2>6. QED
    BY <2>1, <2>5
<1>5. Stopped'
  BY <1>1 DEF Inv, Stopped
<1>6. TotalsExact'
  <2>1. \A u : Gifts(u)' = Gifts(u)
    BY <1>2 DEF Gifts, OwnerOf
  <2>2. QED
    BY <1>1, <2>1, TotalsKeep DEF Inv
<1>7. \A u \in User : OpenSubs(u)' \subseteq OpenSubs(u)
  BY DEF OpenSubs
<1>8. QED
  BY <1>1, <1>3, <1>4, <1>5, <1>6, <1>7, NoMoreKeeps DEF Inv

LEMMA DonateKeeps ==
  ASSUME Inv, NEW u \in User, NEW p \in Payment, Donate(u, p)
  PROVE  Inv'
<1> DEFINE row == [NoPayment EXCEPT !.kind = "donation", !.owner = u]
<1>1. /\ HasToken(u) /\ payment[p].kind = "none" /\ payment' = [payment EXCEPT ![p] = row]
      /\ Once({u}, FALSE) /\ UNCHANGED <<user, subs, crowded>>
  BY DEF Donate
<1>2. row \in PayRow /\ row.status = "pending" /\ row.sub = 0 /\ row.kind = "donation" /\ row.owner = u
  BY DEF NoPayment, PayRow
<1> HIDE DEF row
<1>3. Made(u) /\ 0 <= Len(subs)
  BY <1>1 DEF HasToken, Made, Inv, Columns
<1>4. QED
  BY <1>1, <1>2, <1>3, PaymentKeeps

LEMMA ChargeKeeps ==
  ASSUME Inv, NEW i \in DOMAIN subs, NEW p \in Payment, Charge(i, p)
  PROVE  Inv'
<1> DEFINE row == [NoPayment EXCEPT !.kind = "charge", !.sub = i]
<1>1. /\ payment[p].kind = "none" /\ payment' = [payment EXCEPT ![p] = row]
      /\ Once({subs[i].owner}, FALSE) /\ UNCHANGED <<user, subs, crowded>>
  BY DEF Charge
<1>2. i \in Nat /\ i > 0 /\ i <= Len(subs) /\ subs[i].owner \in User
  BY SubsAre DEF Inv, Columns
<1>3. row \in PayRow /\ row.status = "pending" /\ row.sub = i /\ row.kind = "charge" /\ row.owner = None
  BY <1>2 DEF NoPayment, PayRow
<1> HIDE DEF row
<1>4. Made(subs[i].owner)
  BY DEF Inv, RowsExist
<1>5. QED
  BY <1>1, <1>2, <1>3, <1>4, PaymentKeeps

-----------------------------------------------------------------------------
\* Only the status of subscriptions may change.
SameOwners ==
  /\ subs' \in Seq(SubRow) /\ Len(subs') = Len(subs) /\ DOMAIN subs' = DOMAIN subs
  /\ \A i \in DOMAIN subs : subs'[i].owner = subs[i].owner /\ subs'[i].late = subs[i].late

LEMMA StatusWritten ==
  ASSUME Columns, NEW i \in DOMAIN subs, NEW to \in SubStatus,
         subs' = [subs EXCEPT ![i].status = to]
  PROVE  /\ SameOwners /\ subs'[i].status = to
         /\ \A j \in DOMAIN subs \ {i} : subs'[j] = subs[j]
<1>1. \A j \in DOMAIN subs : subs[j] \in SubRow
  BY SubsAre DEF Columns
<1>2. subs' \in [DOMAIN subs -> SubRow]
  BY <1>1 DEF SubRow
<1>3. subs' \in Seq(SubRow) /\ Len(subs') = Len(subs) /\ DOMAIN subs' = DOMAIN subs
  BY <1>2, Mapped DEF Columns
<1>4. \A j \in DOMAIN subs : /\ subs'[j].owner = subs[j].owner /\ subs'[j].late = subs[j].late
                             /\ j # i => subs'[j] = subs[j]
  BY <1>1 DEF SubRow
<1>5. subs'[i].status = to
  BY <1>1 DEF SubRow
<1>6. QED
  BY <1>3, <1>4, <1>5 DEF SameOwners

LEMMA OwnersSame ==
  ASSUME Columns, RowsExist, SameOwners,
         \A p \in Payment : /\ payment'[p].kind = payment[p].kind /\ payment'[p].sub = payment[p].sub
                            /\ payment'[p].owner = payment[p].owner
  PROVE  \A p \in Payment : OwnerOf(p)' = OwnerOf(p)
<1>1. ASSUME NEW p \in Payment
      PROVE  OwnerOf(p)' = OwnerOf(p)
  <2>1. payment[p].kind = "charge" => payment[p].sub \in DOMAIN subs
    BY OwnerIs
  <2>2. QED
    BY <2>1 DEF OwnerOf, SameOwners
<1>2. QED
  BY <1>1

LEMMA GiftsFinite == \A u : IsFiniteSet(Gifts(u)) /\ Cardinality(Gifts(u)) \in Nat
<1>1. \A u : Gifts(u) \subseteq Payment
  BY DEF Gifts
<1>2. QED
  BY <1>1, AccountsAssumption, FS_Subset, FS_CardinalityType

LEMMA CommitChangeKeeps ==
  ASSUME Inv, NEW r \in Request, CommitChange(r)
  PROVE  Inv'
<1>1. PICK q : q = request[r]
  OBVIOUS
<1>2. /\ q \in RequestState /\ Shape(q) /\ Writing(q) /\ Len(subs) \in Nat /\ subs \in Seq(SubRow)
      /\ DOMAIN subs = 1..Len(subs)
  BY <1>1 DEF Inv, Columns, Requests, Knows
<1>3. /\ q.at = "changing" /\ subs' = [subs EXCEPT ![q.sub].status = q.to]
      /\ crowded' = crowded \cup BroughtBack(q.sub, q.to)
      /\ request' = [request EXCEPT ![r] = Idle] /\ UNCHANGED <<user, payment, begun, raced>>
  BY <1>1 DEF CommitChange, Finish, Proceed
<1>4. q.sub \in DOMAIN subs /\ q.to \in SubStatus
  BY <1>2, <1>3 DEF RequestState, Shape, Writes
<1>5. /\ SameOwners /\ subs'[q.sub].status = q.to
      /\ \A j \in DOMAIN subs \ {q.sub} : subs'[j] = subs[j]
  BY <1>3, <1>4, StatusWritten DEF Inv
<1>6. /\ request' \in [Request -> RequestState] /\ request'[r] = Idle
      /\ \A o \in Request \ {r} : request'[o] = request[o]
  BY <1>3, FinishIs DEF Inv
<1>7. subs[q.sub].owner \in User /\ subs[q.sub].status \in SubStatus
  BY <1>4, SubsAre DEF Inv, Columns
<1>8. crowded \subseteq crowded' /\ crowded' \subseteq User
  BY <1>3, <1>7 DEF BroughtBack, Inv, Columns
<1>9. Columns' /\ RowsExist' /\ Grows
  BY <1>2, <1>3, <1>5, <1>6, <1>8 DEF Inv, Columns, RowsExist, Made, Grows, SameOwners
<1>10. \A o \in Request : Passes(request[o])
  BY <1>3, <1>5 DEF Passes, Moved, SameOwners
<1>11. Stopped'
  <2> SUFFICES ASSUME NEW i \in DOMAIN subs
               PROVE  \/ user[subs[i].owner].state = "live"
                      \/ subs[i].owner \in raced
                      \/ subs[i].late
                      \/ subs'[i].status = "cancelled"
                      \/ subs'[i].status = "paused" /\ user[subs[i].owner].state = "cleaned"
    BY <1>3, <1>5 DEF Stopped, SameOwners
  <2>1. CASE i = q.sub
    BY <1>2, <1>3, <1>5, <2>1 DEF Writing, Writes
  <2>2. CASE i # q.sub
    BY <1>5, <2>2 DEF Inv, Stopped
  <2>3. QED
    BY <2>1, <2>2
<1>12. TotalsExact'
  <2>1. \A p \in Payment : OwnerOf(p)' = OwnerOf(p)
    BY <1>3, <1>5, OwnersSame DEF Inv
  <2>2. \A u : Gifts(u)' = Gifts(u)
    BY <1>3, <2>1 DEF Gifts
  <2>3. QED
    BY <1>3, <2>2, TotalsKeep DEF Inv
<1>13. \A u \in User : u \in crowded' \/ OpenSubs(u)' \subseteq OpenSubs(u)
  BY <1>3, <1>5, <1>7 DEF OpenSubs, BroughtBack, SameOwners, OpenSub
<1>14. QED
  BY <1>6, <1>9, <1>10, <1>11, <1>12, <1>13, NoMoreKeeps

\* A payment is settled: its status and the total of its owner are written.
PayStep(r, q, st, n) ==
  /\ q = request[r] /\ Pays(q)
  /\ payment' = [payment EXCEPT ![q.pay].status = st]
  /\ user' = IF q.user = None THEN user ELSE [user EXCEPT ![q.user].total = n]
  /\ request' = [request EXCEPT ![r] = Idle]
  /\ UNCHANGED <<begun, raced>>
  /\ SameOwners /\ crowded \subseteq crowded' /\ crowded' \subseteq User

LEMMA PayWritten ==
  ASSUME Inv, NEW r \in Request, NEW q, NEW st \in {"success", "refunded"}, NEW n \in Nat,
         PayStep(r, q, st, n)
  PROVE  /\ Columns' /\ RowsExist' /\ Grows
         /\ \A o \in Request : request'[o] = Idle \/ (request'[o] = request[o] /\ Passes(request[o]))
         /\ q.pay \in Payment /\ payment'[q.pay].status = st /\ q.user \in User \cup {None}
         /\ payment'[q.pay].kind # "none"
         /\ \A p \in Payment \ {q.pay} : payment'[p] = payment[p]
         /\ \A p \in Payment : OwnerOf(p)' = OwnerOf(p)
         /\ OwnerOf(q.pay) = q.user \/ {OwnerOf(q.pay), q.user} \subseteq raced \cup {None}
         /\ \A u \in User : /\ user'[u].state = user[u].state
                            /\ user'[u].total = IF u = q.user THEN n ELSE user[u].total
<1>0. /\ q = request[r] /\ Pays(q)
      /\ payment' = [payment EXCEPT ![q.pay].status = st]
      /\ user' = IF q.user = None THEN user ELSE [user EXCEPT ![q.user].total = n]
      /\ request' = [request EXCEPT ![r] = Idle]
      /\ UNCHANGED <<begun, raced>>
      /\ SameOwners /\ crowded \subseteq crowded' /\ crowded' \subseteq User
  BY DEF PayStep
<1>1. /\ q \in RequestState /\ Shape(q) /\ Paying(q) /\ None \notin User
      /\ Len(subs) \in Nat
  BY <1>0, AccountsAssumption DEF Inv, Columns, Requests, Knows
<1>2. q.pay \in Payment /\ q.user \in User \cup {None} /\ q.users = {q.user} \ {None}
  BY <1>0, <1>1 DEF Shape, RequestState
<1>3. /\ payment' \in [Payment -> PayRow]
      /\ payment'[q.pay].status = st /\ payment'[q.pay].kind = payment[q.pay].kind
      /\ payment'[q.pay].owner = payment[q.pay].owner /\ payment'[q.pay].sub = payment[q.pay].sub
      /\ \A p \in Payment \ {q.pay} : payment'[p] = payment[p]
  <2> DEFINE row == [payment[q.pay] EXCEPT !.status = st]
  <2>1. payment \in [Payment -> PayRow] /\ payment[q.pay] \in PayRow
    BY <1>2 DEF Inv, Columns
  <2>2. /\ row \in PayRow /\ row.status = st /\ row.kind = payment[q.pay].kind
        /\ row.owner = payment[q.pay].owner /\ row.sub = payment[q.pay].sub
    BY <2>1 DEF PayRow
  <2>3. payment' = [payment EXCEPT ![q.pay] = row]
    BY <1>0
  <2> HIDE DEF row
  <2>4. /\ payment' \in [Payment -> PayRow] /\ payment'[q.pay] = row
        /\ \A p \in Payment \ {q.pay} : payment'[p] = payment[p]
    BY <1>2, <2>1, <2>2, <2>3
  <2>5. QED
    BY <2>2, <2>4
<1>4. /\ user' \in [User -> UserRow]
      /\ \A u \in User : /\ user'[u].state = user[u].state
                         /\ user'[u].total = IF u = q.user THEN n ELSE user[u].total
  <2>1. CASE q.user = None
    BY <1>0, <1>1, <2>1 DEF Inv, Columns
  <2>2. CASE q.user # None
    <3>1. q.user \in User /\ user' = [user EXCEPT ![q.user].total = n]
      BY <1>0, <1>2, <2>2
    <3>2. user \in [User -> UserRow] /\ user[q.user] \in UserRow
      BY <1>0, <3>1 DEF Inv, Columns
    <3> DEFINE row == [user[q.user] EXCEPT !.total = n]
    <3>3. row \in UserRow /\ row.state = user[q.user].state /\ row.total = n
      BY <1>0, <3>2 DEF UserRow
    <3>4. user' = [user EXCEPT ![q.user] = row]
      BY <1>0, <3>1
    <3> HIDE DEF row
    <3>5. user' \in [User -> UserRow] /\ user'[q.user] = row
          /\ \A u \in User \ {q.user} : user'[u] = user[u]
      BY <1>0, <3>1, <3>2, <3>3, <3>4
    <3>6. QED
      BY <1>0, <3>3, <3>5
  <2>3. QED
    BY <1>0, <2>1, <2>2
<1>5. /\ request' \in [Request -> RequestState] /\ request'[r] = Idle
      /\ \A o \in Request \ {r} : request'[o] = request[o]
  BY <1>0, FinishIs DEF Inv
<1>6. \A i \in DOMAIN subs : subs[i].owner \in User
  BY <1>0, SubsAre DEF Inv, Columns
<1>7. Columns'
  BY <1>0, <1>3, <1>4, <1>5 DEF Inv, Columns, SameOwners
<1>8. \A u \in User : Made(u) => Made(u)'
  BY <1>0, <1>4 DEF Made
<1>9. Grows
  BY <1>0, <1>1, <1>8 DEF Grows, SameOwners
<1>10. RowsExist'
  <2>1. \A p \in Payment : /\ payment'[p].sub = payment[p].sub /\ payment'[p].kind = payment[p].kind
                           /\ payment'[p].owner = payment[p].owner
    BY <1>0, <1>3
  <2>2. \A p \in Payment : payment[p].owner \in User \cup {None}
    BY <1>0 DEF Inv, Columns, PayRow
  <2>3. QED
    BY <1>0, <1>6, <1>8, <2>1, <2>2 DEF Inv, RowsExist, SameOwners
<1>11. ASSUME NEW o \in Request \ {r}
       PROVE  Passes(request[o])
  <2>1. PICK x : x = request[o]
    OBVIOUS
  <2>2. x \in RequestState /\ Shape(x) /\ x.users \subseteq User
    BY <1>0, <2>1 DEF Inv, Columns, Requests, RequestState
  <2>3. x.pay # None => x.pay \in Payment \ {q.pay}
    BY <1>0, <2>1, <2>2 DEF Inv, Alone, Shape
  <2>4. x.at = "merging" => \A u \in x.users : user'[u].total = user[u].total \/ u \in raced'
    <3> SUFFICES ASSUME x.at = "merging", q.user \in x.users
                 PROVE  q.user \in raced
      BY <1>0, <1>4, <2>2
    <3>1. q.user \in q.users
      BY <1>0, <1>1, <1>2, <2>2
    <3>2. QED
      BY <1>0, <2>1, <3>1 DEF Inv, OverlapsRaced, Ends
  <2>5. \A p \in Payment : payment'[p].owner = payment[p].owner
    BY <1>0, <1>3
  <2>6. Passes(x)
    BY <1>0, <1>3, <1>4, <2>2, <2>3, <2>4, <2>5 DEF Passes, Moved, SameOwners
  <2>7. QED
    BY <1>0, <2>1, <2>6
<1>12. \A p \in Payment : OwnerOf(p)' = OwnerOf(p)
  BY <1>0, <1>3, OwnersSame DEF Inv
<1>13. QED
  BY <1>0, <1>1, <1>2, <1>3, <1>4, <1>5, <1>7, <1>9, <1>10, <1>11, <1>12 DEF Paying

LEMMA CommitRefundKeeps ==
  ASSUME Inv, NEW r \in Request, CommitRefund(r)
  PROVE  Inv'
<1>1. PICK q : q = request[r]
  OBVIOUS
<1>2. /\ q.at = "refunding" /\ Pays(q) /\ payment' = [payment EXCEPT ![q.pay].status = "refunded"]
      /\ user' = IF q.user = None THEN user ELSE [user EXCEPT ![q.user].total = Less(@)]
      /\ request' = [request EXCEPT ![r] = Idle] /\ UNCHANGED <<subs, crowded, begun, raced>>
  BY <1>1 DEF CommitRefund, Finish, Proceed, Pays
<1>3. /\ q.user \in User \cup {None} /\ q.pay \in Payment
      /\ payment[q.pay].kind # "none" /\ payment[q.pay].status = "success"
  BY <1>1, <1>2 DEF Inv, Columns, Requests, Knows, Paying, Shape, RequestState
<1> DEFINE n == IF q.user = None THEN 0 ELSE Less(user[q.user].total)
<1>4. /\ n \in Nat
      /\ user' = IF q.user = None THEN user ELSE [user EXCEPT ![q.user].total = n]
      /\ q.user # None => n = Less(user[q.user].total)
  <2>1. CASE q.user = None
    BY <1>2, <2>1
  <2>2. CASE q.user # None
    <3>1. user[q.user].total \in Nat
      BY <1>3, <2>2 DEF Inv, Columns, UserRow
    <3>2. n \in Nat /\ n = Less(user[q.user].total)
      BY <2>2, <3>1 DEF Less
    <3> HIDE DEF n
    <3>3. QED
      BY <1>2, <2>2, <3>2
  <2>3. QED
    BY <2>1, <2>2
<1> HIDE DEF n
<1>5. SameOwners /\ crowded \subseteq crowded' /\ crowded' \subseteq User
  BY <1>2 DEF SameOwners, Inv, Columns
<1>6. /\ Columns' /\ RowsExist' /\ Grows
      /\ \A o \in Request : request'[o] = Idle \/ (request'[o] = request[o] /\ Passes(request[o]))
      /\ payment'[q.pay].status = "refunded"
      /\ \A p \in Payment \ {q.pay} : payment'[p] = payment[p]
      /\ \A p \in Payment : OwnerOf(p)' = OwnerOf(p)
      /\ OwnerOf(q.pay) = q.user \/ {OwnerOf(q.pay), q.user} \subseteq raced \cup {None}
      /\ \A u \in User : /\ user'[u].state = user[u].state
                         /\ user'[u].total = IF u = q.user THEN n ELSE user[u].total
  <2>1. PayStep(r, q, "refunded", n)
    BY <1>1, <1>2, <1>4, <1>5 DEF PayStep
  <2>2. QED
    BY <1>4, <2>1, PayWritten
<1>7. Stopped'
  <2>1. \A i \in DOMAIN subs : subs[i].owner \in User
    BY SubsAre DEF Inv, Columns
  <2>2. QED
    BY <1>2, <1>6, <2>1 DEF Inv, Stopped
<1>8. TotalsExact'
  <2> SUFFICES ASSUME NEW u \in User \ raced, user[u].state = "live"
               PROVE  user'[u].total = Cardinality(Gifts(u)')
    BY <1>2, <1>6, TotalsIs
  <2>1. user[u].total = Cardinality(Gifts(u)) /\ u # None
    BY TotalsIs, AccountsAssumption DEF Inv
  <2>2. CASE u = q.user
    <3>1. OwnerOf(q.pay) = u
      BY <1>6, <2>1, <2>2
    <3>2. q.pay \in Gifts(u) /\ Gifts(u)' = Gifts(u) \ {q.pay}
      BY <1>3, <1>6, <3>1 DEF Gifts
    <3>3. Cardinality(Gifts(u)') = Cardinality(Gifts(u)) - 1
      <4>1. IsFiniteSet(Gifts(u))
        BY GiftsFinite
      <4>2. Cardinality(Gifts(u) \ {q.pay}) = Cardinality(Gifts(u)) - 1
        BY <3>2, <4>1, FS_RemoveElement
      <4>3. QED
        BY <3>2, <4>2
    <3>4. Cardinality(Gifts(u)) # 0 /\ Cardinality(Gifts(u)) \in Nat
      BY <3>2, GiftsFinite, FS_EmptySet
    <3>5. n = Less(user[u].total)
      BY <1>4, <2>1, <2>2
    <3>6. QED
      BY <1>6, <2>1, <2>2, <3>3, <3>4, <3>5 DEF Less
  <2>3. CASE u # q.user
    <3>1. OwnerOf(q.pay) # u
      BY <1>6, <2>1, <2>3
    <3>2. Gifts(u)' = Gifts(u)
      BY <1>6, <3>1 DEF Gifts
    <3>3. QED
      BY <1>6, <2>1, <2>3, <3>2
  <2>4. QED
    BY <2>2, <2>3
<1>9. \A u \in User : OpenSubs(u)' \subseteq OpenSubs(u)
  BY <1>2 DEF OpenSubs
<1>10. QED
  BY <1>6, <1>7, <1>8, <1>9, NoMoreKeeps

LEMMA CommitPostKeeps ==
  ASSUME Inv, NEW r \in Request, CommitPost(r)
  PROVE  Inv'
<1>1. PICK q : q = request[r]
  OBVIOUS
<1>2. /\ q.at = "posting" /\ Pays(q) /\ payment' = [payment EXCEPT ![q.pay].status = "success"]
      /\ user' = IF q.user = None THEN user ELSE [user EXCEPT ![q.user].total = @ + 1]
      /\ subs' = IF q.to = "pending_payment_method"
                 THEN [subs EXCEPT ![q.sub].status = "active"] ELSE subs
      /\ crowded' = crowded \cup (IF q.to = "pending_payment_method"
                                  THEN BroughtBack(q.sub, "active") ELSE {})
      /\ request' = [request EXCEPT ![r] = Idle] /\ UNCHANGED <<begun, raced>>
  BY <1>1 DEF CommitPost, Finish, Proceed, Pays
<1>3. /\ q.user \in User \cup {None} /\ q.pay \in Payment
      /\ payment[q.pay].kind # "none" /\ payment[q.pay].status = "pending"
      /\ Shape(q) /\ Writing(q) /\ q.sub \in Nat
  BY <1>1, <1>2 DEF Inv, Columns, Requests, Knows, Paying, Shape, RequestState
<1> DEFINE n == IF q.user = None THEN 0 ELSE user[q.user].total + 1
<1>4. /\ n \in Nat
      /\ user' = IF q.user = None THEN user ELSE [user EXCEPT ![q.user].total = n]
      /\ q.user # None => n = user[q.user].total + 1
  <2>1. CASE q.user = None
    BY <1>2, <2>1
  <2>2. CASE q.user # None
    <3>1. user[q.user].total \in Nat
      BY <1>3, <2>2 DEF Inv, Columns, UserRow
    <3>2. n \in Nat /\ n = user[q.user].total + 1
      BY <2>2, <3>1
    <3> HIDE DEF n
    <3>3. QED
      BY <1>2, <2>2, <3>2
  <2>3. QED
    BY <2>1, <2>2
<1> HIDE DEF n
\* The subscription.
<1>5. /\ SameOwners /\ crowded \subseteq crowded' /\ crowded' \subseteq User
      /\ \A j \in DOMAIN subs :
           \/ subs'[j] = subs[j]
           \/ /\ j = q.sub /\ Writes(q) /\ q.to = "pending_payment_method"
              /\ subs'[j].status = "active"
              /\ subs[j].status = "cancelled" => subs[j].owner \in crowded'
  <2>1. CASE q.to = "pending_payment_method"
    <3>1. Writes(q) /\ q.sub \in DOMAIN subs
      BY <1>2, <1>3, <2>1 DEF Writes, Shape, Inv, Columns
    <3>2. subs[q.sub].owner \in User
      BY <3>1, SubsAre DEF Inv, Columns
    <3>3. subs' = [subs EXCEPT ![q.sub].status = "active"] /\ "active" \in SubStatus
      BY <1>2, <2>1 DEF SubStatus
    <3>4. /\ SameOwners /\ subs'[q.sub].status = "active"
          /\ \A j \in DOMAIN subs \ {q.sub} : subs'[j] = subs[j]
      BY <3>1, <3>3, StatusWritten DEF Inv
    <3>5. /\ crowded \subseteq crowded' /\ crowded' \subseteq User
          /\ subs[q.sub].status = "cancelled" => subs[q.sub].owner \in crowded'
      BY <1>2, <2>1, <3>2 DEF BroughtBack, Inv, Columns
    <3>6. QED
      BY <2>1, <3>1, <3>4, <3>5
  <2>2. CASE q.to # "pending_payment_method"
    BY <1>2, <2>2 DEF SameOwners, Inv, Columns
  <2>3. QED
    BY <2>1, <2>2
<1>6. /\ Columns' /\ RowsExist' /\ Grows
      /\ \A o \in Request : request'[o] = Idle \/ (request'[o] = request[o] /\ Passes(request[o]))
      /\ payment'[q.pay].status = "success" /\ payment'[q.pay].kind # "none"
      /\ \A p \in Payment \ {q.pay} : payment'[p] = payment[p]
      /\ \A p \in Payment : OwnerOf(p)' = OwnerOf(p)
      /\ OwnerOf(q.pay) = q.user \/ {OwnerOf(q.pay), q.user} \subseteq raced \cup {None}
      /\ \A u \in User : /\ user'[u].state = user[u].state
                         /\ user'[u].total = IF u = q.user THEN n ELSE user[u].total
  <2>1. PayStep(r, q, "success", n)
    BY <1>1, <1>2, <1>4, <1>5 DEF PayStep
  <2>2. QED
    BY <1>4, <2>1, PayWritten
<1>7. Stopped'
  <2> SUFFICES ASSUME NEW i \in DOMAIN subs
               PROVE  \/ user[subs[i].owner].state = "live"
                      \/ subs[i].owner \in raced
                      \/ subs[i].late
                      \/ subs'[i].status = "cancelled"
                      \/ subs'[i].status = "paused" /\ user[subs[i].owner].state = "cleaned"
    <3>1. \A i \in DOMAIN subs : subs[i].owner \in User
      BY SubsAre DEF Inv, Columns
    <3>2. QED
      BY <1>2, <1>5, <1>6, <3>1 DEF Stopped, SameOwners
  <2>1. CASE subs'[i] = subs[i]
    BY <2>1 DEF Inv, Stopped
  <2>2. CASE i = q.sub /\ Writes(q) /\ q.to = "pending_payment_method"
    BY <1>3, <2>2 DEF Writing
  <2>3. QED
    BY <1>5, <2>1, <2>2
<1>8. TotalsExact'
  <2> SUFFICES ASSUME NEW u \in User \ raced, user[u].state = "live"
               PROVE  user'[u].total = Cardinality(Gifts(u)')
    BY <1>2, <1>6, TotalsIs
  <2>1. user[u].total = Cardinality(Gifts(u)) /\ u # None
    BY TotalsIs, AccountsAssumption DEF Inv
  <2>2. CASE u = q.user
    <3>1. OwnerOf(q.pay) = u
      BY <1>6, <2>1, <2>2
    <3>2. q.pay \notin Gifts(u) /\ Gifts(u)' = Gifts(u) \cup {q.pay}
      BY <1>3, <1>6, <3>1 DEF Gifts
    <3>3. Cardinality(Gifts(u)') = Cardinality(Gifts(u)) + 1
      <4>1. IsFiniteSet(Gifts(u))
        BY GiftsFinite
      <4>2. Cardinality(Gifts(u) \cup {q.pay}) = Cardinality(Gifts(u)) + 1
        BY <3>2, <4>1, FS_AddElement
      <4>3. QED
        BY <3>2, <4>2
    <3>4. QED
      BY <1>4, <1>6, <2>1, <2>2, <3>3
  <2>3. CASE u # q.user
    <3>1. OwnerOf(q.pay) # u
      BY <1>6, <2>1, <2>3
    <3>2. Gifts(u)' = Gifts(u)
      BY <1>6, <3>1 DEF Gifts
    <3>3. QED
      BY <1>6, <2>1, <2>3, <3>2
  <2>4. QED
    BY <2>2, <2>3
<1>9. \A u \in User : u \in crowded' \/ OpenSubs(u)' \subseteq OpenSubs(u)
  <2>1. \A j \in DOMAIN subs : subs[j].status \in SubStatus
    BY SubsAre DEF Inv, Columns
  <2>2. QED
    BY <1>5, <2>1 DEF OpenSubs, OpenSub, SameOwners
<1>10. QED
  BY <1>6, <1>7, <1>8, <1>9, NoMoreKeeps

LEMMA CommitSubscribeKeeps ==
  ASSUME Inv, NEW r \in Request, CommitSubscribe(r)
  PROVE  Inv'
<1>1. PICK q : q = request[r]
  OBVIOUS
<1>2. PICK u : u = q.user
  OBVIOUS
<1> DEFINE row == [owner |-> u, status |-> "pending_payment_method",
                   late |-> user[u].state # "live"]
           new == Len(subs) + 1
<1>3. /\ q.at = "subscribing" /\ subs' = Append(subs, row)
      /\ request' = [request EXCEPT ![r] = Idle] /\ UNCHANGED <<user, payment, crowded, begun, raced>>
  BY <1>1, <1>2 DEF CommitSubscribe, Finish, Proceed
<1>4. /\ u \in User /\ q.users = {u} /\ Made(u) /\ Asking(q)
      /\ subs \in Seq(SubRow) /\ Len(subs) \in Nat /\ DOMAIN subs = 1..Len(subs)
  BY <1>1, <1>2, <1>3 DEF Inv, Columns, Requests, Shape
<1>5. /\ row \in SubRow /\ row.owner = u /\ row.late = (user[u].state # "live")
      /\ row.status = "pending_payment_method"
  BY <1>4 DEF SubRow, SubStatus
<1> HIDE DEF row
<1>6. /\ subs' \in Seq(SubRow) /\ Len(subs') = new /\ DOMAIN subs' = DOMAIN subs \cup {new}
      /\ new \notin DOMAIN subs /\ new \in Nat /\ subs'[new] = row
      /\ \A i \in DOMAIN subs : subs'[i] = subs[i]
  BY <1>3, <1>4, <1>5
<1> HIDE DEF new
<1>7. /\ request' \in [Request -> RequestState] /\ request'[r] = Idle
      /\ \A o \in Request \ {r} : request'[o] = request[o]
  BY <1>3, FinishIs DEF Inv
<1>8. Columns'
  BY <1>3, <1>6, <1>7 DEF Inv, Columns
<1>9. Grows
  <2>1. Len(subs) <= Len(subs')
    BY <1>4, <1>6 DEF new
  <2>2. QED
    BY <1>3, <1>6, <2>1 DEF Grows, Made
<1>10. RowsExist'
  <2>1. \A p \in Payment : payment[p].sub <= Len(subs) /\ payment[p].sub \in Nat
    BY DEF Inv, RowsExist, Columns, PayRow
  <2>2. \A p \in Payment : payment[p].sub <= Len(subs')
    BY <1>4, <1>6, <2>1 DEF new
  <2>3. \A i \in DOMAIN subs' : user[subs'[i].owner].state # "none"
    BY <1>4, <1>5, <1>6 DEF Inv, RowsExist, Made
  <2>4. QED
    BY <1>3, <2>2, <2>3 DEF Inv, RowsExist, Made
<1>11. ASSUME NEW o \in Request \ {r}
       PROVE  Passes(request[o])
  <2>1. PICK x : x = request[o]
    OBVIOUS
  <2>2. (x.at = "decided" /\ u \in x.users) => u \in raced'
    BY <1>1, <1>3, <1>4, <2>1 DEF Inv, OverlapsRaced, Ends
  <2>3. Passes(x)
    BY <1>3, <1>5, <1>6, <2>2 DEF Passes, Moved
  <2>4. QED
    BY <2>1, <2>3
<1>12. Stopped'
  <2>1. ASSUME NEW i \in DOMAIN subs'
        PROVE  \/ user[subs'[i].owner].state = "live"
               \/ subs'[i].owner \in raced
               \/ subs'[i].late
               \/ subs'[i].status = "cancelled"
               \/ subs'[i].status = "paused" /\ user[subs'[i].owner].state = "cleaned"
    <3>1. CASE i = new
      BY <1>5, <1>6, <3>1
    <3>2. CASE i # new
      BY <1>6, <3>2 DEF Inv, Stopped
    <3>3. QED
      BY <3>1, <3>2
  <2>2. QED
    BY <1>3, <2>1 DEF Stopped
<1>13. TotalsExact'
  <2>1. \A p \in Payment : OwnerOf(p)' = OwnerOf(p)
    <3>1. \A p \in Payment : payment[p].kind = "charge" => payment[p].sub \in DOMAIN subs
      BY OwnerIs DEF Inv
    <3>2. QED
      BY <1>3, <1>6, <3>1 DEF OwnerOf
  <2>2. \A v : Gifts(v)' = Gifts(v)
    BY <1>3, <2>1 DEF Gifts
  <2>3. QED
    BY <1>3, <2>2, TotalsKeep DEF Inv
<1>14. \A v \in User : v # u => OpenSubs(v)' = OpenSubs(v)
  BY <1>5, <1>6 DEF OpenSubs
<1>15. OpenSubs(u)' = OpenSubs(u) \cup {new} /\ new \notin OpenSubs(u)
  BY <1>5, <1>6 DEF OpenSubs, OpenSub, SubStatus
<1>16. LimitKept'
  <2> SUFFICES ASSUME NEW v \in User \ crowded
               PROVE  Cardinality(OpenSubs(v)') <= MaxSubs
    BY <1>3, LimitIs
  <2>1. CASE v # u
    BY <1>14, <2>1, LimitIs DEF Inv
  <2>2. CASE v = u
    <3>1. Cardinality(OpenSubs(u)) < MaxSubs
      BY <1>2, <1>3, <1>4, <2>2 DEF Asking
    <3>2. IsFiniteSet(OpenSubs(u)) /\ Cardinality(OpenSubs(u)) \in Nat
      BY <1>4, OpenFinite DEF OpenSubs
    <3>3. Cardinality(OpenSubs(u)') = Cardinality(OpenSubs(u)) + 1
      BY <1>15, <3>2, FS_AddElement
    <3>4. QED
      BY <2>2, <3>1, <3>2, <3>3, AccountsAssumption
  <2>3. QED
    BY <2>1, <2>2
<1>17. ASSUME NEW o \in Request \ {r}
       PROVE  Asking(request[o])'
  <2>1. PICK x : x = request[o]
    OBVIOUS
  <2>2. Asking(x) /\ Shape(x) /\ (x.at = "subscribing" /\ x.user = u => u \in crowded)
    BY <1>1, <1>2, <1>3, <2>1 DEF Inv, Requests, Alone
  <2>3. Asking(x)'
    BY <1>3, <1>14, <2>2 DEF Asking, Shape
  <2>4. QED
    BY <1>7, <2>1, <2>3
<1>18. QED
  BY <1>7, <1>8, <1>9, <1>10, <1>11, <1>12, <1>13, <1>16, <1>17, SettleKeeps

-----------------------------------------------------------------------------
\* Some subscriptions get the same status.
LEMMA StatusesWritten ==
  ASSUME Columns, NEW S, NEW to \in SubStatus,
         subs' = [i \in DOMAIN subs |-> IF i \in S THEN [subs[i] EXCEPT !.status = to] ELSE subs[i]]
  PROVE  /\ SameOwners
         /\ \A i \in DOMAIN subs : subs'[i].status = IF i \in S THEN to ELSE subs[i].status
<1>1. \A i \in DOMAIN subs : subs[i] \in SubRow
  BY SubsAre DEF Columns
<1>2. ASSUME NEW i \in DOMAIN subs
      PROVE  /\ subs'[i] \in SubRow
             /\ subs'[i].owner = subs[i].owner /\ subs'[i].late = subs[i].late
             /\ subs'[i].status = IF i \in S THEN to ELSE subs[i].status
  <2>1. CASE i \in S
    <3>1. subs'[i] = [subs[i] EXCEPT !.status = to]
      BY <2>1
    <3>2. QED
      BY <1>1, <2>1, <3>1 DEF SubRow
  <2>2. CASE i \notin S
    BY <1>1, <2>2
  <2>3. QED
    BY <2>1, <2>2
<1>3. subs' \in [DOMAIN subs -> SubRow]
  BY <1>2
<1>4. subs' \in Seq(SubRow) /\ Len(subs') = Len(subs) /\ DOMAIN subs' = DOMAIN subs
  BY <1>3, Mapped DEF Columns
<1>5. QED
  BY <1>2, <1>4 DEF SameOwners

\* An account is ended or paused, and its subscriptions with it.
LEMMA AnonymizeKeeps ==
  ASSUME Inv, NEW u \in User, Anonymize(u)
  PROVE  Inv'
<1> DEFINE S == {i \in DOMAIN subs : subs[i].owner = u /\ subs[i].status \in ToCancel}
<1>1. /\ user[u].state = "live" /\ user' = [user EXCEPT ![u].state = "anonymized"]
      /\ Once({u}, TRUE) /\ UNCHANGED <<payment, crowded>>
  BY DEF Anonymize
<1>2. subs' = [i \in DOMAIN subs |-> IF i \in S THEN [subs[i] EXCEPT !.status = "cancelled"]
                                     ELSE subs[i]]
  BY DEF Anonymize, SubsOf
<1> HIDE DEF S
<1>3. "cancelled" \in SubStatus
  BY DEF SubStatus
<1>4. /\ SameOwners
      /\ \A i \in DOMAIN subs : subs'[i].status = IF i \in S THEN "cancelled" ELSE subs[i].status
  BY <1>2, <1>3, StatusesWritten DEF Inv
<1>5. /\ request' = request /\ begun' \in 0..MaxRequests
      /\ raced \subseteq raced' /\ raced' \subseteq User
      /\ \A o \in Request : request[o].users \cap {u} # {} => {u} \cup request[o].users \subseteq raced'
  <2>1. {u} \in SUBSET User /\ TRUE \in BOOLEAN /\ Columns
    BY DEF Inv
  <2>2. QED
    BY <1>1, <2>1, OnceIs
<1>6. /\ user' \in [User -> UserRow] /\ user'[u].state = "anonymized"
      /\ \A v \in User \ {u} : user'[v] = user[v]
      /\ \A v \in User : user'[v].total = user[v].total
  BY <1>1 DEF Inv, Columns, UserRow, UserState
<1>7. /\ Len(subs) \in Nat
      /\ \A i \in DOMAIN subs : subs[i].owner \in User /\ subs[i].status \in SubStatus
  BY SubsAre DEF Inv, Columns
<1>8. \A v \in User : Made(v) => Made(v)'
  BY <1>6 DEF Made
<1>9. Columns'
  BY <1>1, <1>4, <1>5, <1>6 DEF Inv, Columns, SameOwners
<1>10. Grows
  BY <1>1, <1>4, <1>5, <1>7, <1>8 DEF Grows, SameOwners
<1>11. RowsExist'
  <2>1. \A p \in Payment : payment[p].owner \in User \cup {None}
    BY DEF Inv, Columns, PayRow
  <2>2. QED
    BY <1>1, <1>4, <1>7, <1>8, <2>1 DEF Inv, RowsExist, SameOwners
<1>12. ASSUME NEW o \in Request
       PROVE  Passes(request[o])
  <2>1. PICK x : x = request[o]
    OBVIOUS
  <2>2. x.users \subseteq User /\ (u \in x.users => u \in raced')
    BY <1>5, <2>1 DEF Inv, Columns, RequestState
  <2>3. Passes(x)
    BY <1>1, <1>4, <1>6, <2>2 DEF Passes, Moved, SameOwners
  <2>4. QED
    BY <2>1, <2>3
<1>13. Stopped'
  <2>1. ASSUME NEW i \in DOMAIN subs
        PROVE  \/ user'[subs[i].owner].state = "live"
               \/ subs[i].owner \in raced'
               \/ subs[i].late
               \/ subs'[i].status = "cancelled"
               \/ subs'[i].status = "paused" /\ user'[subs[i].owner].state = "cleaned"
    <3>1. CASE subs[i].owner = u
      BY <1>4, <1>7, <3>1 DEF S, ToCancel, SubStatus
    <3>2. CASE subs[i].owner # u
      BY <1>4, <1>5, <1>6, <1>7, <3>2 DEF S, Inv, Stopped
    <3>3. QED
      BY <3>1, <3>2
  <2>2. QED
    BY <1>4, <2>1 DEF Stopped, SameOwners
<1>14. TotalsExact'
  <2>1. \A p \in Payment : OwnerOf(p)' = OwnerOf(p)
    BY <1>1, <1>4, OwnersSame DEF Inv
  <2>2. \A v : Gifts(v)' = Gifts(v)
    BY <1>1, <2>1 DEF Gifts
  <2>3. QED
    BY <1>5, <1>6, <2>2, TotalsKeep DEF Inv
<1>15. \A v \in User : OpenSubs(v)' \subseteq OpenSubs(v)
  BY <1>4 DEF OpenSubs, SameOwners, OpenSub
<1>16. QED
  BY <1>5, <1>9, <1>10, <1>11, <1>12, <1>13, <1>14, <1>15, NoMoreKeeps

LEMMA DeactivateUserKeeps ==
  ASSUME Inv, NEW u \in User, DeactivateUser(u)
  PROVE  Inv'
<1> DEFINE S == {i \in DOMAIN subs : subs[i].owner = u /\ subs[i].status = "active"}
<1>1. /\ user[u].state = "live" /\ Once({u}, TRUE) /\ UNCHANGED <<user, payment, crowded>>
  BY DEF DeactivateUser
<1>2. subs' = [i \in DOMAIN subs |-> IF i \in S THEN [subs[i] EXCEPT !.status = "paused"]
                                     ELSE subs[i]]
  BY DEF DeactivateUser, SubsOf
<1> HIDE DEF S
<1>3. "paused" \in SubStatus
  BY DEF SubStatus
<1>4. /\ SameOwners
      /\ \A i \in DOMAIN subs : subs'[i].status = IF i \in S THEN "paused" ELSE subs[i].status
  BY <1>2, <1>3, StatusesWritten DEF Inv
<1>5. /\ request' = request /\ begun' \in 0..MaxRequests
      /\ raced \subseteq raced' /\ raced' \subseteq User
  BY <1>1, OnceIs DEF Inv
<1>6. Len(subs) \in Nat
  BY DEF Inv, Columns
<1>7. Columns'
  BY <1>1, <1>4, <1>5 DEF Inv, Columns, SameOwners
<1>8. Grows
  BY <1>1, <1>4, <1>5, <1>6 DEF Grows, SameOwners, Made
<1>9. RowsExist'
  BY <1>1, <1>4 DEF Inv, RowsExist, SameOwners, Made
<1>10. \A o \in Request : Passes(request[o])
  BY <1>1, <1>4 DEF Passes, Moved, SameOwners
<1>11. Stopped'
  BY <1>1, <1>4, <1>5 DEF S, Inv, Stopped, SameOwners
<1>12. TotalsExact'
  <2>1. \A p \in Payment : OwnerOf(p)' = OwnerOf(p)
    BY <1>1, <1>4, OwnersSame DEF Inv
  <2>2. \A v : Gifts(v)' = Gifts(v)
    BY <1>1, <2>1 DEF Gifts
  <2>3. QED
    BY <1>1, <1>5, <2>2, TotalsKeep DEF Inv
<1>13. \A v \in User : OpenSubs(v)' \subseteq OpenSubs(v)
  BY <1>4 DEF S, OpenSubs, SameOwners, OpenSub, SubStatus
<1>14. QED
  BY <1>5, <1>7, <1>8, <1>9, <1>10, <1>11, <1>12, <1>13, NoMoreKeeps

LEMMA CommitCleanKeeps ==
  ASSUME Inv, NEW r \in Request, CommitClean(r)
  PROVE  Inv'
<1>1. PICK q : q = request[r]
  OBVIOUS
<1> DEFINE S == {i \in DOMAIN subs : /\ i <= q.sub /\ subs[i].owner \in q.users
                                     /\ subs[i].status \in {"active", "pending_payment_method"}}
<1>2. /\ q.at = "decided" /\ \A u \in q.hard : SubsOf(u) = {}
      /\ user' = [u \in User |-> IF u \in q.users
                    THEN [user[u] EXCEPT !.state = IF u \in q.hard THEN "gone" ELSE "cleaned"]
                    ELSE user[u]]
      /\ payment' = [p \in Payment |-> IF payment[p].owner \in q.hard
                       THEN [payment[p] EXCEPT !.owner = None] ELSE payment[p]]
      /\ request' = [request EXCEPT ![r] = Idle] /\ UNCHANGED <<crowded, begun, raced>>
  BY <1>1 DEF CommitClean, Finish, Proceed
<1>3. subs' = [i \in DOMAIN subs |-> IF i \in S THEN [subs[i] EXCEPT !.status = "cancelled"]
                                     ELSE subs[i]]
  BY <1>1 DEF CommitClean
<1> HIDE DEF S
<1>4. "cancelled" \in SubStatus
  BY DEF SubStatus
<1>5. /\ SameOwners
      /\ \A i \in DOMAIN subs : subs'[i].status = IF i \in S THEN "cancelled" ELSE subs[i].status
  BY <1>3, <1>4, StatusesWritten DEF Inv
<1>6. /\ q \in RequestState /\ q.users \subseteq User /\ q.hard \subseteq q.users /\ q.sub \in Nat
      /\ Cleaning(q) /\ \A u \in q.users : Made(u)
  BY <1>1 DEF Inv, Columns, Requests, Knows, Shape, RequestState
<1>7. /\ Len(subs) \in Nat /\ DOMAIN subs = 1..Len(subs) /\ None \notin User
      /\ \A i \in DOMAIN subs : subs[i].owner \in User /\ subs[i].status \in SubStatus
  BY SubsAre, AccountsAssumption DEF Inv, Columns
<1>8. /\ user' \in [User -> UserRow]
      /\ \A u \in User : /\ user'[u].total = user[u].total
                         /\ u \notin q.users => user'[u] = user[u]
                         /\ u \in q.users \ q.hard => user'[u].state = "cleaned"
                         /\ u \in q.hard => user'[u].state = "gone"
  <2>1. ASSUME NEW u \in User
        PROVE  /\ user'[u] \in UserRow /\ user'[u].total = user[u].total
               /\ u \notin q.users => user'[u] = user[u]
               /\ u \in q.users \ q.hard => user'[u].state = "cleaned"
               /\ u \in q.hard => user'[u].state = "gone"
    <3>1. user[u] \in UserRow
      BY DEF Inv, Columns
    <3>2. CASE u \in q.hard
      <4>1. user'[u] = [user[u] EXCEPT !.state = "gone"]
        BY <1>2, <1>6, <3>2
      <4>2. QED
        BY <1>6, <3>1, <3>2, <4>1 DEF UserRow, UserState
    <3>3. CASE u \in q.users \ q.hard
      <4>1. user'[u] = [user[u] EXCEPT !.state = "cleaned"]
        BY <1>2, <3>3
      <4>2. QED
        BY <3>1, <3>3, <4>1 DEF UserRow, UserState
    <3>4. CASE u \notin q.users
      BY <1>2, <1>6, <3>1, <3>4
    <3>5. QED
      BY <3>2, <3>3, <3>4
  <2>2. QED
    BY <1>2, <2>1
<1>9. /\ payment' \in [Payment -> PayRow]
      /\ \A p \in Payment :
           /\ payment'[p].kind = payment[p].kind /\ payment'[p].sub = payment[p].sub
           /\ payment'[p].status = payment[p].status
           /\ payment'[p].owner = IF payment[p].owner \in q.hard THEN None ELSE payment[p].owner
  <2>1. ASSUME NEW p \in Payment
        PROVE  /\ payment'[p] \in PayRow
               /\ payment'[p].kind = payment[p].kind /\ payment'[p].sub = payment[p].sub
               /\ payment'[p].status = payment[p].status
               /\ payment'[p].owner = IF payment[p].owner \in q.hard THEN None ELSE payment[p].owner
    <3>1. payment[p] \in PayRow
      BY DEF Inv, Columns
    <3>2. CASE payment[p].owner \in q.hard
      <4>1. payment'[p] = [payment[p] EXCEPT !.owner = None]
        BY <1>2, <3>2
      <4>2. QED
        BY <3>1, <3>2, <4>1 DEF PayRow
    <3>3. CASE payment[p].owner \notin q.hard
      BY <1>2, <3>1, <3>3
    <3>4. QED
      BY <3>2, <3>3
  <2>2. QED
    BY <1>2, <2>1
<1>10. /\ request' \in [Request -> RequestState] /\ request'[r] = Idle
       /\ \A o \in Request \ {r} : request'[o] = request[o]
  BY <1>2, FinishIs DEF Inv
<1>11. \A v \in User : Made(v) => Made(v)'
  BY <1>8 DEF Made
<1>12. Columns'
  BY <1>2, <1>5, <1>8, <1>9, <1>10 DEF Inv, Columns, SameOwners
<1>13. Grows
  BY <1>2, <1>5, <1>7, <1>11 DEF Grows, SameOwners
<1>14. RowsExist'
  <2>1. \A p \in Payment : payment[p].owner \in User \cup {None}
    BY DEF Inv, Columns, PayRow
  <2>2. QED
    BY <1>5, <1>7, <1>9, <1>11, <2>1 DEF Inv, RowsExist, SameOwners
<1>15. ASSUME NEW o \in Request \ {r}
       PROVE  Passes(request[o])
  <2>1. PICK x : x = request[o]
    OBVIOUS
  <2>2. x \in RequestState /\ Shape(x) /\ x.users \subseteq User /\ x.hard \subseteq x.users
    BY <2>1 DEF Inv, Columns, Requests, Shape, RequestState
  <2>3. \A u \in q.users : u \in x.users => x.users \cup q.users \subseteq raced
    BY <1>1, <1>2, <2>1 DEF Inv, OverlapsRaced, Ends
  <2>4. \A u \in x.users : user[u].state = "live" => user'[u].state = "live" \/ u \in raced'
    BY <1>2, <1>8, <2>2, <2>3
  <2>5. \A p \in Payment : Moved(payment[p].owner, payment'[p].owner, x)
    BY <1>2, <1>6, <1>7, <1>9, <2>2, <2>3 DEF Moved
  <2>6. x.at = "decided" =>
          /\ \A p \in Payment : payment'[p].owner \in x.hard => payment'[p].owner = payment[p].owner
          /\ \A i \in DOMAIN subs' : i \in DOMAIN subs /\ subs'[i].owner = subs[i].owner
    BY <1>5, <1>7, <1>9, <2>2 DEF SameOwners
  <2>7. x.pay # None => x.pay \in Payment
    BY <2>2 DEF Shape
  <2>8. Passes(x)
    BY <1>5, <1>8, <1>9, <2>2, <2>4, <2>5, <2>6, <2>7 DEF Passes, Moved, SameOwners
  <2>9. QED
    BY <2>1, <2>8
<1>16. Stopped'
  <2>1. ASSUME NEW i \in DOMAIN subs
        PROVE  \/ user'[subs[i].owner].state = "live"
               \/ subs[i].owner \in raced
               \/ subs[i].late
               \/ subs'[i].status = "cancelled"
               \/ subs'[i].status = "paused" /\ user'[subs[i].owner].state = "cleaned"
    <3>1. CASE subs[i].owner \notin q.users
      BY <1>5, <1>7, <1>8, <3>1 DEF S, Inv, Stopped
    <3>2. CASE subs[i].owner \in q.users /\ subs[i].owner \notin raced
      <4>1. subs[i].owner \notin q.hard
        BY <1>2 DEF SubsOf
      <4>2. i <= q.sub
        BY <1>2, <1>6, <1>7, <3>2 DEF Cleaning
      <4>3. QED
        BY <1>5, <1>7, <1>8, <3>2, <4>1, <4>2 DEF S, SubStatus
    <3>3. QED
      BY <3>1, <3>2
  <2>2. QED
    BY <1>2, <1>5, <2>1 DEF Stopped, SameOwners
<1>17. TotalsExact'
  <2> SUFFICES ASSUME NEW v \in User \ raced, user'[v].state = "live"
               PROVE  user'[v].total = Cardinality(Gifts(v)')
    BY <1>2, TotalsIs
  <2>1. v \notin q.users /\ v # None
    BY <1>6, <1>7, <1>8
  <2>2. user[v].state = "live" /\ user'[v].total = user[v].total
    BY <1>8, <2>1
  <2>3. \A p \in Payment : (OwnerOf(p)' = v) <=> (OwnerOf(p) = v)
    <3>1. \A p \in Payment : payment[p].kind = "charge" => payment[p].sub \in DOMAIN subs
      BY OwnerIs DEF Inv
    <3>2. QED
      BY <1>5, <1>6, <1>9, <2>1, <3>1 DEF OwnerOf, SameOwners
  <2>4. Gifts(v)' = Gifts(v)
    BY <1>9, <2>3 DEF Gifts
  <2>5. QED
    BY <2>2, <2>4, TotalsIs DEF Inv
<1>18. \A v \in User : OpenSubs(v)' \subseteq OpenSubs(v)
  BY <1>5 DEF OpenSubs, SameOwners, OpenSub
<1>19. QED
  BY <1>10, <1>12, <1>13, <1>14, <1>15, <1>16, <1>17, <1>18, NoMoreKeeps

\* What belonged to the guest s belongs to t, and t gets both totals.
LEMMA CommitMergeKeeps ==
  ASSUME Inv, NEW r \in Request, CommitMerge(r)
  PROVE  Inv'
<1>1. PICK q : q = request[r]
  OBVIOUS
<1>2. PICK t : t = q.user
  OBVIOUS
<1> DEFINE mine == {i \in SubsOf(t) \cup UNION {SubsOf(s) : s \in q.users} : subs[i].status = "active"}
           C == mine \ Kept(mine)
<1>3. /\ q.at = "merging"
      /\ payment' = [p \in Payment |-> IF payment[p].owner \in q.users
                                       THEN [payment[p] EXCEPT !.owner = t] ELSE payment[p]]
      /\ subs' = [i \in DOMAIN subs |->
                    [subs[i] EXCEPT !.owner  = IF @ \in q.users THEN t ELSE @,
                                    !.status = IF i \in C THEN "cancelled" ELSE @]]
      /\ user' = [u \in User |->
                    CASE u = t           -> [user[u] EXCEPT !.total = IF q.total = 0 THEN @ ELSE q.total]
                      [] u \in q.users \ {t} -> [user[u] EXCEPT !.state = "merged"]
                      [] OTHER           -> user[u]]
      /\ crowded' = crowded \cup {t}
      /\ raced' = IF q.users \cap raced = {} THEN raced ELSE raced \cup q.users
      /\ request' = [request EXCEPT ![r] = Idle] /\ begun' = begun
  BY <1>1, <1>2 DEF CommitMerge
<1>4. /\ q \in RequestState /\ q.total \in Nat /\ q.users \subseteq User
      /\ Merging(q) /\ \A u \in q.users : Made(u)
      /\ t \in User /\ \E s \in User \ {t} : q.users = {s, t}
  BY <1>1, <1>2, <1>3 DEF Inv, Columns, Requests, Knows, Shape, RequestState
<1>5. PICK s \in User \ {t} : q.users = {s, t}
  BY <1>4
<1>6. /\ Len(subs) \in Nat /\ DOMAIN subs = 1..Len(subs) /\ None \notin User
      /\ \A i \in DOMAIN subs : /\ subs[i] \in SubRow /\ subs[i].owner \in User
                                /\ subs[i].status \in SubStatus
  BY SubsAre, AccountsAssumption DEF Inv, Columns
\* What the rows become.
<1>7. /\ subs' \in Seq(SubRow) /\ Len(subs') = Len(subs) /\ DOMAIN subs' = DOMAIN subs
      /\ \A i \in DOMAIN subs :
           /\ subs'[i].owner = IF subs[i].owner \in q.users THEN t ELSE subs[i].owner
           /\ subs'[i].late = subs[i].late
           /\ subs'[i].status = subs[i].status \/ subs'[i].status = "cancelled"
  <2> HIDE DEF C
  <2>1. ASSUME NEW i \in DOMAIN subs
        PROVE  /\ subs'[i] \in SubRow
               /\ subs'[i].owner = IF subs[i].owner \in q.users THEN t ELSE subs[i].owner
               /\ subs'[i].late = subs[i].late
               /\ subs'[i].status = subs[i].status \/ subs'[i].status = "cancelled"
    <3> DEFINE o == IF subs[i].owner \in q.users THEN t ELSE subs[i].owner
               st == IF i \in C THEN "cancelled" ELSE subs[i].status
    <3>1. subs'[i] = [subs[i] EXCEPT !.owner = o, !.status = st]
      BY <1>3
    <3>2. /\ o \in User /\ st \in SubStatus
          /\ st = subs[i].status \/ st = "cancelled"
      BY <1>4, <1>6 DEF SubStatus
    <3>3. o = IF subs[i].owner \in q.users THEN t ELSE subs[i].owner
      OBVIOUS
    <3> HIDE DEF o, st
    <3>4. /\ subs'[i] \in SubRow /\ subs'[i].owner = o /\ subs'[i].late = subs[i].late
          /\ subs'[i].status = st
      BY <1>6, <3>1, <3>2 DEF SubRow
    <3>5. QED
      BY <3>2, <3>3, <3>4
  <2>2. subs' \in [DOMAIN subs -> SubRow]
    BY <1>3, <2>1
  <2>3. subs' \in Seq(SubRow) /\ Len(subs') = Len(subs) /\ DOMAIN subs' = DOMAIN subs
    BY <2>2, Mapped DEF Inv, Columns
  <2>4. QED
    BY <2>1, <2>3
<1>8. /\ payment' \in [Payment -> PayRow]
      /\ \A p \in Payment :
           /\ payment'[p].kind = payment[p].kind /\ payment'[p].sub = payment[p].sub
           /\ payment'[p].status = payment[p].status
           /\ payment'[p].owner = IF payment[p].owner \in q.users THEN t ELSE payment[p].owner
  <2>1. ASSUME NEW p \in Payment
        PROVE  /\ payment'[p] \in PayRow
               /\ payment'[p].kind = payment[p].kind /\ payment'[p].sub = payment[p].sub
               /\ payment'[p].status = payment[p].status
               /\ payment'[p].owner = IF payment[p].owner \in q.users THEN t ELSE payment[p].owner
    <3>1. payment[p] \in PayRow
      BY DEF Inv, Columns
    <3>2. CASE payment[p].owner \in q.users
      <4>1. payment'[p] = [payment[p] EXCEPT !.owner = t]
        BY <1>3, <3>2
      <4>2. QED
        BY <1>4, <3>1, <3>2, <4>1 DEF PayRow
    <3>3. CASE payment[p].owner \notin q.users
      BY <1>3, <3>1, <3>3
    <3>4. QED
      BY <3>2, <3>3
  <2>2. QED
    BY <1>3, <2>1
<1>9. /\ user' \in [User -> UserRow]
      /\ user'[t].state = user[t].state
      /\ user'[t].total = IF q.total = 0 THEN user[t].total ELSE q.total
      /\ user'[s].state = "merged" /\ user'[s].total = user[s].total
      /\ \A u \in User \ q.users : user'[u] = user[u]
  <2>1. user \in [User -> UserRow] /\ user[t] \in UserRow /\ user[s] \in UserRow
    BY <1>4, <1>5 DEF Inv, Columns
  <2>2. /\ user'[t] \in UserRow /\ user'[t].state = user[t].state
        /\ user'[t].total = IF q.total = 0 THEN user[t].total ELSE q.total
    <3> DEFINE n == IF q.total = 0 THEN user[t].total ELSE q.total
    <3>1. user'[t] = [user[t] EXCEPT !.total = n]
      BY <1>3, <1>4
    <3>2. n \in Nat /\ n = IF q.total = 0 THEN user[t].total ELSE q.total
      BY <1>4, <2>1 DEF UserRow
    <3> HIDE DEF n
    <3>3. QED
      BY <2>1, <3>1, <3>2 DEF UserRow
  <2>3. user'[s] \in UserRow /\ user'[s].state = "merged" /\ user'[s].total = user[s].total
    <3>1. user'[s] = [user[s] EXCEPT !.state = "merged"]
      BY <1>3, <1>5
    <3>2. QED
      BY <2>1, <3>1 DEF UserRow, UserState
  <2>4. \A u \in User \ q.users : user'[u] = user[u]
    BY <1>3, <1>5
  <2>5. user' \in [User -> UserRow]
    <3>1. \A u \in User : user'[u] \in UserRow
      BY <1>5, <2>1, <2>2, <2>3, <2>4
    <3>2. DOMAIN user' = User /\ user' = [u \in User |-> user'[u]]
      BY <1>3
    <3>3. QED
      BY <3>1, <3>2
  <2>6. QED
    BY <2>2, <2>3, <2>4, <2>5
<1>10. /\ request' \in [Request -> RequestState] /\ request'[r] = Idle
       /\ \A o \in Request \ {r} : request'[o] = request[o]
  BY <1>3, FinishIs DEF Inv
<1>11. /\ raced \subseteq raced' /\ raced' \subseteq User
       /\ crowded \subseteq crowded' /\ crowded' \subseteq User /\ t \in crowded'
       /\ \A u \in q.users : u \in raced => q.users \subseteq raced'
       /\ t \notin raced' => q.users \cap raced = {}
  BY <1>3, <1>4 DEF Inv, Columns
<1>12. \A v \in User : Made(v) => Made(v)'
  BY <1>5, <1>9 DEF Made
<1> HIDE DEF C
<1>13. Columns'
  BY <1>3, <1>7, <1>8, <1>9, <1>10, <1>11 DEF Inv, Columns
<1>14. Grows
  BY <1>6, <1>7, <1>11, <1>12 DEF Grows
<1>15. RowsExist'
  <2>1. \A p \in Payment : payment[p].owner \in User \cup {None}
    BY DEF Inv, Columns, PayRow
  <2>2. Made(t)
    BY <1>4, <1>5
  <2>3. \A p \in Payment : payment'[p].owner # None => user'[payment'[p].owner].state # "none"
    BY <1>4, <1>8, <1>12, <2>1, <2>2 DEF Inv, RowsExist, Made
  <2>4. \A i \in DOMAIN subs' : user'[subs'[i].owner].state # "none"
    BY <1>4, <1>6, <1>7, <1>12, <2>2 DEF Inv, RowsExist, Made
  <2>5. \A p \in Payment : payment'[p].kind = "none" => payment'[p].owner = None
    BY <1>4, <1>6, <1>8 DEF Inv, RowsExist
  <2>6. \A p \in Payment : /\ payment'[p].sub <= Len(subs')
                           /\ payment'[p].kind = "charge" => payment'[p].sub > 0
    BY <1>7, <1>8 DEF Inv, RowsExist
  <2>7. QED
    BY <2>3, <2>4, <2>5, <2>6 DEF RowsExist, Made
<1>16. ASSUME NEW o \in Request \ {r}
       PROVE  Passes(request[o])
  <2>1. PICK x : x = request[o]
    OBVIOUS
  <2>2. x \in RequestState /\ Shape(x) /\ x.users \subseteq User /\ x.hard \subseteq x.users
    BY <2>1 DEF Inv, Columns, Requests, Shape, RequestState
  <2>3. \A u \in q.users : u \in x.users => x.users \cup q.users \subseteq raced'
    BY <1>1, <1>3, <1>11, <2>1 DEF Inv, OverlapsRaced, Ends
  <2>4. \A u \in x.users : user[u].state = "live" => user'[u].state = "live" \/ u \in raced'
    BY <1>5, <1>9, <2>2, <2>3
  <2>5. \A u \in x.users : user'[u].total = user[u].total \/ u \in raced'
    BY <1>5, <1>9, <2>2, <2>3
  <2>6. ASSUME NEW u
        PROVE  Moved(u, IF u \in q.users THEN t ELSE u, x)
    <3>1. CASE u \in q.users
      <4>1. u # None /\ t \in q.users
        BY <1>4, <1>5, <1>6, <3>1
      <4>2. (u \in x.users \/ t \in x.users) => \A w \in x.users \cup {u, t} : w \in raced' \cup {None}
        BY <2>3, <3>1, <4>1
      <4>3. u \in raced => t \in raced' \cup {None}
        BY <1>11, <3>1, <4>1
      <4>4. QED
        BY <3>1, <4>1, <4>2, <4>3 DEF Moved
    <3>2. CASE u \notin q.users
      BY <3>2 DEF Moved
    <3>3. QED
      BY <3>1, <3>2
  <2>7. /\ \A i \in DOMAIN subs : Moved(subs[i].owner, subs'[i].owner, x)
        /\ \A p \in Payment : Moved(payment[p].owner, payment'[p].owner, x)
    BY <1>7, <1>8, <2>6
  <2>8. t \in x.users => t \in raced'
    BY <1>5, <2>3
  <2>9. x.at = "decided" =>
          /\ \A p \in Payment : payment'[p].owner \in x.hard =>
               payment'[p].owner = payment[p].owner \/ payment'[p].owner \in raced'
          /\ \A i \in DOMAIN subs' : subs'[i].owner \in x.users =>
               (i \in DOMAIN subs /\ subs'[i].owner = subs[i].owner) \/ subs'[i].owner \in raced'
    BY <1>7, <1>8, <2>2, <2>8
  <2>10. x.pay # None => x.pay \in Payment
    BY <2>2 DEF Shape
  <2>11. x.pay # None =>
           /\ payment'[x.pay].kind = payment[x.pay].kind /\ payment'[x.pay].sub = payment[x.pay].sub
           /\ payment'[x.pay].status = payment[x.pay].status
           /\ Moved(payment[x.pay].owner, payment'[x.pay].owner, x)
    BY <1>8, <2>7, <2>10
  <2>12. Passes(x)
    BY <2>4, <2>5, <2>7, <2>9, <2>11 DEF Passes
  <2>13. QED
    BY <2>1, <2>12
<1>17. Stopped'
  <2>1. ASSUME NEW i \in DOMAIN subs
        PROVE  \/ user'[subs'[i].owner].state = "live"
               \/ subs'[i].owner \in raced'
               \/ subs'[i].late
               \/ subs'[i].status = "cancelled"
               \/ subs'[i].status = "paused" /\ user'[subs'[i].owner].state = "cleaned"
    <3>1. CASE subs[i].owner \in q.users
      <4>1. subs'[i].owner = t
        BY <1>7, <3>1
      <4>2. t \in raced' \/ user'[t].state = "live"
        BY <1>3, <1>4, <1>5, <1>9, <1>11 DEF Merging
      <4>3. QED
        BY <4>1, <4>2
    <3>2. CASE subs[i].owner \notin q.users
      <4>1. subs'[i].owner = subs[i].owner /\ user'[subs[i].owner] = user[subs[i].owner]
        BY <1>6, <1>7, <1>9, <3>2
      <4>2. QED
        BY <1>7, <1>11, <4>1 DEF Inv, Stopped
    <3>3. QED
      BY <3>1, <3>2
  <2>2. QED
    BY <1>7, <2>1 DEF Stopped
\* The totals.
<1>18. \A p \in Payment : OwnerOf(p)' = IF OwnerOf(p) \in q.users THEN t ELSE OwnerOf(p)
  <2>1. \A p \in Payment : payment[p].kind = "charge" => payment[p].sub \in DOMAIN subs
    BY OwnerIs DEF Inv
  <2>2. QED
    BY <1>7, <1>8, <2>1 DEF OwnerOf
<1>19. Gifts(t)' = Gifts(s) \cup Gifts(t) /\ Gifts(s) \cap Gifts(t) = {}
  BY <1>5, <1>8, <1>18 DEF Gifts
<1>20. \A u \in User \ q.users : Gifts(u)' = Gifts(u)
  BY <1>5, <1>8, <1>18 DEF Gifts
<1>21. ASSUME t \notin raced'
       PROVE  user'[t].total = Cardinality(Gifts(t)')
  <2>1. q.users \cap raced = {}
    BY <1>11, <1>21
  <2>2. q.total = Both(s, t) /\ user[s].state = "live" /\ user[t].state = "live"
    BY <1>2, <1>3, <1>4, <1>5, <2>1 DEF Merging
  <2>3. user[s].total = Cardinality(Gifts(s)) /\ user[t].total = Cardinality(Gifts(t))
    BY <1>4, <1>5, <2>1, <2>2, TotalsIs DEF Inv
  <2>4. Cardinality(Gifts(t)') = Cardinality(Gifts(s)) + Cardinality(Gifts(t))
    <3>1. IsFiniteSet(Gifts(s)) /\ IsFiniteSet(Gifts(t))
      BY GiftsFinite
    <3>2. Cardinality(Gifts(s) \cup Gifts(t)) =
            Cardinality(Gifts(s)) + Cardinality(Gifts(t)) - Cardinality(Gifts(s) \cap Gifts(t))
      BY <3>1, FS_Union
    <3>3. QED
      BY <1>19, <3>2, GiftsFinite, FS_EmptySet
  <2>5. Cardinality(Gifts(s)) \in Nat /\ Cardinality(Gifts(t)) \in Nat
    BY GiftsFinite
  <2>6. QED
    BY <1>9, <2>2, <2>3, <2>4, <2>5 DEF Both
<1>22. TotalsExact'
  <2> SUFFICES ASSUME NEW v \in User \ raced', user'[v].state = "live"
               PROVE  user'[v].total = Cardinality(Gifts(v)')
    BY TotalsIs
  <2>1. v # s
    BY <1>9
  <2>2. CASE v = t
    BY <1>21, <2>2
  <2>3. CASE v \notin q.users
    <3>1. Cardinality(Gifts(v)') = Cardinality(Gifts(v)) /\ user'[v] = user[v] /\ v \notin raced
      BY <1>9, <1>11, <1>20, <2>3
    <3>2. QED
      BY <3>1, TotalsIs DEF Inv
  <2>4. QED
    BY <1>5, <2>1, <2>2, <2>3
<1>23. \A v \in User : v \in crowded' \/ OpenSubs(v)' \subseteq OpenSubs(v)
  BY <1>5, <1>7, <1>11 DEF OpenSubs, OpenSub
<1>24. QED
  BY <1>10, <1>13, <1>14, <1>15, <1>16, <1>17, <1>22, <1>23, NoMoreKeeps

-----------------------------------------------------------------------------
LEMMA InitInv == Init => Inv
<1> SUFFICES ASSUME Init PROVE Inv
  OBVIOUS
<1>1. PICK n \in 0..2 : \E owner \in [1..n -> {u \in User : user[u].state = "live"}] :
        subs = [i \in 1..n |-> [owner |-> owner[i], status |-> "active", late |-> FALSE]]
  BY DEF Init
<1>2. PICK owner \in [1..n -> {u \in User : user[u].state = "live"}] :
        subs = [i \in 1..n |-> [owner |-> owner[i], status |-> "active", late |-> FALSE]]
  BY <1>1
<1>3. /\ subs \in Seq(SubRow) /\ Len(subs) = n /\ Len(subs) \in Nat /\ DOMAIN subs = 1..n
      /\ \A i \in DOMAIN subs : /\ subs[i].owner \in User /\ user[subs[i].owner].state = "live"
                                /\ subs[i].status = "active"
  <2>1. \A i \in 1..n : /\ subs[i] \in SubRow /\ subs[i].owner \in User
                        /\ user[subs[i].owner].state = "live" /\ subs[i].status = "active"
    BY <1>2 DEF SubRow, SubStatus
  <2>2. subs \in [1..n -> SubRow] /\ n \in Nat
    BY <1>1, <1>2, <2>1
  <2>3. subs \in Seq(SubRow) /\ Len(subs) = n /\ DOMAIN subs = 1..n
    BY <2>2
  <2>4. QED
    BY <2>1, <2>2, <2>3
<1>4. /\ user \in [User -> UserRow] /\ \A u \in User : user[u].total = 0
  <2>1. {NewUser(FALSE), NewUser(TRUE), [NewUser(TRUE) EXCEPT !.state = "none"]}
          \subseteq {x \in UserRow : x.total = 0}
    <3>1. \A b \in BOOLEAN : NewUser(b) \in UserRow /\ NewUser(b).total = 0
      BY DEF NewUser, UserRow, UserState
    <3> DEFINE x == NewUser(TRUE)
               y == [x EXCEPT !.state = "none"]
    <3>2. x \in UserRow /\ x.total = 0
      BY <3>1
    <3> HIDE DEF x
    <3>3. y \in UserRow /\ y.total = 0
      BY <3>2 DEF UserRow, UserState
    <3>4. QED
      BY <3>1, <3>2, <3>3 DEF x
  <2>2. user \in [User -> {x \in UserRow : x.total = 0}]
    BY <2>1 DEF Init
  <2>3. QED
    BY <2>2
<1>5. /\ payment \in [Payment -> PayRow]
      /\ \A p \in Payment : payment[p] = NoPayment /\ payment[p].kind = "none" /\ payment[p].sub = 0
                            /\ payment[p].owner = None
  <2>1. /\ NoPayment \in PayRow /\ NoPayment.kind = "none" /\ NoPayment.sub = 0
        /\ NoPayment.owner = None
    BY DEF NoPayment, PayRow
  <2>2. QED
    BY <2>1 DEF Init
<1>6. /\ request \in [Request -> RequestState] /\ \A r \in Request : request[r] = Idle
      /\ begun = 0 /\ raced = {} /\ crowded = {}
  BY IdleState DEF Init
<1>7. Columns
  BY <1>3, <1>4, <1>5, <1>6, AccountsAssumption DEF Columns
<1>8. RowsExist
  BY <1>3, <1>5 DEF RowsExist, Made
<1>9. OverlapsRaced /\ Alone
  BY <1>6 DEF OverlapsRaced, Alone, Idle, Ends
<1>10. Requests
  BY <1>6, <1>7, IdleKnows DEF Requests
<1>11. Stopped
  BY <1>3 DEF Stopped
<1>12. TotalsExact
  <2>1. \A u : Gifts(u) = {}
    BY <1>5 DEF Gifts
  <2>2. QED
    BY <1>4, <2>1, TotalsIs, FS_EmptySet
<1>13. LimitKept
  <2> SUFFICES ASSUME NEW u \in User
               PROVE  Cardinality(OpenSubs(u)) <= MaxSubs
    BY LimitIs
  <2>1. OpenSubs(u) = {i \in DOMAIN subs : subs[i].owner = u}
    BY <1>3 DEF OpenSubs, OpenSub, SubStatus
  <2>2. QED
    BY <2>1 DEF Init
<1>14. QED
  BY <1>7, <1>8, <1>9, <1>10, <1>11, <1>12, <1>13 DEF Inv

LEMMA StepInv == Inv /\ [Next]_vars => Inv'
<1> SUFFICES ASSUME Inv, [Next]_vars PROVE Inv'
  OBVIOUS
<1>1. CASE UNCHANGED vars
  BY <1>1, StutterKeeps
<1>2. ASSUME NEW u \in User,
             Register(u) \/ Visit(u) \/ StayAway(u) \/ Anonymize(u) \/ DeactivateUser(u)
      PROVE  Inv'
  BY <1>2, RegisterKeeps, VisitKeeps, AnonymizeKeeps, DeactivateUserKeeps
<1>3. ASSUME NEW p \in Payment,
             (\E u \in User : Donate(u, p)) \/ (\E i \in DOMAIN subs : Charge(i, p))
      PROVE  Inv'
  BY <1>3, DonateKeeps, ChargeKeeps
<1>4. ASSUME NEW r \in Request,
             \/ \E p \in Payment : LoadPayment(r, p, "posting") \/ LoadPayment(r, p, "refunding")
             \/ CommitPost(r) \/ CommitRefund(r)
      PROVE  Inv'
  BY <1>4, LoadPaymentKeeps, CommitPostKeeps, CommitRefundKeeps
<1>5. ASSUME NEW r \in Request,
             \/ \E i \in DOMAIN subs, to \in {"paused", "active", "cancelled"} : LoadChange(r, i, to)
             \/ CommitChange(r)
             \/ \E u \in User : CheckLimit(r, u)
             \/ CommitSubscribe(r)
      PROVE  Inv'
  BY <1>5, LoadChangeKeeps, CommitChangeKeeps, CheckLimitKeeps, CommitSubscribeKeeps
<1>6. ASSUME NEW r \in Request,
             \/ \E s, t \in User : LoadMerge(r, s, t)
             \/ CommitMerge(r) \/ LoadClean(r) \/ Decide(r) \/ CommitClean(r) \/ Rollback(r)
      PROVE  Inv'
  BY <1>6, LoadMergeKeeps, CommitMergeKeeps, LoadCleanKeeps, DecideKeeps, CommitCleanKeeps,
     RollbackKeeps
<1>7. QED
  BY <1>1, <1>2, <1>3, <1>4, <1>5, <1>6 DEF Next

LEMMA InvHolds == Spec => []Inv
  BY InitInv, StepInv, PTL DEF Spec

-----------------------------------------------------------------------------
(***************************************************************************)
(* The theorems.                                                           *)
(***************************************************************************)

\* The columns keep their types, and requests and payments refer to rows that
\* exist.
THEOREM TypeCorrect == Spec => []TypeOK
<1>1. Inv => TypeOK
  <2> SUFFICES ASSUME Inv PROVE TypeOK
    OBVIOUS
  <2>1. \A p \in Payment : payment[p] \in PayRow /\ payment[p].sub \in 0..Len(subs)
    BY OwnerIs DEF Inv
  <2>2. payment \in [Payment -> [kind : {"none", "donation", "charge"}, owner : User \cup {None},
                                 sub : 0..Len(subs), status : {"pending", "success", "refunded"}]]
    <3>1. \A p \in Payment :
            payment[p] \in [kind : {"none", "donation", "charge"}, owner : User \cup {None},
                            sub : 0..Len(subs), status : {"pending", "success", "refunded"}]
      BY <2>1 DEF PayRow
    <3>2. QED
      BY <3>1 DEF Inv, Columns
  <2>3. \A i \in DOMAIN subs : subs[i] \in [owner : User, status : SubStatus, late : BOOLEAN]
    BY SubsAre DEF Inv, Columns, SubRow
  <2>4. \A r \in Request : DOMAIN request[r] = DOMAIN Idle /\ request[r].at \in Phase
    BY DEF Inv, Columns, RequestState, Idle
  <2>5. QED
    BY <2>2, <2>3, <2>4 DEF Inv, Columns, TypeOK, UserRow
<1>2. QED
  BY <1>1, InvHolds, PTL

\* The totals of accounts count what belongs to them, through merges, cleanups
\* and refunds, unless two requests have met at the end of an account
\* (services/account_merge.py:48-56, 132-137).
THEOREM TotalsCorrect == Spec => []TotalsExact
<1>1. Inv => TotalsExact
  BY DEF Inv
<1>2. QED
  BY <1>1, InvHolds, PTL

\* Nobody has more open subscriptions than allowed, with the exceptions of
\* `crowded' (services/subscription_limits.py:17-41).
THEOREM LimitCorrect == Spec => []LimitKept
<1>1. Inv => LimitKept
  BY DEF Inv
<1>2. QED
  BY <1>1, InvHolds, PTL

\* No subscription of an account that has ended is active
\* (services/user.py:62-67, tasks/inactive_anonymous_cleanup.py:118-129).
THEOREM EndedCorrect == Spec => []EndedIsNotCharged
<1>1. Inv => EndedIsNotCharged
  BY DEF Inv, Stopped, EndedIsNotCharged
<1>2. QED
  BY <1>1, InvHolds, PTL

\* A step takes the owner of a payment only by deleting an account that had
\* none when that was decided (tasks/inactive_anonymous_cleanup.py:172-212).
LEMMA HistoryStep ==
  ASSUME Inv, [Next]_vars, NEW p \in Payment,
         payment[p].owner # None, payment'[p].owner = None
  PROVE  payment[p].owner \in raced'
<1>1. ASSUME NEW r \in Request, CommitClean(r)
      PROVE  payment[p].owner \in raced'
  <2>1. /\ request[r].at = "decided" /\ raced' = raced
        /\ payment' = [x \in Payment |-> IF payment[x].owner \in request[r].hard
                         THEN [payment[x] EXCEPT !.owner = None] ELSE payment[x]]
    BY <1>1 DEF CommitClean, Finish, Proceed
  <2>2. payment[p].owner \in request[r].hard
    BY <2>1
  <2>3. QED
    BY <2>1, <2>2 DEF Inv, Requests, Knows, Cleaning
<1>2. ASSUME NEW r \in Request, CommitMerge(r)
      PROVE  FALSE
  <2>1. /\ request[r].at = "merging"
        /\ payment' = [x \in Payment |-> IF payment[x].owner \in request[r].users
                         THEN [payment[x] EXCEPT !.owner = request[r].user] ELSE payment[x]]
    BY <1>2 DEF CommitMerge
  <2>2. request[r].user # None /\ payment[p] \in PayRow
    BY <2>1, AccountsAssumption DEF Inv, Columns, Requests, Shape
  <2>3. QED
    BY <2>1, <2>2 DEF PayRow
<1>3. ASSUME NEW u \in User, NEW x \in Payment, Donate(u, x)
      PROVE  FALSE
  <2>1. payment[x].kind = "none" /\ payment[x].owner = None
    BY <1>3 DEF Donate, Inv, RowsExist
  <2>2. payment'[p] = payment[p]
    BY <1>3, <2>1 DEF Donate, Inv, Columns
  <2>3. QED
    BY <2>2
<1>4. ASSUME NEW i \in DOMAIN subs, NEW x \in Payment, Charge(i, x)
      PROVE  FALSE
  <2>1. payment[x].kind = "none" /\ payment[x].owner = None
    BY <1>4 DEF Charge, Inv, RowsExist
  <2>2. payment'[p] = payment[p]
    BY <1>4, <2>1 DEF Charge, Inv, Columns
  <2>3. QED
    BY <2>2
<1>5. ASSUME NEW r \in Request, CommitPost(r) \/ CommitRefund(r)
      PROVE  FALSE
  <2>1. PICK st : payment' = [payment EXCEPT ![request[r].pay].status = st]
    BY <1>5 DEF CommitPost, CommitRefund
  <2>2. payment'[p].owner = payment[p].owner
    BY <2>1 DEF Inv, Columns, PayRow
  <2>3. QED
    BY <2>2
<1>6. ASSUME UNCHANGED payment
      PROVE  FALSE
  BY <1>6
<1>7. QED
  BY <1>1, <1>2, <1>3, <1>4, <1>5, <1>6
  DEF Next, vars, Register, Visit, StayAway, Anonymize, DeactivateUser, LoadPayment, LoadChange,
      CommitChange, CheckLimit, CommitSubscribe, LoadMerge, LoadClean, Decide, Rollback

\* Deleting an account for good takes the owner of no donation, unless it was
\* made while the cleanup was at work.
THEOREM HistoryCorrect == Spec => HistoryIsKept
<1>1. Inv /\ [Next]_vars =>
        [\A p \in Payment :
           payment[p].owner # None /\ payment'[p].owner = None => payment[p].owner \in raced']_vars
  BY HistoryStep
<1>2. QED
  BY <1>1, InvHolds, PTL DEF Spec, HistoryIsKept

=============================================================================
