---------------------------- MODULE SessionsProof ----------------------------
(***************************************************************************)
(* Safety of Sessions for any number of accounts, codes, tokens and        *)
(* requests at a time, and any bound on the requests.                      *)
(***************************************************************************)
EXTENDS Sessions, FiniteSetTheorems, TLAPS

RequestState ==
  [phase : Phase, goal : Goal, from : Code \cup Token \cup {None}, codes : SUBSET Code,
   id : Identity \cup {None}, n : Nat, who : Account \cup {None}, source : Account \cup {None}]

Row0 == Code \cup Token \cup Account

-----------------------------------------------------------------------------
(***************************************************************************)
(* The inductive invariant.                                                *)
(***************************************************************************)

\* What the phase of a request says of its fields.
Shape(r) ==
  /\ r.phase \in {"counted", "limited", "code"} => r.id \in Email
  /\ r.phase = "code"  => r.from \in Code
  /\ (r.phase \in {"code", "known"} /\ r.from \in Code) => r.from \in r.codes
  /\ r.phase = "token" => r.from \in Token
  /\ r.phase \in {"code", "token"} => r.who = None /\ r.goal = "login"
  /\ r.phase = "known" =>
       /\ r.goal \in {"create", "attach"} => r.id \in Identity
       /\ r.goal # "create" => r.who \in Account
       /\ r.goal = "merge" => r.source \in Account /\ r.source # r.who
  /\ r.source \in User \cup {None}

Shapes == \A s \in Request : Shape(request[s])

\* The rows that a token or a request refers to exist.
TokensExist ==
  \A t \in Token : token[t].row # "none" =>
    /\ token[t].owner \in Account /\ account[token[t].owner].made
    /\ token[t].from \in Token => token[token[t].from].row # "none" /\ token[token[t].from].used
    /\ token[t].from \in Code  => code[token[t].from].row # "none" /\ code[token[t].from].used

RowsExist(r) ==
  /\ r.from \in Token => token[r.from].row # "none"
  /\ r.from \in Code  => code[r.from].row # "none"
  /\ r.who # None    => account[r.who].made
  /\ r.source # None => account[r.source].made

NotIssued(x) == \A t \in Token : token[t].row # "none" => token[t].from # x

\* What a request may still rely on, unless it has been raced.
Knows(r) ==
  /\ RowsExist(r)
  /\ (r.phase \in {"code", "token", "known"} /\ r.from \in Code \cup Token /\ r.from \notin raced)
       => NotIssued(r.from)
  /\ (r.phase = "token" /\ token[r.from].owner \notin raced)
       => ~account[token[r.from].owner].deleted
  /\ (r.phase = "known" /\ r.who # None /\ r.who \notin raced)
       => account[r.who].active /\ ~account[r.who].deleted

RequestsKnow == \A s \in Request : Knows(request[s])

\* x is among what request r works on, if the tokens are tok.
WorksOn(r, tok, x) ==
  /\ x # None
  /\ \/ x \in r.codes \/ x = r.from
     \/ r.from \in Token /\ x = tok[r.from].owner
     \/ r.phase = "known" /\ x \in {r.who, r.source}

\* Whatever two requests work on has been raced.
OverlapsRaced ==
  \A s, o \in Request : s # o =>
    \A x \in Row0 : WorksOn(request[s], token, x) /\ WorksOn(request[o], token, x) => x \in raced

OneSuccessor ==
  \A t, v \in Token :
    (token[t].row # "none" /\ token[v].row # "none" /\ token[t].from = token[v].from
       /\ token[t].from \in Code \cup Token /\ token[t].from \notin raced) => t = v

\* Admins are deactivated, but never deleted.
AdminsStay == \A a \in Admin : account[a].made /\ ~account[a].deleted

Inv ==
  /\ TypeOK /\ Shapes /\ AdminsStay
  /\ TokensExist /\ RequestsKnow
  /\ OverlapsRaced /\ OneSuccessor /\ SignedOut

-----------------------------------------------------------------------------
(***************************************************************************)
(* What the pieces of the actions do.                                      *)
(***************************************************************************)
LEMMA IdleState == Idle \in RequestState /\ Shape(Idle)
  BY DEF Idle, RequestState, Shape, Phase, Goal

LEMMA IdleKnows == Knows(Idle)
  BY SessionsAssumption DEF Idle, Knows, RowsExist, Account, Identity

LEMMA RequestType == TypeOK <=>
  /\ account \in [Account -> [made : BOOLEAN, active : BOOLEAN, deleted : BOOLEAN,
                              ids : SUBSET Identity]]
  /\ code \in [Code -> [row : Row, email : Email \cup {None}, used : BOOLEAN]]
  /\ token \in [Token -> [row : Row, owner : Account \cup {None},
                          from : Code \cup Token \cup {None},
                          used : BOOLEAN, revoked : BOOLEAN]]
  /\ sent \in [Email -> [count : Nat, ttl : BOOLEAN]]
  /\ stranded \subseteq Email
  /\ request \in [Request -> RequestState]
  /\ begun \in Nat
  /\ raced \subseteq Row0
  BY DEF TypeOK, RequestState, Row0

LEMMA ConcernsIs ==
  ASSUME NEW r, NEW x
  PROVE  x \in Concerns(r) <=> WorksOn(r, token, x)
  BY DEF Concerns, WorksOn

LEMMA BusyIs ==
  ASSUME NEW s, NEW x
  PROVE  x \in Busy(s) <=> \E o \in Request \ {s} : WorksOn(request[o], token, x)
  BY ConcernsIs DEF Busy

LEMMA AtRaces ==
  ASSUME TypeOK, NEW s \in Request, NEW r \in RequestState, At(s, r)
  PROVE  /\ request' = [request EXCEPT ![s] = r]
         /\ raced \subseteq raced' /\ raced' \subseteq Row0
         /\ \A x, o : (o \in Request \ {s} /\ WorksOn(r, token, x) /\ WorksOn(request[o], token, x))
              => x \in raced'
<1>1. \A x : x \in raced' <=> (x \in raced \/ (x \in Concerns(r) /\ x \in Busy(s)))
  BY DEF At
<1>2. \A x : WorksOn(r, token, x) => x \in Row0
  BY RequestType DEF WorksOn, RequestState, Row0
<1>3. QED
  BY <1>1, <1>2, RequestType, ConcernsIs, BusyIs DEF At

LEMMA MeetsRaces ==
  ASSUME TypeOK, NEW X \in SUBSET Row0, Meets(X)
  PROVE  /\ raced \subseteq raced' /\ raced' \subseteq Row0
         /\ \A x \in X, o \in Request : WorksOn(request[o], token, x) => x \in raced'
<1>1. \A x : x \in raced' <=> \/ x \in raced
                              \/ x \in X /\ \E o \in Request : x \in Concerns(request[o])
  BY DEF Meets
<1>2. QED
  BY <1>1, RequestType, ConcernsIs

LEMMA FreshCode == Left(code) => Fresh(code) \in DOMAIN code /\ code[Fresh(code)].row = "none"
  BY DEF Left, Fresh

LEMMA FreshToken == Left(token) => Fresh(token) \in DOMAIN token /\ token[Fresh(token)].row = "none"
  BY DEF Left, Fresh

-----------------------------------------------------------------------------
(***************************************************************************)
(* A request moves on, or is over; no other row changes.                   *)
(***************************************************************************)
LEMMA MoveKeeps ==
  ASSUME Inv, NEW s \in Request, NEW r \in RequestState, At(s, r), begun' \in Nat,
         Shape(r), Knows(r), UNCHANGED <<account, code, token>>,
         (sent' \in [Email -> [count : Nat, ttl : BOOLEAN]] /\ stranded' \subseteq Email)
  PROVE  Inv'
<1>1. /\ TypeOK /\ request \in [Request -> RequestState]
      /\ request' = [request EXCEPT ![s] = r]
      /\ raced \subseteq raced' /\ raced' \subseteq Row0
      /\ \A x, o : (o \in Request \ {s} /\ WorksOn(r, token, x) /\ WorksOn(request[o], token, x))
           => x \in raced'
  BY AtRaces, RequestType DEF Inv
<1>2. request' \in [Request -> RequestState] /\ \A o \in Request : request'[o] = IF o = s THEN r ELSE request[o]
  BY <1>1
<1>3. TypeOK'
  BY <1>1, <1>2, RequestType DEF TypeOK, RequestState, Row0
<1>4. Shapes'
  BY <1>2 DEF Inv, Shapes
<1>5. TokensExist'
  BY DEF Inv, TokensExist
<1>6. RequestsKnow'
  <2> SUFFICES ASSUME NEW o \in Request PROVE Knows(request[o])'
    BY DEF RequestsKnow
  <2> PICK q : q = request'[o]
    OBVIOUS
  <2>1. Knows(q)
    BY <1>2 DEF Inv, RequestsKnow
  <2>2. QED
    BY <2>1, <1>1 DEF Knows, RowsExist, NotIssued
<1>7. OverlapsRaced'
  BY <1>1, <1>2 DEF Inv, OverlapsRaced
<1>8. OneSuccessor' /\ AdminsStay'
  BY <1>1 DEF Inv, OneSuccessor, AdminsStay
<1>9. SignedOut'
  BY <1>1 DEF Inv, SignedOut, Usable
<1>10. QED
  BY <1>3, <1>4, <1>5, <1>6, <1>7, <1>8, <1>9 DEF Inv

LEMMA FinishKeeps ==
  ASSUME Inv, NEW s \in Request, Finish(s), UNCHANGED <<account, code, token>>,
         (sent' \in [Email -> [count : Nat, ttl : BOOLEAN]] /\ stranded' \subseteq Email)
  PROVE  Inv'
<1>1. /\ TypeOK /\ request \in [Request -> RequestState]
      /\ request' = [request EXCEPT ![s] = Idle] /\ UNCHANGED <<begun, raced>>
  BY RequestType DEF Inv, Finish
<1>2. request' \in [Request -> RequestState] /\ \A o \in Request : request'[o] = IF o = s THEN Idle ELSE request[o]
  BY <1>1, IdleState
<1>3. TypeOK'
  BY <1>1, <1>2, RequestType DEF TypeOK, RequestState, Row0
<1>4. Shapes'
  BY <1>2, IdleState DEF Inv, Shapes
<1>5. TokensExist'
  BY DEF Inv, TokensExist
<1>6. RequestsKnow'
  <2> SUFFICES ASSUME NEW o \in Request PROVE Knows(request[o])'
    BY DEF RequestsKnow
  <2> PICK q : q = request'[o]
    OBVIOUS
  <2>1. Knows(q)
    BY <1>2, IdleKnows DEF Inv, RequestsKnow
  <2>2. QED
    BY <2>1, <1>1 DEF Knows, RowsExist, NotIssued
<1>7. OverlapsRaced'
  <2>1. \A x \in Row0 : ~WorksOn(Idle, token, x)
    BY SessionsAssumption DEF WorksOn, Idle, Row0, Account
  <2>2. QED
    BY <1>1, <1>2, <2>1 DEF Inv, OverlapsRaced
<1>8. OneSuccessor' /\ AdminsStay'
  BY <1>1 DEF Inv, OneSuccessor, AdminsStay
<1>9. SignedOut'
  BY <1>1 DEF Inv, SignedOut, Usable
<1>10. QED
  BY <1>3, <1>4, <1>5, <1>6, <1>7, <1>8, <1>9 DEF Inv

-----------------------------------------------------------------------------
(***************************************************************************)
(* The tables of codes and tokens.                                         *)
(***************************************************************************)

\* A row of otp_codes is new, or expires: no token refers to a new one.
LEMMA CodeKeeps ==
  ASSUME Inv, NEW c \in Code, UNCHANGED <<account, token, sent, stranded, raced>>,
         NEW row \in [row : Row, email : Email \cup {None}, used : BOOLEAN],
         code' = [code EXCEPT ![c] = row], row.row # "none",
         \/ code[c].row = "none"
         \/ row.used = code[c].used,
         \/ UNCHANGED <<request, begun>>
         \/ \E s \in Request : Finish(s)
  PROVE  Inv'
<1>1. /\ TypeOK /\ request \in [Request -> RequestState] /\ begun \in Nat
      /\ code \in [Code -> [row : Row, email : Email \cup {None}, used : BOOLEAN]]
  BY RequestType DEF Inv
<1>2. \A o \in Request : request'[o] = request[o] \/ request'[o] = Idle
  BY <1>1 DEF Finish
<1>3. request' \in [Request -> RequestState] /\ begun' \in Nat
  BY <1>1, IdleState DEF Finish
<1>4. \A x \in Code : code'[x].row = "none" => code[x].row = "none"
  BY <1>1
<1>5. \A x \in Code : (code[x].row # "none" /\ code[x].used) => code'[x].used
  BY <1>1
<1>6. TypeOK'
  BY <1>1, <1>3, RequestType DEF TypeOK, RequestState, Row0
<1>7. Shapes'
  BY <1>2, IdleState DEF Inv, Shapes
<1>8. TokensExist'
  BY <1>4, <1>5 DEF Inv, TokensExist
<1>9. RequestsKnow'
  <2> SUFFICES ASSUME NEW o \in Request PROVE Knows(request[o])'
    BY DEF RequestsKnow
  <2> PICK q : q = request'[o]
    OBVIOUS
  <2>1. Knows(q)
    BY <1>2, IdleKnows DEF Inv, RequestsKnow
  <2>2. QED
    BY <2>1, <1>4 DEF Knows, RowsExist, NotIssued
<1>10. OverlapsRaced'
  <2>1. \A x \in Row0 : ~WorksOn(Idle, token, x)
    BY SessionsAssumption DEF WorksOn, Idle, Row0, Account
  <2>2. QED
    BY <1>2, <2>1 DEF Inv, OverlapsRaced
<1>11. OneSuccessor' /\ SignedOut' /\ AdminsStay'
  BY DEF Inv, OneSuccessor, SignedOut, Usable, AdminsStay
<1>12. QED
  BY <1>6, <1>7, <1>8, <1>9, <1>10, <1>11 DEF Inv

\* Rows of refresh_tokens and of accounts change in a single statement: tokens
\* are revoked or expire, accounts A are switched off or on.
LEMMA RevokeKeeps ==
  ASSUME Inv, UNCHANGED <<code, sent, stranded, request, begun>>,
         token' \in [Token -> [row : Row, owner : Account \cup {None},
                               from : Code \cup Token \cup {None},
                               used : BOOLEAN, revoked : BOOLEAN]],
         \A t \in Token : /\ token'[t].owner = token[t].owner /\ token'[t].from = token[t].from
                          /\ token'[t].used = token[t].used
                          /\ token'[t].row = "none" <=> token[t].row = "none"
                          /\ Usable(t)' => Usable(t),
         account' \in [Account -> [made : BOOLEAN, active : BOOLEAN, deleted : BOOLEAN,
                                   ids : SUBSET Identity]],
         \A a \in Account : account'[a].made = account[a].made,
         \A a \in Admin : account'[a].deleted = account[a].deleted,
         raced \subseteq raced', raced' \subseteq Row0,
         \A a \in Account :
           \/ account'[a].active = account[a].active /\ account'[a].deleted = account[a].deleted
           \/ account'[a].active /\ account'[a].deleted = account[a].deleted
           \/ /\ \A o \in Request : WorksOn(request[o], token, a) => a \in raced'
              /\ \A t \in Token : token[t].owner = a => ~Usable(t)'
  PROVE  Inv'
<1>1. /\ TypeOK /\ request \in [Request -> RequestState] /\ begun \in Nat
      /\ token \in [Token -> [row : Row, owner : Account \cup {None},
                               from : Code \cup Token \cup {None},
                               used : BOOLEAN, revoked : BOOLEAN]]
  BY RequestType DEF Inv
<1>2. TypeOK'
  BY <1>1, RequestType DEF TypeOK, RequestState, Row0
<1>3. Shapes'
  BY DEF Inv, Shapes
<1>4. TokensExist'
  BY <1>1 DEF Inv, TokensExist
<1>5. RequestsKnow'
  <2> SUFFICES ASSUME NEW o \in Request PROVE Knows(request[o])'
    BY DEF RequestsKnow
  <2> DEFINE q == request[o]
  <2>1. Knows(q) /\ Shape(q) /\ q \in RequestState
    BY <1>1 DEF Inv, RequestsKnow, Shapes
  <2>2. RowsExist(q)'
    BY <2>1, <1>1 DEF Knows, RowsExist, RequestState
  <2>3. (q.phase \in {"code", "token", "known"} /\ q.from \in Code \cup Token /\ q.from \notin raced')
          => NotIssued(q.from)'
    BY <2>1 DEF Knows, NotIssued
  <2>4. (q.phase = "token" /\ token'[q.from].owner \notin raced')
          => ~account'[token'[q.from].owner].deleted
    <3> SUFFICES ASSUME q.phase = "token", token'[q.from].owner \notin raced'
                 PROVE  ~account'[token'[q.from].owner].deleted
      OBVIOUS
    <3>1. q.from \in Token /\ token[q.from].row # "none"
      BY <2>1 DEF Shape, Knows, RowsExist
    <3> DEFINE a == token[q.from].owner
    <3>2. a \in Account /\ token'[q.from].owner = a
      BY <3>1 DEF Inv, TokensExist
    <3>3. WorksOn(q, token, a)
      BY <3>1, <3>2, SessionsAssumption DEF WorksOn, Account
    <3>4. ~account[a].deleted
      BY <2>1, <3>2 DEF Knows
    <3>5. QED
      BY <3>2, <3>3, <3>4
  <2>5. (q.phase = "known" /\ q.who # None /\ q.who \notin raced')
          => account'[q.who].active /\ ~account'[q.who].deleted
    <3> SUFFICES ASSUME q.phase = "known", q.who # None, q.who \notin raced'
                 PROVE  account'[q.who].active /\ ~account'[q.who].deleted
      OBVIOUS
    <3>1. q.who \in Account
      BY <2>1 DEF RequestState
    <3>2. WorksOn(q, token, q.who)
      BY DEF WorksOn
    <3>3. account[q.who].active /\ ~account[q.who].deleted
      BY <2>1 DEF Knows
    <3>4. QED
      BY <3>1, <3>2, <3>3
  <2>6. QED
    BY <2>2, <2>3, <2>4, <2>5 DEF Knows
<1>6. OverlapsRaced'
  <2> SUFFICES ASSUME NEW s \in Request, NEW o \in Request, s # o, NEW x \in Row0,
                      WorksOn(request[s], token', x), WorksOn(request[o], token', x)
               PROVE  x \in raced'
    BY DEF OverlapsRaced
  <2>1. WorksOn(request[s], token, x) /\ WorksOn(request[o], token, x)
    BY DEF WorksOn
  <2>2. QED
    BY <2>1 DEF Inv, OverlapsRaced
<1>7. OneSuccessor' /\ AdminsStay'
  BY DEF Inv, OneSuccessor, AdminsStay, Account
<1>8. SignedOut'
  <2> SUFFICES ASSUME NEW a \in Account, a \notin raced',
                      account'[a].made /\ (account'[a].deleted \/ ~account'[a].active),
                      NEW t \in Token, token'[t].owner = a
               PROVE  ~Usable(t)'
    BY DEF SignedOut
  <2>1. QED
    BY DEF Inv, SignedOut
<1>9. QED
  BY <1>2, <1>3, <1>4, <1>5, <1>6, <1>7, <1>8 DEF Inv

-----------------------------------------------------------------------------
(***************************************************************************)
(* A new refresh token is committed.                                       *)
(***************************************************************************)
LEMMA WriteType ==
  ASSUME TypeOK, NEW r \in RequestState, Shape(r), r.phase = "known", NEW u \in Account
  PROVE  /\ Write(r, u) \in [made : BOOLEAN, active : BOOLEAN, deleted : BOOLEAN,
                             ids : SUBSET Identity]
         /\ r.goal = "create" => Write(r, u).made /\ Write(r, u).active /\ ~Write(r, u).deleted
         /\ r.goal # "create" => /\ Write(r, u).made = account[u].made
                                 /\ Write(r, u).active = account[u].active
                                 /\ Write(r, u).deleted = account[u].deleted
<1> DEFINE AccountRow == [made : BOOLEAN, active : BOOLEAN, deleted : BOOLEAN, ids : SUBSET Identity]
<1>1. account[u] \in AccountRow
  BY RequestType
<1>2. CASE r.goal = "create"
  BY <1>2 DEF Write, Shape
<1>3. CASE r.goal = "attach"
  <2>1. (account[u].ids \ Email) \cup {r.id} \in SUBSET Identity
    BY <1>1, <1>3 DEF Shape
  <2>2. Write(r, u) = [account[u] EXCEPT !.ids = (account[u].ids \ Email) \cup {r.id}]
    BY <1>3, <1>1 DEF Write
  <2>3. QED
    BY <1>1, <1>3, <2>1, <2>2
<1>4. CASE r.goal \notin {"create", "attach"}
  BY <1>1, <1>4 DEF Write
<1>5. QED
  BY <1>2, <1>3, <1>4

LEMMA IssueKeeps ==
  ASSUME Inv, NEW s \in Request, Issue(s)
  PROVE  Inv'
<1> DEFINE r == request[s]
           new == Fresh(token)
           AccountRow == [made : BOOLEAN, active : BOOLEAN, deleted : BOOLEAN, ids : SUBSET Identity]
           TokenRow == [row : Row, owner : Account \cup {None}, from : Code \cup Token \cup {None},
                        used : BOOLEAN, revoked : BOOLEAN]
<1>1. /\ TypeOK /\ request \in [Request -> RequestState] /\ begun \in Nat
      /\ account \in [Account -> AccountRow] /\ token \in [Token -> TokenRow]
      /\ code \in [Code -> [row : Row, email : Email \cup {None}, used : BOOLEAN]]
  BY RequestType DEF Inv
<1>2. r \in RequestState /\ Shape(r) /\ Knows(r) /\ r.phase = "known"
  BY <1>1 DEF Inv, Shapes, RequestsKnow, Issue
<1>3. new \in Token /\ token[new].row = "none"
  BY <1>1, FreshToken DEF Issue
<1>4. PICK u \in Account :
       /\ IF r.goal = "create" THEN u \in User /\ ~account[u].made ELSE u = r.who
       /\ account' = [a \in Account |-> IF a = u THEN Write(r, u)
                                        ELSE IF r.goal = "merge" /\ a = r.source THEN MergedAway
                                        ELSE account[a]]
       /\ token' = [t \in Token |->
                      IF t = new
                      THEN [NoToken EXCEPT !.row = "kept", !.owner = u, !.from = r.from]
                      ELSE IF t = r.from
                           THEN [(IF r.goal = "merge" THEN Revoked({r.source}) ELSE token)[t] EXCEPT !.used = TRUE]
                           ELSE (IF r.goal = "merge" THEN Revoked({r.source}) ELSE token)[t]]
  BY DEF Issue
<1>5. /\ code' = [c \in Code |-> IF c \in r.codes THEN [code[c] EXCEPT !.used = TRUE] ELSE code[c]]
      /\ request' = [request EXCEPT ![s] = Idle] /\ UNCHANGED <<begun, raced, sent, stranded>>
  BY DEF Issue, Finish
<1>6. /\ token'[new] = [row |-> "kept", owner |-> u, from |-> r.from, used |-> FALSE, revoked |-> FALSE]
      /\ \A t \in Token \ {new} :
           /\ token'[t] \in TokenRow
           /\ token'[t].row = token[t].row /\ token'[t].owner = token[t].owner
           /\ token'[t].from = token[t].from
           /\ token'[t].used = (token[t].used \/ t = r.from)
           /\ token'[t].revoked = (token[t].revoked \/ (r.goal = "merge" /\ token[t].owner = r.source))
  <2>1. token'[new] = [NoToken EXCEPT !.row = "kept", !.owner = u, !.from = r.from]
    BY <1>3, <1>4
  <2>2. ASSUME NEW t \in Token \ {new}
        PROVE  /\ token'[t] \in TokenRow
               /\ token'[t].row = token[t].row /\ token'[t].owner = token[t].owner
               /\ token'[t].from = token[t].from
               /\ token'[t].used = (token[t].used \/ t = r.from)
               /\ token'[t].revoked = (token[t].revoked \/ (r.goal = "merge" /\ token[t].owner = r.source))
    <3> DEFINE kept == (IF r.goal = "merge" THEN Revoked({r.source}) ELSE token)[t]
    <3>1. token[t] \in TokenRow
      BY <1>1
    <3>2. /\ kept \in TokenRow /\ kept.row = token[t].row /\ kept.owner = token[t].owner
          /\ kept.from = token[t].from /\ kept.used = token[t].used
          /\ kept.revoked = (token[t].revoked \/ (r.goal = "merge" /\ token[t].owner = r.source))
      BY <3>1 DEF Revoked
    <3>3. token'[t] = IF t = r.from THEN [kept EXCEPT !.used = TRUE] ELSE kept
      BY <1>4
    <3> HIDE DEF kept
    <3>4. QED
      BY <3>1, <3>2, <3>3
  <2>3. QED
    BY <2>1, <2>2 DEF NoToken
<1>7. r.from \in Code \cup Token \cup {None}
  BY <1>2 DEF RequestState
<1>8. token' \in [Token -> TokenRow]
  <2>1. token'[new] \in TokenRow
    BY <1>3, <1>6, <1>7 DEF Row
  <2>2. token' = [t \in Token |-> token'[t]]
    BY <1>4
  <2>3. QED
    BY <1>6, <2>1, <2>2
<1>9. \A a \in Account : a # u => account'[a] = IF r.goal = "merge" /\ a = r.source THEN MergedAway ELSE account[a]
  BY <1>4
<1>10. /\ account'[u] = Write(r, u)
       /\ r.goal = "create" => account'[u].made /\ account'[u].active /\ ~account'[u].deleted
       /\ r.goal # "create" => /\ account'[u].made = account[u].made
                               /\ account'[u].active = account[u].active
                               /\ account'[u].deleted = account[u].deleted
  BY <1>1, <1>2, <1>4, WriteType
<1>11. account' \in [Account -> AccountRow]
  BY <1>1, <1>2, <1>4, WriteType DEF MergedAway
<1>12. \A c \in Code : /\ code'[c].row = code[c].row /\ (code[c].used => code'[c].used)
                       /\ (c \in r.codes => code'[c].used)
                       /\ code'[c] \in [row : Row, email : Email \cup {None}, used : BOOLEAN]
  <2> SUFFICES ASSUME NEW c \in Code
               PROVE  /\ code'[c].row = code[c].row /\ (code[c].used => code'[c].used)
                      /\ (c \in r.codes => code'[c].used)
                      /\ code'[c] \in [row : Row, email : Email \cup {None}, used : BOOLEAN]
    OBVIOUS
  <2>1. code[c] \in [row : Row, email : Email \cup {None}, used : BOOLEAN]
    BY <1>1
  <2>2. code'[c] = IF c \in r.codes THEN [code[c] EXCEPT !.used = TRUE] ELSE code[c]
    BY <1>5
  <2>3. QED
    BY <2>1, <2>2
<1>13. code' \in [Code -> [row : Row, email : Email \cup {None}, used : BOOLEAN]]
  BY <1>5, <1>12
<1> HIDE DEF r, new
<1>14. \A o \in Request : request'[o] = IF o = s THEN Idle ELSE request[o]
  BY <1>1, <1>5
<1>15. TypeOK'
  <2>1. request' \in [Request -> RequestState]
    BY <1>1, <1>5, IdleState
  <2>2. QED
    BY <1>1, <1>5, <1>8, <1>11, <1>13, <2>1, RequestType DEF TypeOK, RequestState, Row0
<1>16. Shapes'
  BY <1>14, IdleState DEF Inv, Shapes
<1>17. \A a \in Account : account[a].made => account'[a].made
  <2> SUFFICES ASSUME NEW a \in Account, account[a].made PROVE account'[a].made
    OBVIOUS
  <2>1. CASE a = u
    BY <2>1, <1>10
  <2>2. CASE a # u
    <3>1. MergedAway.made
      BY DEF MergedAway
    <3>2. QED
      BY <2>2, <3>1, <1>9
  <2>3. QED
    BY <2>1, <2>2
<1>18. u # None /\ account'[u].made
  BY <1>2, <1>4, <1>10, SessionsAssumption DEF Knows, RowsExist, Shape, Account
<1>19. TokensExist'
  <2> SUFFICES ASSUME NEW t \in Token, token'[t].row # "none"
               PROVE  /\ token'[t].owner \in Account /\ account'[token'[t].owner].made
                      /\ token'[t].from \in Token =>
                           token'[token'[t].from].row # "none" /\ token'[token'[t].from].used
                      /\ token'[t].from \in Code =>
                           code'[token'[t].from].row # "none" /\ code'[token'[t].from].used
    BY DEF TokensExist
  <2>1. CASE t = new
    <3>1. r.from \in Token => r.from # new /\ token[r.from].row # "none"
      BY <1>2, <1>3 DEF Knows, RowsExist
    <3>2. r.from \in Code => code[r.from].row # "none" /\ r.from \in r.codes
      BY <1>2 DEF Knows, RowsExist, Shape
    <3>3. QED
      BY <2>1, <3>1, <3>2, <1>6, <1>12, <1>18
  <2>2. CASE t # new
    <3>1. /\ token[t].row # "none" /\ token'[t].owner = token[t].owner
          /\ token'[t].from = token[t].from
      BY <2>2, <1>6
    <3>2. token[t].from \in Token => token[t].from # new
      BY <3>1, <1>3 DEF Inv, TokensExist
    <3>3. QED
      BY <3>1, <3>2, <1>6, <1>12, <1>17 DEF Inv, TokensExist
  <2>3. QED
    BY <2>1, <2>2
<1>20. ASSUME NEW o \in Request, o # s
       PROVE  /\ request[o] \in RequestState /\ Shape(request[o]) /\ Knows(request[o])
              /\ request[o].from # new \/ request[o].from \notin Token
              /\ \A x : WorksOn(request[o], token', x) <=> WorksOn(request[o], token, x)
  <2>1. request[o] \in RequestState /\ Shape(request[o]) /\ Knows(request[o])
    BY <1>1 DEF Inv, Shapes, RequestsKnow
  <2>2. request[o].from # new \/ request[o].from \notin Token
    BY <2>1, <1>3 DEF Knows, RowsExist
  <2>3. QED
    BY <2>1, <2>2, <1>6 DEF WorksOn
<1>21. \A o \in Request : o # s => \A x \in Row0 :
         WorksOn(r, token, x) /\ WorksOn(request[o], token, x) => x \in raced
  BY DEF Inv, OverlapsRaced, r
<1>22. RequestsKnow'
  <2> SUFFICES ASSUME NEW o \in Request PROVE Knows(request[o])'
    BY DEF RequestsKnow
  <2> PICK q : q = request'[o]
    OBVIOUS
  <2>1. CASE o = s
    <3>1. q = Idle
      BY <2>1, <1>14
    <3>2. QED
      BY <3>1, SessionsAssumption DEF Idle, Knows, RowsExist, Account
  <2>2. CASE o # s
    <3>1. /\ q = request[o] /\ q \in RequestState /\ Shape(q) /\ Knows(q)
          /\ q.from # new \/ q.from \notin Token
      BY <2>2, <1>14, <1>20
    <3>2. RowsExist(q)'
      BY <3>1, <1>6, <1>12, <1>17 DEF Knows, RowsExist, RequestState
    <3>3. (q.phase \in {"code", "token", "known"} /\ q.from \in Code \cup Token /\ q.from \notin raced')
            => NotIssued(q.from)'
      <4> SUFFICES ASSUME q.phase \in {"code", "token", "known"}, q.from \in Code \cup Token,
                          q.from \notin raced
                   PROVE  \A t \in Token : token'[t].row # "none" => token'[t].from # q.from
        BY <1>5 DEF NotIssued
      <4>1. NotIssued(q.from)
        BY <3>1 DEF Knows
      <4>2. q.from # r.from
        BY <2>2, <3>1, <1>21, SessionsAssumption DEF WorksOn, Row0
      <4>3. QED
        BY <4>1, <4>2, <1>6 DEF NotIssued
    <3>4. ASSUME NEW a \in Account, a \notin raced, account[a].made, WorksOn(q, token, a)
          PROVE  /\ account[a].deleted = FALSE => account'[a].deleted = FALSE
                 /\ account[a].active => account'[a].active
      <4>1. CASE a = u
        BY <4>1, <3>4, <1>2, <1>4, <1>10, <1>1
      <4>2. CASE a # u
        <5>1. ~(r.goal = "merge" /\ a = r.source)
          <6> SUFFICES ASSUME a = r.source, r.goal = "merge" PROVE FALSE
            OBVIOUS
          <6>1. WorksOn(r, token, a)
            BY <1>2, SessionsAssumption DEF WorksOn, Account
          <6>2. QED
            BY <2>2, <3>1, <3>4, <6>1, <1>21 DEF Row0
        <5>2. QED
          BY <4>2, <5>1, <1>9
      <4>3. QED
        BY <4>1, <4>2
    <3>5. (q.phase = "token" /\ token'[q.from].owner \notin raced')
            => ~account'[token'[q.from].owner].deleted
      <4> SUFFICES ASSUME q.phase = "token", token'[q.from].owner \notin raced
                   PROVE  ~account'[token'[q.from].owner].deleted
        BY <1>5
      <4>1. q.from \in Token \ {new} /\ token[q.from].row # "none"
        BY <3>1 DEF Shape, Knows, RowsExist
      <4> DEFINE a == token[q.from].owner
      <4>2. a \in Account /\ token'[q.from].owner = a /\ account[a].made
        BY <4>1, <1>6 DEF Inv, TokensExist
      <4>3. WorksOn(q, token, a)
        BY <4>1, <4>2, SessionsAssumption DEF WorksOn, Account
      <4>4. ~account[a].deleted /\ account[a].deleted \in BOOLEAN
        BY <3>1, <4>2, <1>1 DEF Knows
      <4>5. QED
        BY <4>2, <4>3, <4>4, <3>4
    <3>6. (q.phase = "known" /\ q.who # None /\ q.who \notin raced')
            => account'[q.who].active /\ ~account'[q.who].deleted
      <4> SUFFICES ASSUME q.phase = "known", q.who # None, q.who \notin raced
                   PROVE  account'[q.who].active /\ ~account'[q.who].deleted
        BY <1>5
      <4>1. q.who \in Account /\ account[q.who].made
        BY <3>1 DEF RequestState, Knows, RowsExist
      <4>2. WorksOn(q, token, q.who)
        BY DEF WorksOn
      <4>3. account[q.who].active /\ ~account[q.who].deleted /\ account[q.who].deleted \in BOOLEAN
        BY <3>1, <4>1, <1>1 DEF Knows
      <4>4. QED
        BY <4>1, <4>2, <4>3, <3>4
    <3>7. QED
      BY <3>1, <3>2, <3>3, <3>5, <3>6 DEF Knows
  <2>3. QED
    BY <2>1, <2>2
<1>23. OverlapsRaced'
  <2>1. \A x \in Row0 : \A t : ~WorksOn(Idle, t, x)
    BY SessionsAssumption DEF WorksOn, Idle, Row0, Account
  <2> SUFFICES ASSUME NEW k \in Request, NEW o \in Request, k # o, NEW x \in Row0,
                      WorksOn(request'[k], token', x), WorksOn(request'[o], token', x)
               PROVE  x \in raced
    BY <1>5 DEF OverlapsRaced
  <2>2. k # s /\ o # s
    BY <2>1, <1>14
  <2>3. WorksOn(request[k], token, x) /\ WorksOn(request[o], token, x)
    BY <2>2, <1>14, <1>20
  <2>4. QED
    BY <2>3 DEF Inv, OverlapsRaced
<1>24. OneSuccessor'
  <2> SUFFICES ASSUME NEW t \in Token, NEW v \in Token,
                      token'[t].row # "none", token'[v].row # "none",
                      token'[t].from = token'[v].from, token'[t].from \in Code \cup Token,
                      token'[t].from \notin raced
               PROVE  t = v
    BY <1>5 DEF OneSuccessor
  <2>1. CASE t # new /\ v # new
    BY <2>1, <1>6 DEF Inv, OneSuccessor
  <2>2. CASE t = new \/ v = new
    <3>1. token'[t].from = r.from
      BY <2>2, <1>6
    <3>2. NotIssued(r.from)
      BY <3>1, <1>2 DEF Knows
    <3>3. \A w \in Token \ {new} : token'[w].row = token[w].row /\ token'[w].from = token[w].from
      BY <1>6
    <3>4. \A w \in Token \ {new} : token'[w].row = "none" \/ token'[w].from # r.from
      BY <3>2, <3>3 DEF NotIssued
    <3>5. CASE t = new /\ v # new
      BY <3>1, <3>4, <3>5
    <3>6. CASE v = new /\ t # new
      BY <3>1, <3>4, <3>6
    <3>7. QED
      BY <2>2, <3>5, <3>6
  <2>3. QED
    BY <2>1, <2>2
<1>25. SignedOut'
  <2> SUFFICES ASSUME NEW a \in Account, a \notin raced,
                      account'[a].made, account'[a].deleted \/ ~account'[a].active,
                      NEW t \in Token, token'[t].owner = a
               PROVE  ~Usable(t)'
    BY <1>5 DEF SignedOut
  <2>1. CASE t = new
    <3>1. a = u
      BY <2>1, <1>6
    <3>2. r.goal # "create" /\ u = r.who
      BY <3>1, <1>2, <1>4, <1>10
    <3>3. account[u].active /\ ~account[u].deleted
      BY <3>1, <3>2, <1>2, <1>18 DEF Knows
    <3>4. QED
      BY <3>1, <3>2, <3>3, <1>2, <1>10
  <2>2. CASE t # new
    <3>1. token[t].owner = a /\ token'[t].row = token[t].row
      BY <2>2, <1>6
    <3>2. CASE a = u
      <4>1. CASE r.goal = "create"
        BY <4>1, <3>1, <3>2, <1>4 DEF Inv, TokensExist, Usable
      <4>2. CASE r.goal # "create"
        <5>1. account[a].made /\ (account[a].deleted \/ ~account[a].active)
          BY <4>2, <3>2, <1>2, <1>10
        <5>2. ~Usable(t)
          BY <5>1, <3>1 DEF Inv, SignedOut
        <5>3. QED
          BY <5>2, <2>2, <1>6 DEF Usable
      <4>3. QED
        BY <4>1, <4>2
    <3>3. CASE a # u /\ r.goal = "merge" /\ a = r.source
      BY <3>1, <3>3, <2>2, <1>6 DEF Usable
    <3>4. CASE a # u /\ ~(r.goal = "merge" /\ a = r.source)
      <4>1. account'[a] = account[a]
        BY <3>4, <1>9
      <4>2. ~Usable(t)
        BY <4>1, <3>1 DEF Inv, SignedOut
      <4>3. QED
        BY <4>2, <2>2, <1>6 DEF Usable
    <3>5. QED
      BY <3>2, <3>3, <3>4
  <2>3. QED
    BY <2>1, <2>2
<1>26. AdminsStay'
  <2> SUFFICES ASSUME NEW a \in Admin PROVE account'[a].made /\ ~account'[a].deleted
    BY DEF AdminsStay
  <2>1. a \in Account /\ a \notin User /\ account[a].made /\ ~account[a].deleted
    BY SessionsAssumption DEF Account, Inv, AdminsStay
  <2>2. CASE a = u
    BY <2>1, <2>2, <1>4, <1>10
  <2>3. CASE a # u
    BY <2>1, <2>3, <1>2, <1>9, SessionsAssumption DEF Shape
  <2>4. QED
    BY <2>2, <2>3
<1>27. QED
  BY <1>15, <1>16, <1>19, <1>22, <1>23, <1>24, <1>25, <1>26 DEF Inv

-----------------------------------------------------------------------------
(***************************************************************************)
(* Every action.                                                           *)
(***************************************************************************)
LEMMA InitInv == Init => Inv
<1> SUFFICES ASSUME Init PROVE Inv
  OBVIOUS
<1>1. TypeOK
  <2>1. request \in [Request -> RequestState]
    BY IdleState DEF Init
  <2>2. account \in [Account -> [made : BOOLEAN, active : BOOLEAN, deleted : BOOLEAN,
                                 ids : SUBSET Identity]]
    <3>1. {{}} \cup {{e} : e \in Email} \subseteq SUBSET Identity
      BY DEF Identity
    <3>2. account \in [Account -> [made : BOOLEAN, active : BOOLEAN, deleted : {FALSE},
                                  ids : {{}} \cup {{e} : e \in Email}]]
      BY DEF Init
    <3>3. QED
      BY <3>1, <3>2
  <2>3. QED
    BY <2>1, <2>2, RequestType DEF Init, NoCode, NoToken, Row
<1>2. \A s \in Request : request[s] = Idle
  BY DEF Init
<1>3. \A t \in Token : token[t] = NoToken
  BY DEF Init
<1>7. AdminsStay
  BY DEF Init, AdminsStay, Account
<1>4. Shapes /\ RequestsKnow
  BY <1>2, IdleState, IdleKnows DEF Shapes, RequestsKnow
<1>5. TokensExist /\ OneSuccessor /\ SignedOut
  BY <1>3 DEF TokensExist, OneSuccessor, SignedOut, NoToken, Usable
<1>6. OverlapsRaced
  BY <1>2, SessionsAssumption DEF OverlapsRaced, WorksOn, Idle, Row0, Account
<1>8. QED
  BY <1>1, <1>4, <1>7, <1>5, <1>6 DEF Inv

LEMMA BeginKeeps ==
  ASSUME Inv, NEW s \in Request, NEW r \in RequestState, Begin(s, r), Shape(r), Knows(r),
         UNCHANGED <<account, code, token>>,
         (sent' \in [Email -> [count : Nat, ttl : BOOLEAN]] /\ stranded' \subseteq Email)
  PROVE  Inv'
<1>1. begun' \in Nat
  BY RequestType DEF Inv, Begin
<1>2. QED
  BY <1>1, MoveKeeps DEF Begin

LEMMA ProceedKeeps ==
  ASSUME Inv, NEW s \in Request, NEW r \in RequestState, Proceed(s, r), Shape(r), Knows(r),
         UNCHANGED <<account, code, token>>,
         (sent' \in [Email -> [count : Nat, ttl : BOOLEAN]] /\ stranded' \subseteq Email)
  PROVE  Inv'
<1>1. begun' \in Nat
  BY RequestType DEF Inv, Proceed
<1>2. QED
  BY <1>1, MoveKeeps DEF Proceed

\* What the invariant says of a request at work.
LEMMA AtWork ==
  ASSUME Inv, NEW s \in Request
  PROVE  request[s] \in RequestState /\ Shape(request[s]) /\ Knows(request[s])
  BY RequestType DEF Inv, Shapes, RequestsKnow

LEMMA CountSendKeeps ==
  ASSUME Inv, NEW s \in Request, NEW e \in Email, CountSend(s, e)
  PROVE  Inv'
<1>1. sent \in [Email -> [count : Nat, ttl : BOOLEAN]] /\ stranded \subseteq Email
  BY RequestType DEF Inv
<1>2. (sent' \in [Email -> [count : Nat, ttl : BOOLEAN]] /\ stranded' \subseteq Email)
  BY <1>1 DEF CountSend
<1> DEFINE r == [Idle EXCEPT !.phase = "counted", !.id = e, !.n = sent'[e].count]
<1>3. r \in RequestState
  BY <1>2 DEF Idle, RequestState, Phase, Goal, Identity
<1>4. Shape(r)
  BY DEF Idle, Shape
<1>5. Knows(r)
  BY SessionsAssumption DEF Idle, Knows, RowsExist
<1>6. Begin(s, r) /\ UNCHANGED <<account, code, token>>
  BY DEF CountSend
<1> HIDE DEF r
<1>7. QED
  BY <1>2, <1>3, <1>4, <1>5, <1>6, BeginKeeps

LEMMA StartWindowKeeps ==
  ASSUME Inv, NEW s \in Request, StartWindow(s)
  PROVE  Inv'
<1>1. sent \in [Email -> [count : Nat, ttl : BOOLEAN]] /\ stranded \subseteq Email
  BY RequestType DEF Inv
<1>2. (sent' \in [Email -> [count : Nat, ttl : BOOLEAN]] /\ stranded' \subseteq Email)
  BY <1>1 DEF StartWindow
<1>3. UNCHANGED <<account, code, token>>
  BY DEF StartWindow
<1>4. CASE Finish(s)
  BY <1>2, <1>3, <1>4, FinishKeeps
<1>5. CASE ~Finish(s)
  <2> DEFINE q == request[s]
             r == [q EXCEPT !.phase = "limited"]
  <2>1. Proceed(s, r) /\ q.phase = "counted"
    BY <1>5 DEF StartWindow
  <2>2. r \in RequestState /\ Shape(r)
    BY <2>1, AtWork DEF RequestState, Phase, Shape
  <2>3. Knows(r)
    BY AtWork DEF RequestState, Knows, RowsExist
  <2> HIDE DEF r, q
  <2>4. QED
    BY <2>1, <2>2, <2>3, <1>2, <1>3, ProceedKeeps
<1>6. QED
  BY <1>4, <1>5

LEMMA SendCodeKeeps ==
  ASSUME Inv, NEW s \in Request, SendCode(s)
  PROVE  Inv'
<1> DEFINE new == [NoCode EXCEPT !.row = "kept", !.email = request[s].id]
<1>1. new \in [row : Row, email : Email \cup {None}, used : BOOLEAN] /\ new.row # "none"
  BY AtWork DEF SendCode, Shape, NoCode, Row
<1>2. Fresh(code) \in Code /\ code[Fresh(code)].row = "none"
  BY RequestType, FreshCode DEF Inv, SendCode
<1>3. /\ code' = [code EXCEPT ![Fresh(code)] = new]
      /\ Finish(s) /\ UNCHANGED <<account, token, sent, stranded, raced>>
  BY DEF SendCode, Finish
<1> HIDE DEF new
<1>4. QED
  BY <1>1, <1>2, <1>3, CodeKeeps

LEMMA CodeExpiresKeeps ==
  ASSUME Inv, NEW c \in Code, CodeExpires(c)
  PROVE  Inv'
<1> DEFINE new == [code[c] EXCEPT !.row = "expired"]
<1>1. code \in [Code -> [row : Row, email : Email \cup {None}, used : BOOLEAN]]
  BY RequestType DEF Inv
<1>2. /\ new \in [row : Row, email : Email \cup {None}, used : BOOLEAN]
      /\ new.row # "none" /\ new.used = code[c].used
  BY <1>1 DEF Row
<1>3. /\ code' = [code EXCEPT ![c] = new]
      /\ UNCHANGED <<account, token, sent, stranded, raced, request, begun>>
  BY DEF CodeExpires
<1> HIDE DEF new
<1>4. QED
  BY <1>2, <1>3, CodeKeeps

LEMMA EnterCodeKeeps ==
  ASSUME Inv, NEW s \in Request, NEW e \in Email, NEW c \in Code, NEW u \in User \cup {None},
         EnterCode(s, e, c, u)
  PROVE  Inv'
<1> DEFINE r == [Idle EXCEPT !.phase = "code", !.from = c, !.codes = ActiveCodes(e),
                             !.id = e, !.source = u]
<1>1. c \in ActiveCodes(e) /\ ActiveCodes(e) \subseteq Code
  BY DEF EnterCode, ActiveCodes
<1>2. r \in RequestState
  BY <1>1 DEF Idle, RequestState, Phase, Goal, Identity, Account
<1>3. Shape(r)
  BY <1>1 DEF Idle, Shape
<1>4. code[c].row # "none" /\ ~code[c].used
  BY <1>1 DEF ActiveCodes
<1>5. NotIssued(c)
  BY <1>4 DEF Inv, TokensExist, NotIssued
<1>6. Knows(r)
  BY <1>4, <1>5, SessionsAssumption DEF Idle, Knows, RowsExist, EnterCode
<1>7. /\ Begin(s, r) /\ UNCHANGED <<account, code, token>>
      /\ (sent' \in [Email -> [count : Nat, ttl : BOOLEAN]] /\ stranded' \subseteq Email)
  BY RequestType DEF EnterCode, Inv
<1> HIDE DEF r
<1>8. QED
  BY <1>2, <1>3, <1>6, <1>7, BeginKeeps

LEMMA MistypeCodeKeeps ==
  ASSUME Inv, NEW s \in Request, NEW e \in Email, MistypeCode(s, e)
  PROVE  Inv'
<1> PICK c \in ActiveCodes(e) :
      Begin(s, [Idle EXCEPT !.phase = "raised", !.codes = {c}, !.id = e])
  BY DEF MistypeCode
<1> DEFINE r == [Idle EXCEPT !.phase = "raised", !.codes = {c}, !.id = e]
<1>1. r \in RequestState
  BY DEF Idle, RequestState, Phase, Goal, Identity, ActiveCodes
<1>2. Shape(r) /\ Knows(r)
  BY SessionsAssumption DEF Idle, Shape, Knows, RowsExist
<1>3. /\ Begin(s, r) /\ UNCHANGED <<account, code, token>>
      /\ (sent' \in [Email -> [count : Nat, ttl : BOOLEAN]] /\ stranded' \subseteq Email)
  BY RequestType DEF MistypeCode, Inv
<1> HIDE DEF r
<1>4. QED
  BY <1>1, <1>2, <1>3, BeginKeeps

\* What a request knew of its code or token when it has found the account too.
LEMMA KnownNext ==
  ASSUME NEW q \in RequestState, NEW r \in RequestState, Shape(q), Knows(q),
         q.phase \in {"code", "token"}, r.phase = "known", r.from = q.from, r.codes = q.codes,
         r.who # None => /\ r.who \in Account /\ account[r.who].made
                         /\ r.who \notin raced => account[r.who].active /\ ~account[r.who].deleted,
         r.source # None => r.source = q.source,
         r.goal \in {"create", "attach"} => r.id \in Identity,
         r.goal # "create" => r.who \in Account,
         r.goal = "merge" => r.source \in Account /\ r.source # r.who
  PROVE  Shape(r) /\ Knows(r)
<1>1. Shape(r)
  BY SessionsAssumption DEF Shape
<1>2. Knows(r)
  BY DEF Knows, RowsExist
<1>3. QED
  BY <1>1, <1>2

LEMMA RecogniseKeeps ==
  ASSUME Inv, NEW s \in Request, Recognise(s)
  PROVE  Inv'
<1> DEFINE q == request[s]
<1>1. q \in RequestState /\ Shape(q) /\ Knows(q) /\ q.phase = "code" /\ q.id \in Identity
  BY AtWork DEF Recognise, Shape, Identity
<1>2. PICK r : /\ Proceed(s, r)
               /\ \/ \E u \in Holders(q.id) :
                       account[u].active /\ r = [q EXCEPT !.phase = "known", !.who = u]
                  \/ r = [q EXCEPT !.phase = "known", !.goal = "create"]
  BY DEF Recognise
<1>3. /\ UNCHANGED <<account, code, token>>
      /\ (sent' \in [Email -> [count : Nat, ttl : BOOLEAN]] /\ stranded' \subseteq Email)
  BY RequestType DEF Recognise, Inv
<1>4. q.source = None
  BY DEF Recognise
<1>5. CASE r = [q EXCEPT !.phase = "known", !.goal = "create"]
  <2>1. /\ r \in RequestState /\ r.phase = "known" /\ r.from = q.from /\ r.codes = q.codes
        /\ r.who = None /\ r.source = q.source /\ r.goal = "create" /\ r.id = q.id
    BY <1>1, <1>5 DEF RequestState, Phase, Goal, Shape
  <2> HIDE DEF q
  <2>2. Shape(r) /\ Knows(r)
    BY <1>1, <2>1, KnownNext
  <2>3. QED
    BY <1>2, <1>3, <2>1, <2>2, ProceedKeeps
<1>6. ASSUME NEW u \in Holders(q.id), account[u].active,
             r = [q EXCEPT !.phase = "known", !.who = u]
      PROVE  Inv'
  <2>1. u \in Account /\ account[u].made /\ account[u].active /\ ~account[u].deleted
    BY <1>6 DEF Holders, Live, Account
  <2>2. /\ r \in RequestState /\ r.phase = "known" /\ r.from = q.from /\ r.codes = q.codes
        /\ r.who = u /\ r.source = q.source /\ r.goal = "login" /\ r.id = q.id
    BY <1>1, <1>6, <2>1 DEF RequestState, Phase, Shape
  <2> HIDE DEF q
  <2>3. Shape(r) /\ Knows(r)
    BY <1>1, <2>1, <2>2, KnownNext
  <2>4. QED
    BY <1>2, <1>3, <2>2, <2>3, ProceedKeeps
<1>7. QED
  BY <1>2, <1>5, <1>6

LEMMA RecogniseLinkKeeps ==
  ASSUME Inv, NEW s \in Request, RecogniseLink(s)
  PROVE  Inv'
<1> DEFINE q == request[s]
<1>1. q \in RequestState /\ Shape(q) /\ Knows(q) /\ q.phase = "code" /\ q.id \in Identity
  BY AtWork DEF RecogniseLink, Shape, Identity
<1>2. q.source # None /\ Live(q.source) /\ account[q.source].active
  BY DEF RecogniseLink
<1>3. PICK r :
        /\ Proceed(s, r)
        /\ \/ r = [q EXCEPT !.phase = "known", !.goal = "attach", !.who = q.source, !.source = None]
           \/ \E target \in Holders(q.id) \ {q.source} :
                account[target].active /\ r = [q EXCEPT !.phase = "known", !.goal = "merge", !.who = target]
  BY DEF RecogniseLink
<1>4. /\ UNCHANGED <<account, code, token>>
      /\ (sent' \in [Email -> [count : Nat, ttl : BOOLEAN]] /\ stranded' \subseteq Email)
  BY RequestType DEF RecogniseLink, Inv
<1>5. CASE r = [q EXCEPT !.phase = "known", !.goal = "attach", !.who = q.source, !.source = None]
  <2>1. /\ r \in RequestState /\ r.phase = "known" /\ r.from = q.from /\ r.codes = q.codes
        /\ r.who = q.source /\ r.source = None /\ r.goal = "attach" /\ r.id = q.id
    BY <1>1, <1>5 DEF RequestState, Phase, Goal
  <2>2. q.source \in Account /\ account[q.source].made /\ ~account[q.source].deleted
    BY <1>1, <1>2 DEF RequestState, Live
  <2> HIDE DEF q
  <2>3. Shape(r) /\ Knows(r)
    BY <1>1, <1>2, <2>1, <2>2, KnownNext
  <2>4. QED
    BY <1>3, <1>4, <2>1, <2>3, ProceedKeeps
<1>6. ASSUME NEW u \in Holders(q.id) \ {q.source}, account[u].active,
             r = [q EXCEPT !.phase = "known", !.goal = "merge", !.who = u]
      PROVE  Inv'
  <2>1. u \in Account /\ account[u].made /\ account[u].active /\ ~account[u].deleted
    BY <1>6 DEF Holders, Live, Account
  <2>2. /\ r \in RequestState /\ r.phase = "known" /\ r.from = q.from /\ r.codes = q.codes
        /\ r.who = u /\ r.source = q.source /\ r.goal = "merge" /\ r.id = q.id
        /\ q.source \in Account /\ u # q.source
    BY <1>1, <1>2, <1>6, <2>1 DEF RequestState, Phase, Goal
  <2> HIDE DEF q
  <2>3. Shape(r) /\ Knows(r)
    BY <1>1, <2>1, <2>2, KnownNext
  <2>4. QED
    BY <1>3, <1>4, <2>2, <2>3, ProceedKeeps
<1>7. QED
  BY <1>3, <1>5, <1>6

LEMMA RegisterKeeps ==
  ASSUME Inv, NEW s \in Request, NEW d \in Device, Register(s, d)
  PROVE  Inv'
<1>1. PICK r :
        /\ Begin(s, r)
        /\ \/ \E u \in Holders(d) :
                account[u].active /\ r = [Idle EXCEPT !.phase = "known", !.id = d, !.who = u]
           \/ r = [Idle EXCEPT !.phase = "known", !.id = d, !.goal = "create"]
  BY DEF Register
<1>2. /\ UNCHANGED <<account, code, token>>
      /\ (sent' \in [Email -> [count : Nat, ttl : BOOLEAN]] /\ stranded' \subseteq Email)
  BY RequestType DEF Register, Inv
<1>3. CASE r = [Idle EXCEPT !.phase = "known", !.id = d, !.goal = "create"]
  <2>1. r \in RequestState /\ Shape(r) /\ Knows(r)
    BY <1>3, SessionsAssumption
    DEF Idle, RequestState, Phase, Goal, Identity, Account, Shape, Knows, RowsExist
  <2>2. QED
    BY <1>1, <1>2, <2>1, BeginKeeps
<1>4. ASSUME NEW u \in Holders(d), account[u].active,
             r = [Idle EXCEPT !.phase = "known", !.id = d, !.who = u]
      PROVE  Inv'
  <2>1. u \in Account /\ account[u].made /\ account[u].active /\ ~account[u].deleted
    BY <1>4 DEF Holders, Live, Account
  <2>2. r \in RequestState /\ Shape(r)
    BY <1>4, <2>1, SessionsAssumption DEF Idle, RequestState, Phase, Goal, Identity, Shape
  <2>3. Knows(r)
    BY <1>4, <2>1, SessionsAssumption DEF Idle, Knows, RowsExist
  <2>4. QED
    BY <1>1, <1>2, <2>2, <2>3, BeginKeeps
<1>5. QED
  BY <1>1, <1>3, <1>4

LEMMA LoginAdminKeeps ==
  ASSUME Inv, NEW s \in Request, NEW a \in Admin, LoginAdmin(s, a)
  PROVE  Inv'
<1> DEFINE r == [Idle EXCEPT !.phase = "known", !.who = a]
<1>1. a \in Account /\ account[a].made /\ account[a].active /\ ~account[a].deleted
  BY DEF LoginAdmin, Inv, AdminsStay, Account
<1>2. r \in RequestState /\ Shape(r)
  BY <1>1, SessionsAssumption DEF Idle, RequestState, Phase, Goal, Shape
<1>3. Knows(r)
  BY <1>1, SessionsAssumption DEF Idle, Knows, RowsExist
<1>4. /\ Begin(s, r) /\ UNCHANGED <<account, code, token>>
      /\ (sent' \in [Email -> [count : Nat, ttl : BOOLEAN]] /\ stranded' \subseteq Email)
  BY RequestType DEF LoginAdmin, Inv
<1> HIDE DEF r
<1>5. QED
  BY <1>2, <1>3, <1>4, BeginKeeps

\* An unused token that is found: nothing is issued for it, and its owner is
\* not deleted.
LEMMA EnterTokenKeeps ==
  ASSUME Inv, NEW s \in Request, NEW t \in Token, EnterToken(s, t)
  PROVE  Inv'
<1> DEFINE r == [Idle EXCEPT !.phase = IF token[t].used THEN "raised" ELSE "token", !.from = t]
<1>1. r \in RequestState /\ Shape(r)
  BY SessionsAssumption DEF Idle, RequestState, Phase, Goal, Shape
<1>2. token[t].row = "kept" /\ ~token[t].revoked
  BY DEF EnterToken
<1>3. ~token[t].used => NotIssued(t)
  BY DEF Inv, TokensExist, NotIssued
<1>4. ~token[t].used => (token[t].owner \notin raced => ~account[token[t].owner].deleted)
  BY <1>2 DEF Inv, TokensExist, SignedOut, Usable
<1>5. Knows(r)
  BY <1>2, <1>3, <1>4, SessionsAssumption DEF Idle, Knows, RowsExist
<1>6. /\ Begin(s, r) /\ UNCHANGED <<account, code, token>>
      /\ (sent' \in [Email -> [count : Nat, ttl : BOOLEAN]] /\ stranded' \subseteq Email)
  BY RequestType DEF EnterToken, Inv
<1> HIDE DEF r
<1>7. QED
  BY <1>1, <1>5, <1>6, BeginKeeps

LEMMA RecogniseTokenKeeps ==
  ASSUME Inv, NEW s \in Request, RecogniseToken(s)
  PROVE  Inv'
<1> DEFINE q == request[s]
           owner == token[q.from].owner
           r == [q EXCEPT !.phase = "known", !.who = owner]
<1>1. /\ q \in RequestState /\ Shape(q) /\ Knows(q) /\ q.phase = "token"
      /\ account[owner].made /\ account[owner].active
  BY AtWork DEF RecogniseToken
<1>2. q.from \in Token /\ token[q.from].row # "none" /\ q.goal = "login"
  BY <1>1 DEF Shape, Knows, RowsExist
<1>3. owner \in Account
  BY <1>2 DEF Inv, TokensExist
<1>4. owner \notin raced => ~account[owner].deleted
  BY <1>1 DEF Knows
<1>5. /\ r \in RequestState /\ r.phase = "known" /\ r.from = q.from /\ r.codes = q.codes
      /\ r.who = owner /\ r.source = q.source /\ r.goal = "login" /\ r.id = q.id
  BY <1>1, <1>2, <1>3 DEF RequestState, Phase
<1>6. /\ Proceed(s, r) /\ UNCHANGED <<account, code, token>>
      /\ (sent' \in [Email -> [count : Nat, ttl : BOOLEAN]] /\ stranded' \subseteq Email)
  BY RequestType DEF RecogniseToken, Inv
<1> HIDE DEF r, q, owner
<1>7. Shape(r) /\ Knows(r)
  BY <1>1, <1>3, <1>4, <1>5, KnownNext
<1>8. QED
  BY <1>5, <1>6, <1>7, ProceedKeeps

LEMMA RollbackKeeps ==
  ASSUME Inv, NEW s \in Request, Rollback(s)
  PROVE  Inv'
<1>1. /\ Finish(s) /\ UNCHANGED <<account, code, token>>
      /\ (sent' \in [Email -> [count : Nat, ttl : BOOLEAN]] /\ stranded' \subseteq Email)
  <2>1. Begins(request[s]) => request[s].id \in Email
    BY AtWork DEF Begins, Shape
  <2>2. QED
    BY <2>1, RequestType DEF Rollback, Inv
<1>2. QED
  BY <1>1, FinishKeeps

LEMMA StutterKeeps ==
  ASSUME Inv, UNCHANGED <<account, code, token, request, begun, raced>>,
         (sent' \in [Email -> [count : Nat, ttl : BOOLEAN]] /\ stranded' \subseteq Email)
  PROVE  Inv'
<1>1. TypeOK'
  BY RequestType DEF Inv, TypeOK, RequestState, Row0
<1>2. QED
  BY <1>1 DEF Inv, Shapes, AdminsStay, TokensExist, RequestsKnow, Knows, RowsExist, NotIssued,
              OverlapsRaced, OneSuccessor, SignedOut, Usable

\* The tokens after some have been revoked.
LEMMA RevokedType ==
  ASSUME TypeOK, NEW A
  PROVE  /\ Revoked(A) \in [Token -> [row : Row, owner : Account \cup {None},
                                      from : Code \cup Token \cup {None},
                                      used : BOOLEAN, revoked : BOOLEAN]]
         /\ \A t \in Token : /\ Revoked(A)[t].owner = token[t].owner
                             /\ Revoked(A)[t].from = token[t].from
                             /\ Revoked(A)[t].used = token[t].used
                             /\ Revoked(A)[t].row = token[t].row
                             /\ Revoked(A)[t].revoked = (token[t].revoked \/ token[t].owner \in A)
<1> DEFINE TokenRow == [row : Row, owner : Account \cup {None}, from : Code \cup Token \cup {None},
                        used : BOOLEAN, revoked : BOOLEAN]
<1>1. ASSUME NEW t \in Token
      PROVE  /\ Revoked(A)[t] \in TokenRow
             /\ Revoked(A)[t].owner = token[t].owner /\ Revoked(A)[t].from = token[t].from
             /\ Revoked(A)[t].used = token[t].used /\ Revoked(A)[t].row = token[t].row
             /\ Revoked(A)[t].revoked = (token[t].revoked \/ token[t].owner \in A)
  <2>1. token[t] \in TokenRow
    BY RequestType
  <2>2. Revoked(A)[t] = IF token[t].owner \in A THEN [token[t] EXCEPT !.revoked = TRUE] ELSE token[t]
    BY DEF Revoked
  <2>3. QED
    BY <2>1, <2>2
<1>2. Revoked(A) = [t \in Token |-> Revoked(A)[t]]
  BY DEF Revoked
<1>3. QED
  BY <1>1, <1>2

LEMMA TokenKeeps ==
  ASSUME Inv, NEW t \in Token, TokenExpires(t) \/ Logout(t)
  PROVE  Inv'
<1> DEFINE TokenRow == [row : Row, owner : Account \cup {None}, from : Code \cup Token \cup {None},
                        used : BOOLEAN, revoked : BOOLEAN]
<1>1. TypeOK /\ token \in [Token -> TokenRow] /\ UNCHANGED <<account, code, sent, stranded, request, begun, raced>>
  BY RequestType DEF Inv, TokenExpires, Logout
<1>2. PICK row \in TokenRow :
        /\ token' = [token EXCEPT ![t] = row]
        /\ row.owner = token[t].owner /\ row.from = token[t].from /\ row.used = token[t].used
        /\ row.row # "none" /\ token[t].row # "none"
        /\ \/ row.row = "expired"
           \/ row.revoked
  <2>1. CASE TokenExpires(t)
    <3> DEFINE new == [token[t] EXCEPT !.row = "expired"]
    <3>1. new \in TokenRow /\ token' = [token EXCEPT ![t] = new]
      BY <1>1, <2>1 DEF TokenExpires, Row
    <3>2. QED
      BY <3>1, <1>1, <2>1 DEF TokenExpires
  <2>2. CASE Logout(t)
    <3> DEFINE new == [token[t] EXCEPT !.revoked = TRUE]
    <3>1. new \in TokenRow /\ token' = [token EXCEPT ![t] = new]
      BY <1>1, <2>2 DEF Logout
    <3>2. QED
      BY <3>1, <1>1, <2>2 DEF Logout
  <2>3. QED
    BY <2>1, <2>2
<1>3. token' \in [Token -> TokenRow]
  BY <1>1, <1>2
<1>4. \A v \in Token : /\ token'[v].owner = token[v].owner /\ token'[v].from = token[v].from
                       /\ token'[v].used = token[v].used
                       /\ token'[v].row = "none" <=> token[v].row = "none"
                       /\ Usable(v)' => Usable(v)
  BY <1>1, <1>2 DEF Usable
<1>5. raced' \subseteq Row0 /\ account' \in [Account -> [made : BOOLEAN, active : BOOLEAN,
                                               deleted : BOOLEAN, ids : SUBSET Identity]]
  BY <1>1, RequestType
<1>6. QED
  BY <1>1, <1>3, <1>4, <1>5, RevokeKeeps

\* An account is switched off, on or anonymised: one that is not active any
\* more has its tokens revoked.
LEMMA AccountKeeps ==
  ASSUME Inv, NEW a \in Account,
         NEW row \in [made : BOOLEAN, active : BOOLEAN, deleted : BOOLEAN, ids : SUBSET Identity],
         account' = [account EXCEPT ![a] = row],
         row.made = account[a].made,
         a \in Admin => row.deleted = account[a].deleted,
         Meets({a}), UNCHANGED <<code, sent, stranded, request, begun>>,
         \/ token' = Revoked({a})
         \/ row.active /\ row.deleted = account[a].deleted /\ token' = token
  PROVE  Inv'
<1>1. /\ TypeOK
      /\ account \in [Account -> [made : BOOLEAN, active : BOOLEAN, deleted : BOOLEAN, ids : SUBSET Identity]]
      /\ token \in [Token -> [row : Row, owner : Account \cup {None},
                              from : Code \cup Token \cup {None},
                              used : BOOLEAN, revoked : BOOLEAN]]
  BY RequestType DEF Inv
<1>2. /\ raced \subseteq raced' /\ raced' \subseteq Row0
      /\ \A o \in Request : WorksOn(request[o], token, a) => a \in raced'
  BY <1>1, MeetsRaces DEF Row0
<1>3. /\ account' \in [Account -> [made : BOOLEAN, active : BOOLEAN, deleted : BOOLEAN, ids : SUBSET Identity]]
      /\ \A b \in Account : account'[b] = IF b = a THEN row ELSE account[b]
  BY <1>1
<1>4. \A b \in Account : account'[b].made = account[b].made
  BY <1>3
<1>5. \A b \in Admin : account'[b].deleted = account[b].deleted
  BY <1>3 DEF Account
<1>6. CASE token' = Revoked({a})
  <2>1. /\ token' \in [Token -> [row : Row, owner : Account \cup {None},
                                 from : Code \cup Token \cup {None},
                                 used : BOOLEAN, revoked : BOOLEAN]]
        /\ \A t \in Token : /\ token'[t].owner = token[t].owner /\ token'[t].from = token[t].from
                            /\ token'[t].used = token[t].used
                            /\ token'[t].row = "none" <=> token[t].row = "none"
                            /\ Usable(t)' => Usable(t)
        /\ \A t \in Token : token[t].owner = a => ~Usable(t)'
    BY <1>1, <1>6, RevokedType DEF Usable
  <2>2. \A b \in Account :
           \/ account'[b].active = account[b].active /\ account'[b].deleted = account[b].deleted
           \/ /\ \A o \in Request : WorksOn(request[o], token, b) => b \in raced'
              /\ \A t \in Token : token[t].owner = b => ~Usable(t)'
    BY <1>2, <1>3, <2>1
  <2>3. QED
    BY <1>2, <1>3, <1>4, <1>5, <2>1, <2>2, RevokeKeeps
<1>7. CASE row.active /\ row.deleted = account[a].deleted /\ token' = token
  <2>1. \A t \in Token : Usable(t)' => Usable(t)
    BY <1>7 DEF Usable
  <2>2. \A b \in Account :
           \/ account'[b].active = account[b].active /\ account'[b].deleted = account[b].deleted
           \/ account'[b].active /\ account'[b].deleted = account[b].deleted
    BY <1>3, <1>7
  <2>3. QED
    BY <1>1, <1>2, <1>3, <1>4, <1>5, <1>7, <2>1, <2>2, RevokeKeeps
<1>8. QED
  BY <1>6, <1>7

LEMMA SwitchKeeps ==
  ASSUME Inv, NEW a \in Account, SwitchOff(a) \/ SwitchOn(a)
  PROVE  Inv'
<1> DEFINE off == [account[a] EXCEPT !.active = FALSE]
           on  == [account[a] EXCEPT !.active = TRUE]
           AccountRow == [made : BOOLEAN, active : BOOLEAN, deleted : BOOLEAN, ids : SUBSET Identity]
<1>1. account \in [Account -> AccountRow]
  BY RequestType DEF Inv
<1>2. /\ off \in AccountRow /\ off.made = account[a].made /\ off.deleted = account[a].deleted
      /\ on \in AccountRow /\ on.made = account[a].made /\ on.deleted = account[a].deleted /\ on.active
  BY <1>1
<1>3. CASE SwitchOff(a)
  <2>1. /\ account' = [account EXCEPT ![a] = off] /\ token' = Revoked({a})
        /\ Meets({a}) /\ UNCHANGED <<code, sent, stranded, request, begun>>
    BY <1>1, <1>3 DEF SwitchOff
  <2> HIDE DEF off, on
  <2>2. QED
    BY <1>2, <2>1, AccountKeeps
<1>4. CASE SwitchOn(a)
  <2>1. /\ account' = [account EXCEPT ![a] = on] /\ token' = token
        /\ Meets({a}) /\ UNCHANGED <<code, sent, stranded, request, begun>>
    BY <1>1, <1>4 DEF SwitchOn
  <2> HIDE DEF off, on
  <2>2. QED
    BY <1>2, <2>1, AccountKeeps
<1>5. QED
  BY <1>3, <1>4

LEMMA AnonymizeKeeps ==
  ASSUME Inv, NEW u \in User, Anonymize(u)
  PROVE  Inv'
<1> DEFINE AccountRow == [made : BOOLEAN, active : BOOLEAN, deleted : BOOLEAN, ids : SUBSET Identity]
           row == [account[u] EXCEPT !.deleted = TRUE, !.active = FALSE, !.ids = account[u].ids \ Email]
<1>1. account \in [Account -> AccountRow] /\ u \in Account /\ u \notin Admin
  BY RequestType, SessionsAssumption DEF Inv, Account
<1>2. row \in AccountRow /\ row.made = account[u].made
  BY <1>1
<1>3. /\ account' = [account EXCEPT ![u] = row] /\ token' = Revoked({u})
      /\ Meets({u}) /\ UNCHANGED <<code, sent, stranded, request, begun>>
  BY <1>1 DEF Anonymize
<1> HIDE DEF row
<1>4. QED
  BY <1>1, <1>2, <1>3, AccountKeeps

LEMMA NextKeeps == Inv /\ [Next]_vars => Inv'
<1> SUFFICES ASSUME Inv, [Next]_vars PROVE Inv'
  OBVIOUS
<1>1. ASSUME NEW s \in Request, NEW e \in Email,
             \/ CountSend(s, e) \/ MistypeCode(s, e)
             \/ \E c \in Code, u \in User \cup {None} : EnterCode(s, e, c, u)
      PROVE  Inv'
  BY <1>1, CountSendKeeps, MistypeCodeKeeps, EnterCodeKeeps
<1>2. ASSUME NEW s \in Request,
             \/ StartWindow(s) \/ SendCode(s) \/ Recognise(s) \/ RecogniseLink(s)
             \/ RecogniseToken(s) \/ Issue(s) \/ Rollback(s)
      PROVE  Inv'
  BY <1>2, StartWindowKeeps, SendCodeKeeps, RecogniseKeeps, RecogniseLinkKeeps,
     RecogniseTokenKeeps, IssueKeeps, RollbackKeeps
<1>3. ASSUME NEW s \in Request,
             \/ \E d \in Device : Register(s, d)
             \/ \E a \in Admin : LoginAdmin(s, a)
             \/ \E t \in Token : EnterToken(s, t)
      PROVE  Inv'
  BY <1>3, RegisterKeeps, LoginAdminKeeps, EnterTokenKeeps
<1>4. ASSUME NEW e \in Email, WindowEnds(e) PROVE Inv'
  <2>1. (sent' \in [Email -> [count : Nat, ttl : BOOLEAN]] /\ stranded' \subseteq Email)
    BY <1>4, RequestType DEF Inv, WindowEnds
  <2>2. QED
    BY <1>4, <2>1, StutterKeeps DEF WindowEnds
<1>5. ASSUME NEW c \in Code, CodeExpires(c) PROVE Inv'
  BY <1>5, CodeExpiresKeeps
<1>6. ASSUME NEW t \in Token, TokenExpires(t) \/ Logout(t) PROVE Inv'
  BY <1>6, TokenKeeps
<1>7. ASSUME NEW u \in User, DeactivateUser(u) \/ ActivateUser(u) \/ Anonymize(u) PROVE Inv'
  BY <1>7, SwitchKeeps, AnonymizeKeeps DEF DeactivateUser, ActivateUser, Account
<1>8. ASSUME NEW a \in Admin, NEW by \in Admin, DeactivateAdmin(a, by) \/ ActivateAdmin(a) PROVE Inv'
  BY <1>8, SwitchKeeps DEF DeactivateAdmin, ActivateAdmin, Account
<1>9. CASE UNCHANGED vars
  <2>1. (sent' \in [Email -> [count : Nat, ttl : BOOLEAN]] /\ stranded' \subseteq Email)
    BY <1>9, RequestType DEF Inv, vars
  <2>2. QED
    BY <1>9, <2>1, StutterKeeps DEF vars
<1>10. ASSUME NEW s \in Request,
              \/ \E e \in Email : CountSend(s, e)
              \/ StartWindow(s)
              \/ SendCode(s)
              \/ \E e \in Email, c \in Code, u \in User \cup {None} : EnterCode(s, e, c, u)
              \/ \E e \in Email : MistypeCode(s, e)
              \/ Recognise(s)
              \/ RecogniseLink(s)
              \/ \E d \in Device : Register(s, d)
              \/ \E a \in Admin : LoginAdmin(s, a)
              \/ \E t \in Token : EnterToken(s, t)
              \/ RecogniseToken(s)
              \/ Issue(s)
              \/ Rollback(s)
       PROVE  Inv'
  BY <1>10, <1>1, <1>2, <1>3
<1>11. CASE Next
  BY <1>11, <1>4, <1>5, <1>6, <1>7, <1>8, <1>10 DEF Next
<1>12. QED
  BY <1>9, <1>11

LEMMA InvHolds == Spec => []Inv
<1>1. Init => Inv
  BY InitInv
<1>2. Inv /\ [Next]_vars => Inv'
  BY NextKeeps
<1>3. QED
  BY <1>1, <1>2, PTL DEF Spec

-----------------------------------------------------------------------------
(***************************************************************************)
(* The theorems.                                                           *)
(***************************************************************************)

\* Every variable keeps its type, through every handler of services/auth.py.
THEOREM TypeCorrect == Spec => []TypeOK
<1>1. Inv => TypeOK
  BY DEF Inv
<1>2. QED
  BY <1>1, InvHolds, PTL

\* A code signs in once and a refresh token is exchanged once, unless two
\* requests were at work on it at a time (services/auth.py:124-190, 225-281).
THEOREM IssuedOnceCorrect == Spec => []IssuedOnce
<1>1. Inv => IssuedOnce
  <2> SUFFICES ASSUME Inv, NEW x \in Code \cup Token, x \notin raced
               PROVE  Cardinality(IssuedFor(x)) <= 1
    BY DEF IssuedOnce
  <2>1. \A t, v \in IssuedFor(x) : t = v
    BY DEF Inv, OneSuccessor, IssuedFor
  <2>2. CASE IssuedFor(x) = {}
    <3>1. Cardinality({}) = 0
      BY FS_EmptySet
    <3>2. QED
      BY <2>2, <3>1
  <2>3. CASE IssuedFor(x) # {}
    <3> PICK t : t \in IssuedFor(x)
      BY <2>3
    <3>1. IssuedFor(x) = {t}
      BY <2>1
    <3>2. Cardinality({t}) = 1
      BY FS_Singleton
    <3>3. QED
      BY <3>1, <3>2
  <2>4. QED
    BY <2>2, <2>3
<1>2. QED
  BY <1>1, InvHolds, PTL

\* Who has been deactivated, deleted or merged away has no refresh token left
\* that could be exchanged (services/user.py, services/account_merge.py,
\* api/v1/admin/users.py).
THEOREM SignedOutCorrect == Spec => []SignedOut
<1>1. Inv => SignedOut
  BY DEF Inv
<1>2. QED
  BY <1>1, InvHolds, PTL

-----------------------------------------------------------------------------
(* The send limit. *)

\* s is between its two calls to Redis, and has begun the window of e.
Starting(s, e) == Begins(request[s]) /\ request[s].id = e

\* What is so of the counter of e.
Window(e) ==
  /\ (sent[e].count > 0 /\ ~sent[e].ttl) <=> (e \in stranded \/ \E s \in Request : Starting(s, e))
  /\ sent[e].ttl => sent[e].count > 0
  /\ \A s \in Request : Starting(s, e) => e \notin stranded
  /\ \A s, o \in Request : Starting(s, e) /\ Starting(o, e) => s = o

\* A step that neither begins nor ends a window of e.
LEMMA WindowAside ==
  ASSUME NEW e \in Email, Window(e),
         sent'[e].ttl = sent[e].ttl, sent'[e].count > 0 <=> sent[e].count > 0,
         e \in stranded' <=> e \in stranded,
         \A k \in Request : Starting(k, e)' <=> Starting(k, e)
  PROVE  Window(e)'
BY DEF Window

\* A request that is not between the two calls goes on.
LEMMA StartingAside ==
  ASSUME NEW s \in Request, NEW e \in Email, request[s].phase # "counted",
         request'[s].phase # "counted" \/ request'[s].n # 1 \/ request'[s].id # e,
         \A k \in Request \ {s} : request'[k] = request[k]
  PROVE  \A k \in Request : Starting(k, e)' <=> Starting(k, e)
BY DEF Starting, Begins

LEMMA WindowKeeps ==
  ASSUME Inv, [Next]_vars, NEW e \in Email, Window(e)
  PROVE  Window(e)'
<1>1. /\ sent \in [Email -> [count : Nat, ttl : BOOLEAN]]
      /\ request \in [Request -> RequestState]
  BY RequestType DEF Inv
<1>2. sent[e].count \in Nat /\ sent[e].ttl \in BOOLEAN
  BY <1>1
<1>3. Idle.phase # "counted"
  BY DEF Idle
<1>4. ASSUME NEW s \in Request, NEW f \in Email, CountSend(s, f) PROVE Window(e)'
  <2> DEFINE r == [Idle EXCEPT !.phase = "counted", !.id = f, !.n = sent'[f].count]
  <2>1. /\ request[s] = Idle /\ request' = [request EXCEPT ![s] = r]
        /\ sent' = [sent EXCEPT ![f].count = @ + 1] /\ stranded' = stranded
    BY <1>4 DEF CountSend, Begin, At
  <2>2. /\ \A k \in Request \ {s} : request'[k] = request[k]
        /\ request'[s] = r
    BY <1>1, <2>1
  <2>3. /\ r.phase = "counted" /\ r.id = f /\ r.n = sent'[f].count
    BY DEF Idle
  <2>4. /\ f = e => sent'[e].count = sent[e].count + 1
        /\ f # e => sent'[e].count = sent[e].count
        /\ sent'[e].ttl = sent[e].ttl
    BY <1>1, <2>1
  <2> HIDE DEF r
  <2>5. CASE f # e \/ sent[e].count > 0
    <3>1. f = e => sent'[e].count # 1
      BY <1>2, <2>4, <2>5
    <3>2. \A k \in Request : Starting(k, e)' <=> Starting(k, e)
      BY <1>3, <2>1, <2>2, <2>3, <3>1, StartingAside
    <3>3. sent'[e].count > 0 <=> sent[e].count > 0
      BY <1>2, <2>4, <2>5
    <3>4. QED
      BY <2>1, <2>4, <3>2, <3>3, WindowAside
  <2>6. CASE f = e /\ sent[e].count = 0
    <3>1. /\ e \notin stranded /\ ~sent[e].ttl /\ \A k \in Request : ~Starting(k, e)
      BY <2>6 DEF Window
    <3>2. sent'[e].count = 1 /\ ~sent'[e].ttl /\ e \notin stranded'
      BY <2>1, <2>4, <2>6, <3>1
    <3>3. Starting(s, e)' /\ \A k \in Request \ {s} : ~Starting(k, e)'
      BY <2>2, <2>3, <2>6, <3>1, <3>2 DEF Starting, Begins
    <3>4. QED
      BY <3>2, <3>3 DEF Window
  <2>7. QED
    BY <1>2, <2>5, <2>6
<1>5. ASSUME NEW s \in Request, StartWindow(s) PROVE Window(e)'
  <2> DEFINE r == request[s]
  <2>1. /\ r.phase = "counted" /\ sent' = [sent EXCEPT ![r.id].ttl = @ \/ r.n = 1]
        /\ \A k \in Request \ {s} : request'[k] = request[k]
        /\ stranded' = stranded
    BY <1>1, <1>5 DEF StartWindow, Finish, Proceed, At
  <2>2. request'[s].phase # "counted"
    <3>1. [r EXCEPT !.phase = "limited"].phase = "limited"
      BY <1>1 DEF RequestState
    <3>2. request'[s] = Idle \/ request'[s] = [r EXCEPT !.phase = "limited"]
      BY <1>1, <1>5 DEF StartWindow, Finish, Proceed, At
    <3>3. QED
      BY <1>3, <3>1, <3>2
  <2>3. sent'[e].count = sent[e].count /\ sent'[e].ttl = (sent[e].ttl \/ (r.id = e /\ r.n = 1))
    BY <1>1, <2>1
  <2>4. ~Starting(s, e)'
    BY <2>2 DEF Starting, Begins
  <2>5. CASE Starting(s, e)
    <3>1. sent[e].count > 0 /\ e \notin stranded /\ sent'[e].ttl
      BY <2>3, <2>5 DEF Window, Starting, Begins
    <3>2. \A k \in Request : ~Starting(k, e)'
      <4>1. \A k \in Request \ {s} : ~Starting(k, e)
        BY <2>5 DEF Window
      <4>2. QED
        BY <2>1, <2>4, <4>1 DEF Starting, Begins
    <3>3. QED
      BY <2>1, <2>3, <3>1, <3>2 DEF Window
  <2>6. CASE ~Starting(s, e)
    <3>1. sent'[e].ttl = sent[e].ttl
      BY <1>2, <2>1, <2>3, <2>6 DEF Starting, Begins
    <3>2. \A k \in Request : Starting(k, e)' <=> Starting(k, e)
      BY <2>1, <2>4, <2>6 DEF Starting, Begins
    <3>3. QED
      BY <2>1, <2>3, <3>1, <3>2, WindowAside
  <2>7. QED
    BY <2>5, <2>6
<1>6. ASSUME NEW f \in Email, WindowEnds(f) PROVE Window(e)'
  <2>1. \A k \in Request : Starting(k, e)' <=> Starting(k, e)
    BY <1>6 DEF WindowEnds, Starting, Begins
  <2>2. CASE f = e
    <3>1. sent'[e].count = 0 /\ ~sent'[e].ttl /\ stranded' = stranded /\ sent[e].ttl
      BY <1>1, <1>6, <2>2 DEF WindowEnds
    <3>2. e \notin stranded /\ \A k \in Request : ~Starting(k, e)
      BY <3>1 DEF Window
    <3>3. QED
      BY <2>1, <3>1, <3>2 DEF Window
  <2>3. CASE f # e
    BY <1>1, <1>6, <2>1, <2>3, WindowAside DEF WindowEnds
  <2>4. QED
    BY <2>2, <2>3
\* A request that dies between the two calls strands the e-mail.
<1>7. ASSUME NEW s \in Request, Rollback(s) PROVE Window(e)'
  <2>1. /\ \A k \in Request \ {s} : request'[k] = request[k]
        /\ request'[s] = Idle /\ sent' = sent
        /\ stranded' = IF Begins(request[s]) THEN stranded \cup {request[s].id} ELSE stranded
    BY <1>1, <1>7 DEF Rollback, Finish
  <2>2. /\ ~Starting(s, e)'
        /\ \A k \in Request \ {s} : Starting(k, e)' <=> Starting(k, e)
        /\ e \in stranded' <=> e \in stranded \/ Starting(s, e)
    BY <1>3, <2>1 DEF Starting, Begins
  <2>3. CASE Starting(s, e)
    <3>1. sent[e].count > 0 /\ ~sent[e].ttl /\ \A k \in Request \ {s} : ~Starting(k, e)
      BY <2>3 DEF Window
    <3>2. e \in stranded' /\ \A k \in Request : ~Starting(k, e)'
      BY <2>2, <2>3, <3>1
    <3>3. QED
      BY <2>1, <3>1, <3>2 DEF Window
  <2>4. CASE ~Starting(s, e)
    BY <2>1, <2>2, <2>4, WindowAside
  <2>5. QED
    BY <2>3, <2>4
<1>8. ASSUME NEW s \in Request, request[s].phase # "counted", UNCHANGED <<sent, stranded>>,
             Finish(s) \/ \E r : At(s, r) /\ r.phase # "counted"
      PROVE  Window(e)'
  <2>1. /\ request'[s].phase # "counted"
        /\ \A k \in Request \ {s} : request'[k] = request[k]
    BY <1>1, <1>3, <1>8 DEF Finish, At
  <2>2. \A k \in Request : Starting(k, e)' <=> Starting(k, e)
    BY <1>8, <2>1, StartingAside
  <2>3. QED
    BY <1>8, <2>2, WindowAside
<1>9. ASSUME NEW s \in Request,
             \/ SendCode(s) \/ Recognise(s) \/ RecogniseLink(s) \/ RecogniseToken(s) \/ Issue(s)
      PROVE  Window(e)'
  <2>1. request[s].phase # "counted" /\ UNCHANGED <<sent, stranded>>
    BY <1>9 DEF SendCode, Recognise, RecogniseLink, RecogniseToken, Issue
  <2> DEFINE r == request[s]
  <2>2. /\ \A u : [r EXCEPT !.phase = "known", !.who = u].phase = "known"
        /\ [r EXCEPT !.phase = "known", !.goal = "create"].phase = "known"
        /\ \A u : [r EXCEPT !.phase = "known", !.goal = "attach", !.who = u, !.source = None].phase = "known"
        /\ \A u : [r EXCEPT !.phase = "known", !.goal = "merge", !.who = u].phase = "known"
    BY <1>1 DEF RequestState
  <2>3. Finish(s) \/ \E q : At(s, q) /\ q.phase # "counted"
    BY <1>9, <2>2 DEF SendCode, Recognise, RecogniseLink, RecogniseToken, Issue, Proceed
  <2>4. QED
    BY <1>8, <2>1, <2>3
<1>10. ASSUME NEW s \in Request,
             \/ \E f \in Email, c \in Code, u \in User \cup {None} : EnterCode(s, f, c, u)
             \/ \E f \in Email : MistypeCode(s, f)
             \/ \E d \in Device : Register(s, d)
             \/ \E a \in Admin : LoginAdmin(s, a)
             \/ \E t \in Token : EnterToken(s, t)
      PROVE  Window(e)'
  <2>1. UNCHANGED <<sent, stranded>>
    BY <1>10 DEF EnterCode, MistypeCode, Register, LoginAdmin, EnterToken
  <2>2. \E r : Begin(s, r) /\ r.phase # "counted"
    <3>1. ASSUME NEW f \in Email, NEW c \in Code, NEW u \in User \cup {None}, EnterCode(s, f, c, u)
          PROVE  \E r : Begin(s, r) /\ r.phase # "counted"
      <4> DEFINE r == [Idle EXCEPT !.phase = "code", !.from = c, !.codes = ActiveCodes(f),
                                   !.id = f, !.source = u]
      <4>1. Begin(s, r)
        BY <3>1 DEF EnterCode
      <4>2. r.phase = "code"
        BY DEF Idle
      <4>3. QED
        BY <4>1, <4>2
    <3>2. ASSUME NEW f \in Email, MistypeCode(s, f)
          PROVE  \E r : Begin(s, r) /\ r.phase # "counted"
      <4>1. PICK c : Begin(s, [Idle EXCEPT !.phase = "raised", !.codes = {c}, !.id = f])
        BY <3>2 DEF MistypeCode
      <4>2. [Idle EXCEPT !.phase = "raised", !.codes = {c}, !.id = f].phase = "raised"
        BY DEF Idle
      <4>3. QED
        BY <4>1, <4>2
    <3>3. ASSUME NEW d \in Device, Register(s, d)
          PROVE  \E r : Begin(s, r) /\ r.phase # "counted"
      <4>1. /\ \A u : [Idle EXCEPT !.phase = "known", !.id = d, !.who = u].phase = "known"
            /\ [Idle EXCEPT !.phase = "known", !.id = d, !.goal = "create"].phase = "known"
        BY DEF Idle
      <4>2. \/ \E u : Begin(s, [Idle EXCEPT !.phase = "known", !.id = d, !.who = u])
            \/ Begin(s, [Idle EXCEPT !.phase = "known", !.id = d, !.goal = "create"])
        BY <3>3 DEF Register
      <4>3. QED
        BY <4>1, <4>2
    <3>4. ASSUME NEW a \in Admin, LoginAdmin(s, a)
          PROVE  \E r : Begin(s, r) /\ r.phase # "counted"
      <4>1. [Idle EXCEPT !.phase = "known", !.who = a].phase = "known"
        BY DEF Idle
      <4>2. QED
        BY <3>4, <4>1 DEF LoginAdmin
    <3>5. ASSUME NEW t \in Token, EnterToken(s, t)
          PROVE  \E r : Begin(s, r) /\ r.phase # "counted"
      <4> DEFINE p == IF token[t].used THEN "raised" ELSE "token"
      <4>1. [Idle EXCEPT !.phase = p, !.from = t].phase = p
        BY DEF Idle
      <4>2. Begin(s, [Idle EXCEPT !.phase = p, !.from = t])
        BY <3>5 DEF EnterToken
      <4>3. p # "counted"
        OBVIOUS
      <4> HIDE DEF p
      <4>4. QED
        BY <4>1, <4>2, <4>3
    <3>6. QED
      BY <1>10, <3>1, <3>2, <3>3, <3>4, <3>5
  <2>3. request[s].phase # "counted" /\ \E r : At(s, r) /\ r.phase # "counted"
    BY <1>3, <2>2 DEF Begin
  <2>4. QED
    BY <1>8, <2>1, <2>3
<1>11. ASSUME \/ \E c \in Code : CodeExpires(c)
              \/ \E t \in Token : TokenExpires(t) \/ Logout(t)
              \/ \E u \in User : DeactivateUser(u) \/ ActivateUser(u) \/ Anonymize(u)
              \/ \E a, by \in Admin : DeactivateAdmin(a, by) \/ ActivateAdmin(a)
              \/ UNCHANGED vars
       PROVE  Window(e)'
  <2>1. UNCHANGED <<sent, request, stranded>>
    BY <1>11 DEF CodeExpires, TokenExpires, Logout, DeactivateUser, ActivateUser, Anonymize,
                 DeactivateAdmin, ActivateAdmin, SwitchOff, SwitchOn, vars
  <2>2. QED
    BY <2>1 DEF Window, Starting
<1>12. QED
  BY <1>4, <1>5, <1>6, <1>7, <1>9, <1>11, <1>10 DEF Next

\* A counter is without TTL exactly while the request that began its window is
\* between INCR and EXPIRE, and for ever once that request died there
\* (services/auth.py:75-85).
THEOREM LimitCorrect == Spec => []LimitIsLifted
<1> DEFINE Windows == \A e \in Email : Window(e)
<1>1. Init => Windows
  <2> SUFFICES ASSUME Init, NEW e \in Email PROVE Window(e)
    OBVIOUS
  <2>1. \A s \in Request : ~Starting(s, e)
    BY DEF Init, Starting, Begins, Idle
  <2>2. QED
    BY <2>1 DEF Init, Window
<1>2. Inv /\ Windows /\ [Next]_vars => Windows'
  BY WindowKeeps
<1>3. Windows => LimitIsLifted
  BY DEF Window, LimitIsLifted, Starting
<1> HIDE DEF Windows
<1>4. QED
  BY <1>1, <1>2, <1>3, InvHolds, PTL DEF Spec

=============================================================================
