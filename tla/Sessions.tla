------------------------------ MODULE Sessions -------------------------------
(***************************************************************************)
(* Who is signed in: accounts and the identities (e-mail, device) they are *)
(* found by, one-time codes, and refresh tokens (services/auth.py and the  *)
(* endpoints that activate, deactivate or delete an account).              *)
(*                                                                         *)
(* A request is a database session, committed when the handler returns and *)
(* rolled back when it raises (core/database.py:18-25).  Nothing is locked *)
(* by a read.  So a handler is up to three steps: what it reads first,     *)
(* what it reads after its first flush (which locks the rows flushed), and *)
(* the commit (`Issue').  A handler that writes and then raises has        *)
(* changed nothing once it is over.                                        *)
(***************************************************************************)
EXTENDS Naturals, FiniteSets

CONSTANTS
  User, Admin,     \* rows of the tables users and admins
  Email, Device,   \* what a user is found by
  Code, Token,     \* rows of the tables otp_codes and refresh_tokens
  Request,         \* requests that may be open at a time
  SendLimit,       \* codes an e-mail is sent per minute (5)
  MaxRequests,     \* bound on the requests made
  None

ASSUME SessionsAssumption ==
  /\ SendLimit \in Nat \ {0}
  /\ MaxRequests \in Nat
  /\ Email \cap Device = {} /\ User \cap Admin = {} /\ Code \cap Token = {}
  /\ None \notin User \cup Admin \cup Email \cup Device \cup Code \cup Token

Account  == User \cup Admin
Identity == Email \cup Device

VARIABLES
  account,   \* rows of users and admins
  code,      \* rows of otp_codes
  token,     \* rows of refresh_tokens
  sent,      \* Redis counter otp_rate:<email>, and whether it has a TTL
  request,   \* the requests in progress
  begun,     \* how many have been made
  raced,     \* history: what two requests have worked on at the same time
  stranded   \* history: e-mails whose window a request began and died before it had a TTL

vars == <<account, code, token, sent, request, begun, raced, stranded>>

\* An expired row is not found any more; the cleanup tasks only delete it later.
Row == {"none", "kept", "expired"}

NoCode  == [row |-> "none", email |-> None, used |-> FALSE]
NoToken == [row |-> "none", owner |-> None, from |-> None,
            used |-> FALSE, revoked |-> FALSE]

(***************************************************************************)
(* The phases of a request:                                                *)
(*   counted   send_otp has increased the counter of the e-mail            *)
(*   limited   ... and has found it within the limit                       *)
(*   code      verify_otp or link_email has found the code typed           *)
(*   token     refresh_tokens has found the token unused                   *)
(*   known     codes or token flushed as used, the account read            *)
(*   raised    something has been flushed, and the handler has raised      *)
(***************************************************************************)
Phase == {"idle", "counted", "limited", "code", "token", "known", "raised"}
Goal  == {"login", "create", "attach", "merge"}

Idle == [phase |-> "idle", goal |-> "login", from |-> None, codes |-> {},
         id |-> None, n |-> 0, who |-> None, source |-> None]

TypeOK ==
  /\ account \in [Account -> [made : BOOLEAN, active : BOOLEAN, deleted : BOOLEAN,
                              ids : SUBSET Identity]]
  /\ code \in [Code -> [row : Row, email : Email \cup {None}, used : BOOLEAN]]
  /\ token \in [Token -> [row : Row, owner : Account \cup {None},
                          from : Code \cup Token \cup {None},
                          used : BOOLEAN, revoked : BOOLEAN]]
  /\ sent \in [Email -> [count : Nat, ttl : BOOLEAN]]
  /\ request \in [Request -> [phase : Phase, goal : Goal,
                              from : Code \cup Token \cup {None}, codes : SUBSET Code,
                              id : Identity \cup {None}, n : Nat, who : Account \cup {None},
                              source : Account \cup {None}]]
  /\ begun \in Nat
  /\ raced \subseteq Code \cup Token \cup Account
  /\ stranded \subseteq Email

\* Users with an e-mail and admins may have been there before.
Init ==
  /\ account \in [Account -> [made : BOOLEAN, active : BOOLEAN, deleted : {FALSE},
                              ids : {{}} \cup {{e} : e \in Email}]]
  /\ \A a \in Account : /\ account[a].made = (a \in Admin \/ account[a].ids # {})
                        /\ account[a].active = account[a].made
  /\ \A a, b \in Account : a # b => account[a].ids \cap account[b].ids = {}
  /\ \A a \in Admin : account[a].ids = {}
  /\ code    = [c \in Code |-> NoCode]
  /\ token   = [t \in Token |-> NoToken]
  /\ sent    = [e \in Email |-> [count |-> 0, ttl |-> FALSE]]
  /\ request = [s \in Request |-> Idle]
  /\ begun   = 0
  /\ raced   = {}
  /\ stranded = {}

-----------------------------------------------------------------------------
Live(a)    == account[a].made /\ ~account[a].deleted
Holders(i) == {u \in User : Live(u) /\ i \in account[u].ids}

Anonymous(u) == account[u].ids \cap Email = {}

ActiveCodes(e) == {c \in Code : code[c].row = "kept" /\ code[c].email = e /\ ~code[c].used}

\* A token that refresh_tokens would exchange.
Usable(t) == token[t].row = "kept" /\ ~token[t].revoked /\ ~token[t].used

\* What a request works on, for the history.
Concerns(r) == (r.codes \cup {r.from}
                \cup {token[t].owner : t \in Token \cap {r.from}}
                \cup (IF r.phase = "known" THEN {r.who, r.source} ELSE {})) \ {None}

Busy(s) == UNION {Concerns(request[o]) : o \in Request \ {s}}

\* Request s is now at r.
At(s, r) ==
  /\ request' = [request EXCEPT ![s] = r]
  /\ raced' = raced \cup (Concerns(r) \cap Busy(s))

Begin(s, r) ==
  /\ request[s] = Idle
  /\ begun < MaxRequests
  /\ begun' = begun + 1
  /\ At(s, r)

Proceed(s, r) == At(s, r) /\ UNCHANGED begun

\* A handler that is one step changes the rows X.  (If one of its UPDATEs has
\* to wait it writes what its snapshot holds: as if it had gone first.)
Meets(X) == raced' = raced \cup (X \cap UNION {Concerns(request[o]) : o \in Request})

Finish(s) == request' = [request EXCEPT ![s] = Idle] /\ UNCHANGED <<begun, raced>>

\* Rows a request has flushed are locked until it is over.
Flushed(s) == IF request[s].phase \in {"known", "raised"}
              THEN request[s].codes \cup {request[s].from} ELSE {}
Unlocked(s, rows) == \A o \in Request \ {s} : rows \cap Flushed(o) = {}

Fresh(f) == CHOOSE x \in DOMAIN f : f[x].row = "none"
Left(f)  == \E x \in DOMAIN f : f[x].row = "none"

-----------------------------------------------------------------------------
(* One-time codes. *)

\* _check_otp_rate_limit: INCR.
CountSend(s, e) ==
  /\ sent[e].count <= SendLimit                  \* bound of the counter
  /\ sent' = [sent EXCEPT ![e].count = @ + 1]
  /\ Begin(s, [Idle EXCEPT !.phase = "counted", !.id = e, !.n = sent'[e].count])
  /\ UNCHANGED <<account, code, token, stranded>>

\* r has begun the window of its e-mail, and is about to give it a TTL.
Begins(r) == r.phase = "counted" /\ r.n = 1

\* A bug: EXPIRE only once the limit is reached.
StartWindowLate(s) ==
  LET r == request[s] IN
  /\ r.phase = "counted"
  /\ sent' = [sent EXCEPT ![r.id].ttl = @ \/ r.n > SendLimit]
  /\ IF r.n > SendLimit
     THEN Finish(s)
     ELSE Proceed(s, [r EXCEPT !.phase = "limited"])
  /\ UNCHANGED <<account, code, token, stranded>>

\* ... EXPIRE by the request that started the window; above the limit, raise.
StartWindow(s) ==
  LET r == request[s] IN
  /\ r.phase = "counted"
  /\ sent' = [sent EXCEPT ![r.id].ttl = @ \/ r.n = 1]
  /\ IF r.n > SendLimit
     THEN Finish(s)
     ELSE Proceed(s, [r EXCEPT !.phase = "limited"])
  /\ UNCHANGED <<account, code, token, stranded>>

\* The rest of send_otp.  Earlier codes stay active.
SendCode(s) ==
  /\ request[s].phase = "limited"
  /\ Left(code)
  /\ code' = [code EXCEPT ![Fresh(code)] =
                [NoCode EXCEPT !.row = "kept", !.email = request[s].id]]
  /\ Finish(s)
  /\ UNCHANGED <<account, token, sent, stranded>>

\* Redis drops a counter whose TTL has passed.
WindowEnds(e) ==
  /\ sent[e].ttl
  /\ sent' = [sent EXCEPT ![e] = [count |-> 0, ttl |-> FALSE]]
  /\ UNCHANGED <<account, code, token, request, begun, raced, stranded>>

CodeExpires(c) ==
  /\ code[c].row = "kept"
  /\ code' = [code EXCEPT ![c].row = "expired"]
  /\ UNCHANGED <<account, token, sent, request, begun, raced, stranded>>

\* verify_otp and link_email_verify_otp (by a user with an access token, as
\* `current'): all active codes of the e-mail are read, c is the one typed.
EnterCode(s, e, c, current) ==
  /\ c \in ActiveCodes(e)
  /\ current # None => account[current].made
  /\ Begin(s, [Idle EXCEPT !.phase = "code", !.from = c, !.codes = ActiveCodes(e),
                             !.id = e, !.source = current])
  /\ UNCHANGED <<account, code, token, sent, stranded>>

\* A code that matches none: attempts + 1 on the newest is flushed, and then
\* the handler raises.
MistypeCode(s, e) ==
  /\ ActiveCodes(e) # {}
  /\ \E c \in ActiveCodes(e) :
       /\ Unlocked(s, {c})
       /\ Begin(s, [Idle EXCEPT !.phase = "raised", !.codes = {c}, !.id = e])
  /\ UNCHANGED <<account, code, token, sent, stranded>>

\* verify_otp: the codes are flushed as used, then the user is looked up.  A
\* user found inactive is refused: Rollback.
Recognise(s) ==
  LET r == request[s] IN
  /\ r.phase = "code" /\ r.source = None
  /\ Unlocked(s, r.codes)
  /\ \/ \E u \in Holders(r.id) :
          /\ account[u].active
          /\ Proceed(s, [r EXCEPT !.phase = "known", !.who = u])
     \/ /\ Holders(r.id) = {}
        /\ Proceed(s, [r EXCEPT !.phase = "known", !.goal = "create"])
  /\ UNCHANGED <<account, code, token, sent, stranded>>

\* link_email_verify_otp: the same, then the current user and the holder of
\* the e-mail are read.  Everything refused ends in Rollback, a merge that was
\* not asked for (EMAIL_ALREADY_LINKED) too, so its code stays active.
RecogniseLink(s) ==
  LET r == request[s]
      current == r.source
      others  == Holders(r.id) \ {current} IN
  /\ r.phase = "code" /\ current # None
  /\ Unlocked(s, r.codes)
  /\ Live(current) /\ account[current].active
  /\ \/ /\ others = {}
        /\ Proceed(s, [r EXCEPT !.phase = "known", !.goal = "attach",
                                !.who = current, !.source = None])
     \/ \E target \in others :
          /\ account[target].active
          /\ Anonymous(current)
          /\ Proceed(s, [r EXCEPT !.phase = "known", !.goal = "merge", !.who = target])
  /\ UNCHANGED <<account, code, token, sent, stranded>>

-----------------------------------------------------------------------------
(* Other ways in. *)

\* device_register: find or create.
Register(s, d) ==
  /\ \/ \E u \in Holders(d) :
          /\ account[u].active
          /\ Begin(s, [Idle EXCEPT !.phase = "known", !.id = d, !.who = u])
     \/ /\ Holders(d) = {}
        /\ Begin(s, [Idle EXCEPT !.phase = "known", !.id = d, !.goal = "create"])
  /\ UNCHANGED <<account, code, token, sent, stranded>>

\* admin_login.
LoginAdmin(s, a) ==
  /\ account[a].active
  /\ Begin(s, [Idle EXCEPT !.phase = "known", !.who = a])
  /\ UNCHANGED <<account, code, token, sent, stranded>>

\* A bug: is_used is not looked at.
EnterTokenUsed(s, t) ==
  /\ token[t].row = "kept" /\ ~token[t].revoked
  /\ Begin(s, [Idle EXCEPT !.phase = "token", !.from = t])
  /\ UNCHANGED <<account, code, token, sent, stranded>>

\* refresh_tokens: a token that is there and neither revoked nor expired.  One
\* already used revokes all tokens of its owner, and then the handler raises.
EnterToken(s, t) ==
  /\ token[t].row = "kept" /\ ~token[t].revoked
  /\ token[t].used => Unlocked(s, {t})
  /\ Begin(s, [Idle EXCEPT !.phase = IF token[t].used THEN "raised" ELSE "token", !.from = t])
  /\ UNCHANGED <<account, code, token, sent, stranded>>

\* ... the token is flushed as used, then its owner is read.
RecogniseToken(s) ==
  LET r == request[s]
      owner == token[r.from].owner IN
  /\ r.phase = "token"
  /\ Unlocked(s, {r.from})
  /\ account[owner].made /\ account[owner].active
  /\ Proceed(s, [r EXCEPT !.phase = "known", !.who = owner])
  /\ UNCHANGED <<account, code, token, sent, stranded>>

-----------------------------------------------------------------------------
(* The commit of a request that ends with a new refresh token. *)

\* The partial unique indexes on users.email and users.device_id.
IndexAllows(r, u) ==
  CASE r.goal = "create" -> Holders(r.id) = {}
    [] r.goal = "attach" -> ~account[u].deleted => Holders(r.id) \subseteq {u}
    [] OTHER             -> TRUE

\* The account row that request r writes for user u.
Write(r, u) ==
  CASE r.goal = "create" -> [made |-> TRUE, active |-> TRUE, deleted |-> FALSE, ids |-> {r.id}]
    [] r.goal = "attach" -> [account[u] EXCEPT !.ids = (@ \ Email) \cup {r.id}]
    [] OTHER             -> account[u]

\* A bug: an empty device_id is an identity like any other.
MergedAwayNull == [made |-> TRUE, active |-> FALSE, deleted |-> TRUE, ids |-> {None}]

MergedAway == [made |-> TRUE, active |-> FALSE, deleted |-> TRUE, ids |-> {}]

\* A bug: the condition on is_revoked has become one on is_used.
RevokedUsed(A) == [t \in Token |-> IF token[t].owner \in A /\ token[t].used
                                   THEN [token[t] EXCEPT !.revoked = TRUE] ELSE token[t]]

\* The tokens after those of the accounts A have been revoked.
Revoked(A) == [t \in Token |-> IF token[t].owner \in A
                               THEN [token[t] EXCEPT !.revoked = TRUE] ELSE token[t]]

Issue(s) ==
  LET r == request[s] IN
  /\ r.phase = "known"
  /\ Left(token)
  /\ \E u \in Account :
       /\ IF r.goal = "create" THEN u \in User /\ ~account[u].made ELSE u = r.who
       /\ IndexAllows(r, u)
       /\ account' = [a \in Account |-> IF a = u THEN Write(r, u)
                                        ELSE IF r.goal = "merge" /\ a = r.source THEN MergedAway
                                        ELSE account[a]]
       /\ LET kept == IF r.goal = "merge" THEN Revoked({r.source}) ELSE token IN
          token' = [t \in Token |->
                      IF t = Fresh(token)
                      THEN [NoToken EXCEPT !.row = "kept", !.owner = u, !.from = r.from]
                      ELSE IF t = r.from THEN [kept[t] EXCEPT !.used = TRUE]
                      ELSE kept[t]]
  /\ code' = [c \in Code |-> IF c \in r.codes THEN [code[c] EXCEPT !.used = TRUE] ELSE code[c]]
  /\ Finish(s)
  /\ UNCHANGED <<sent, stranded>>

\* The handler raises, a statement fails, or the worker dies.
Rollback(s) ==
  /\ request[s] # Idle
  /\ stranded' = IF Begins(request[s]) THEN stranded \cup {request[s].id} ELSE stranded
  /\ Finish(s)
  /\ UNCHANGED <<account, code, token, sent>>

-----------------------------------------------------------------------------
(* Endings. *)

\* One UPDATE.
Logout(t) ==
  /\ token[t].row # "none"
  /\ token' = [token EXCEPT ![t].revoked = TRUE]
  /\ UNCHANGED <<account, code, sent, request, begun, raced, stranded>>

SwitchOff(a) ==
  /\ account[a].made
  /\ account' = [account EXCEPT ![a].active = FALSE]
  /\ token' = Revoked({a})
  /\ Meets({a})
  /\ UNCHANGED <<code, sent, request, begun, stranded>>

\* No look at is_deleted.
SwitchOn(a) ==
  /\ account[a].made
  /\ account' = [account EXCEPT ![a].active = TRUE]
  /\ Meets({a})
  /\ UNCHANGED <<code, token, sent, request, begun, stranded>>

DeactivateUser(u) == SwitchOff(u)
ActivateUser(u)   == SwitchOn(u)

\* By another admin.
DeactivateAdmin(a, by) == a # by /\ account[by].made /\ SwitchOff(a)
ActivateAdmin(a)       == SwitchOn(a)

\* anonymize_user: the e-mail is replaced, device_id is kept.
Anonymize(u) ==
  /\ Live(u)
  /\ account' = [account EXCEPT ![u].deleted = TRUE, ![u].active = FALSE, ![u].ids = @ \ Email]
  /\ token' = Revoked({u})
  /\ Meets({u})
  /\ UNCHANGED <<code, sent, request, begun, stranded>>

TokenExpires(t) ==
  /\ token[t].row = "kept"
  /\ token' = [token EXCEPT ![t].row = "expired"]
  /\ UNCHANGED <<account, code, sent, request, begun, raced, stranded>>

-----------------------------------------------------------------------------
Next ==
  \/ \E s \in Request :
       \/ \E e \in Email : CountSend(s, e)
       \/ StartWindow(s)
       \/ SendCode(s)
       \/ \E e \in Email, c \in Code, u \in User \cup {None} : EnterCode(s, e, c, u)
       \/ \E e \in Email : MistypeCode(s, e)
       \/ Recognise(s)
       \/ RecogniseLink(s)
       \/ \E d \in Device : Register(s, d)
       \/ \E a \in Admin : LoginAdmin(s, a)
       \/ \E t \in Token : EnterToken(s, t)
       \/ RecogniseToken(s)
       \/ Issue(s)
       \/ Rollback(s)
  \/ \E e \in Email : WindowEnds(e)
  \/ \E c \in Code : CodeExpires(c)
  \/ \E t \in Token : TokenExpires(t) \/ Logout(t)
  \/ \E u \in User : DeactivateUser(u) \/ ActivateUser(u) \/ Anonymize(u)
  \/ \E a, by \in Admin : DeactivateAdmin(a, by) \/ ActivateAdmin(a)

Spec == Init /\ [][Next]_vars

-----------------------------------------------------------------------------
\* The tokens issued for x, a code or a token.
IssuedFor(x) == {t \in Token : token[t].row # "none" /\ token[t].from = x}

\* A code signs in once and a refresh token is exchanged once, unless two
\* requests were at work on it at the same time: is_used is read without a lock.
IssuedOnce == \A x \in Code \cup Token : x \in raced \/ Cardinality(IssuedFor(x)) <= 1

\* A deactivated, anonymized or merged account has no refresh token that could
\* be exchanged, now or after it is activated again, unless a request that had
\* found the account or a token of it before was still at work.
SignedOut == \A a \in Account :
               (account[a].made /\ (account[a].deleted \/ ~account[a].active) /\ a \notin raced)
                 => \A t \in Token : token[t].owner = a => ~Usable(t)

\* What makes an e-mail be refused for ever: its window has no TTL exactly while
\* the request that began it is between its two calls to Redis, and after that
\* request died there; no other request, whether it is refused, rolled back or
\* late, leaves a counter without TTL or can give one to it later
\* (services/auth.py:75-85).
LimitIsLifted == \A e \in Email :
  (sent[e].count > 0 /\ ~sent[e].ttl)
    <=> (e \in stranded \/ \E s \in Request : Begins(request[s]) /\ request[s].id = e)

=============================================================================
