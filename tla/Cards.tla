-------------------------------- MODULE Cards ---------------------------------
(***************************************************************************)
(* Saved payment methods: how a payment leaves a card behind, which card   *)
(* of a user is the default, how cards of the same physical card are found *)
(* again, merged and deduplicated (services/payment_method.py, the card    *)
(* side of services/webhook.py, services/account_merge.py and              *)
(* tasks/inactive_anonymous_cleanup.py).                                   *)
(*                                                                         *)
(* The table is a sequence in the order of creation.  The provider's id of *)
(* a method is the id of the payment that saved it, and the fingerprint is *)
(* the physical card.  Requests read without locks and write when they     *)
(* flush: an attribute is written only if it differs from what was loaded, *)
(* an UPDATE statement evaluates its WHERE on the current rows.            *)
(***************************************************************************)
EXTENDS Naturals, FiniteSets, FiniteSetsExt, SequencesExt

CONSTANTS
  User,
  Card,          \* physical cards, their fingerprints
  Payment,       \* payments that may save a card
  Request,       \* requests that may be open at a time
  MaxRequests,   \* bound on the requests made
  None

ASSUME CardsAssumption ==
  /\ IsFiniteSet(User)
  /\ MaxRequests \in Nat
  /\ None \notin User \cup Card \cup Payment \cup Request

VARIABLES
  user,       \* what has become of each account
  payment,    \* the payments at the provider, with the donation's owner
  table,      \* payment_methods, in the order of creation
  request,    \* the requests in progress
  begun,      \* how many have been made
  raced,      \* history: users that two requests have worked on at a time
  dropped     \* history: refunded by a request that was rolled back

vars == <<user, payment, table, request, begun, raced, dropped>>

UserState == {"guest", "person", "merged", "cleaned", "gone"}

PaymentRow == [kind : {"none", "donation", "card_save"}, user : User \cup {None},
               card : Card \cup {None}, done : BOOLEAN, refunded : BOOLEAN, late : BOOLEAN]

NoPayment == [kind |-> "none", user |-> None, card |-> None, done |-> FALSE, refunded |-> FALSE,
              late |-> FALSE]

RowOf == [pm : Payment, owner : User \cup {None}, live : BOOLEAN, default : BOOLEAN,
          print : Card \cup {None}]

(***************************************************************************)
(* The phases of a request:                                                *)
(*   notified    a notification has loaded its payment                     *)
(*   found       there is a live row of the payment already                *)
(*   saving      there is none; flag: the user has no card at all          *)
(*   inserted    a row is flushed: the unique index holds the payment      *)
(*   deleting    the row is loaded; flag: it was the default               *)
(*   promoting   ... is flushed as deleted, the next default is chosen     *)
(*   defaulting  the row is loaded; flag: it was the default already       *)
(*   recovering  the guests with a fingerprint of the user are loaded      *)
(*   deduping    all rows with a fingerprint are loaded                    *)
(* back: the provider has been asked for a refund.                         *)
(***************************************************************************)
Phase == {"idle", "notified", "found", "saving", "inserted", "deleting", "promoting",
          "defaulting", "recovering", "deduping"}

Idle == [at |-> "idle", users |-> {}, user |-> None, pm |-> None, row |-> 0, next |-> 0,
         flag |-> FALSE, back |-> FALSE, seen |-> << >>]

RequestState == [at : Phase, users : SUBSET User, user : User \cup {None},
                 pm : Payment \cup {None}, row : Nat, next : Nat, flag : BOOLEAN,
                 back : BOOLEAN, seen : Seq(RowOf)]

TypeOK ==
  /\ user \in [User -> UserState]
  /\ payment \in [Payment -> PaymentRow]
  /\ table \in Seq(RowOf)
  /\ request \in [Request -> RequestState]
  /\ \A r \in Request : {request[r].row, request[r].next} \subseteq 0..Len(table)
  /\ begun \in 0..MaxRequests
  /\ raced \subseteq User /\ dropped \subseteq Payment

\* One card has been saved already, with or without a fingerprint.
Init ==
  /\ user \in [User -> {"guest", "person"}]
  /\ \E p \in Payment, u \in User, c \in Card, print \in BOOLEAN :
       /\ payment = [o \in Payment |->
                       IF o # p THEN NoPayment
                       ELSE [NoPayment EXCEPT !.kind = "donation", !.user = u, !.card = c,
                                              !.done = TRUE]]
       /\ table = <<[pm |-> p, owner |-> u, live |-> TRUE, default |-> TRUE,
                     print |-> IF print THEN c ELSE None]>>
  /\ request = [r \in Request |-> Idle]
  /\ begun   = 0
  /\ raced   = {}
  /\ dropped = {}

-----------------------------------------------------------------------------
\* The accounts that a request works on: those it has loaded and, if rows have
\* been moved since, those whose rows it is going to write.
Users(r) ==
  {u \in User : \/ u \in request[r].users
                \/ \E i \in {request[r].row, request[r].next} \ {0} : table[i].owner = u}

Busy(r, U) == {o \in Request \ {r} : Users(o) \cap U # {}}

\* Whoever meets another request, with those that one works on.
Meeting(r, U) ==
  IF Busy(r, U) = {} THEN {} ELSE U \cup UNION {Users(o) : o \in Busy(r, U)}

Begin(r, q) ==
  /\ request[r] = Idle
  /\ begun < MaxRequests
  /\ begun' = begun + 1
  /\ request' = [request EXCEPT ![r] = q]
  /\ raced' = raced \cup Meeting(r, q.users)

Proceed(r, q) == request' = [request EXCEPT ![r] = q] /\ UNCHANGED <<begun, raced>>

Finish(r) == Proceed(r, Idle)

\* A handler of one step that works on the users U.
Once(U) ==
  /\ begun < MaxRequests
  /\ begun' = begun + 1
  /\ raced' = raced \cup Meeting(None, U)
  /\ UNCHANGED request

-----------------------------------------------------------------------------
LiveOf(t, u) == {i \in DOMAIN t : t[i].live /\ t[i].owner = u}
LiveRows(u) == LiveOf(table, u)
RowsFor(p)  == {i \in DOMAIN table : table[i].live /\ table[i].pm = p}

\* The newest of some rows, 0 if there are none.
Newest(I) == Max(I \cup {0})

\* Rows of a table with an attribute changed.
Put(t, I, change(_)) == [i \in DOMAIN t |-> IF i \in I THEN change(t[i]) ELSE t[i]]
AsDefault(row)    == [row EXCEPT !.default = TRUE]
AsOther(row)      == [row EXCEPT !.default = FALSE]
AsDeleted(row)    == [row EXCEPT !.live = FALSE, !.default = FALSE]

\* is_default is written only if it was loaded as set.
AsDropped(row, default) ==
  [row EXCEPT !.live = FALSE, !.default = IF default THEN FALSE ELSE row.default]

\* Somebody pays with card c and asks for it to be saved: with a donation, or
\* with the rouble of initiate_card_save.  Neither looks at the account of the
\* token (late: it has been merged already).
Pay(p, u, c, kind) ==
  /\ payment[p] = NoPayment
  /\ user[u] # "gone"
  /\ payment' = [payment EXCEPT ![p] = [NoPayment EXCEPT !.kind = kind, !.user = u, !.card = c,
                                                            !.late = (user[u] = "merged")]]
  /\ UNCHANGED <<user, table, request, begun, raced, dropped>>

\* payment.succeeded.  A donation must be pending, and its card is its owner's
\* as loaded; that of a binding is for the user its metadata names.
Notify(r, p) ==
  /\ payment[p].kind # "none"
  /\ payment[p].kind = "donation" => ~payment[p].done
  /\ Begin(r, [Idle EXCEPT !.at = "notified", !.users = {payment[p].user},
                           !.user = payment[p].user, !.pm = p])
  /\ UNCHANGED <<user, payment, table, dropped>>

\* save_from_yookassa: a live row of whomever is enough.  A donation has been
\* flushed as successful: a second notification of it waits here.
FindCard(r) ==
  LET q == request[r] IN
  /\ q.at = "notified"
  /\ payment[q.pm].kind = "donation" =>
       \A o \in Request : request[o].pm = q.pm => request[o].at = "notified"
  /\ Proceed(r, IF RowsFor(q.pm) # {}
                THEN [q EXCEPT !.at = "found"]
                ELSE [q EXCEPT !.at = "saving", !.flag = (LiveRows(q.user) = {})])
  /\ UNCHANGED <<user, payment, table, dropped>>

\* The unique index on live rows: who inserts second waits for the first.
Admits(p) ==
  /\ RowsFor(p) = {}
  /\ ~\E o \in Request : request[o].pm = p /\ request[o].at = "inserted"

\* The foreign key refuses an account that is gone.
InsertCard(r) ==
  LET q == request[r] IN
  /\ q.at = "saving"
  /\ user[q.user] # "gone"
  /\ Admits(q.pm)
  /\ Proceed(r, [q EXCEPT !.at = "inserted"])
  /\ UNCHANGED <<user, payment, table, dropped>>

\* A bug: the refund is asked for before the card is written.
RefundableEarly(q) == q.at \in {"saving", "inserted", "found"}

Refundable(q) == q.at \in {"inserted", "found"}

\* A binding is free: its rouble goes back before the commit.  The idempotence
\* key is the payment's; a refusal is swallowed, and the request commits.
GiveBack(r) ==
  LET q == request[r] IN
  /\ q.pm # None /\ payment[q.pm].kind = "card_save" /\ Refundable(q) /\ ~q.back
  /\ payment' = [payment EXCEPT ![q.pm].refunded = TRUE]
  /\ Proceed(r, [q EXCEPT !.back = TRUE])
  /\ UNCHANGED <<user, table, dropped>>

\* A bug: parts that are missing are hashed like any others.
PrintOfParts(p, described) == IF described THEN payment[p].card ELSE "|||"

\* build_card_fingerprint: none if the notification does not describe the card.
PrintOf(p, described) == IF described THEN payment[p].card ELSE None

CommitCard(r, described) ==
  LET q == request[r]
      row == [pm |-> q.pm, owner |-> q.user, live |-> TRUE, default |-> q.flag,
              print |-> PrintOf(q.pm, described)]
  IN
  /\ q.at \in {"inserted", "found"}
  /\ table' = IF q.at = "inserted" THEN Append(table, row) ELSE table
  /\ payment' = [payment EXCEPT ![q.pm].done = TRUE]
  /\ Finish(r)
  /\ UNCHANGED <<user, dropped>>

\* The handler raises, or the process dies: nothing was written here.
Rollback(r) ==
  /\ request[r] # Idle
  /\ dropped' = IF request[r].back THEN dropped \cup {request[r].pm} ELSE dropped
  /\ Finish(r)
  /\ UNCHANGED <<user, payment, table>>

-----------------------------------------------------------------------------
LoadRow(r, u, i, at) ==
  /\ i \in LiveRows(u)
  /\ Begin(r, [Idle EXCEPT !.at = at, !.users = {u}, !.user = u, !.row = i,
                           !.flag = table[i].default])
  /\ UNCHANGED <<user, payment, table, dropped>>

\* A row that is flushed as deleted is locked.
Unlocked(I) == \A o \in Request : request[o].at = "promoting" => request[o].row \notin I

\* A bug: was_default is read after the row has been changed.
PromotableNever(q) == {}

\* The cards that can be the default after the deletion.
Promotable(q) == LiveRows(q.user) \ {q.row}

\* delete_for_user: the newest card that is left becomes the default.
Promote(r) ==
  LET q == request[r] IN
  /\ q.at = "deleting"
  /\ table[q.row].owner # None /\ Unlocked({q.row})
  /\ Proceed(r, [q EXCEPT !.at = "promoting",
                          !.next = IF q.flag THEN Newest(Promotable(q)) ELSE 0])
  /\ UNCHANGED <<user, payment, table, dropped>>

CommitDelete(r) ==
  LET q == request[r] IN
  /\ q.at = "promoting"
  /\ table' = Put([table EXCEPT ![q.row] = AsDropped(table[q.row], q.flag)], {q.next}, AsDefault)
  /\ Finish(r)
  /\ UNCHANGED <<user, payment, dropped>>

\* set_default_for_user: an UPDATE of the others, and of this row only if it
\* was not the default when it was loaded.
CommitDefault(r) ==
  LET q == request[r]
      others == {i \in DOMAIN table : table[i].owner = q.user} \ {q.row}
  IN
  /\ q.at = "defaulting"
  /\ table[q.row].owner # None /\ Unlocked(others \cup {q.row})
  /\ table' = Put(Put(table, others, AsOther), IF q.flag THEN {} ELSE {q.row}, AsDefault)
  /\ Finish(r)
  /\ UNCHANGED <<user, payment, dropped>>

-----------------------------------------------------------------------------
Prints(u) == {table[i].print : i \in LiveRows(u)} \ {None}

Orphans(u, P) == {o \in User \ {u} : user[o] = "guest" /\ Prints(o) \cap P # {}}

\* recover_all_orphaned_accounts_for_user, or for one of the cards.
LoadRecover(r, u) ==
  \E P \in {Prints(u)} \cup {{c} : c \in Prints(u)} :
    /\ P # {}
    /\ user[u] \in {"guest", "person"}
    /\ Begin(r, [Idle EXCEPT !.at = "recovering", !.user = u, !.users = {u} \cup Orphans(u, P)])
    /\ UNCHANGED <<user, payment, table, dropped>>

\* The newest default stays; if there is none the newest card becomes it.
OneDefaultOf(t, u) ==
  LET live == LiveOf(t, u)
      kept == Newest({i \in live : t[i].default})
  IN Put(Put(t, live \ {kept}, AsOther), {IF kept = 0 THEN Newest(live) ELSE kept}, AsDefault)

\* merge_anonymous_into, as far as cards go: deleted ones move too.
Merge(t, s, u) == OneDefaultOf(Put(t, {i \in DOMAIN t : t[i].owner = s},
                                   LAMBDA row : [row EXCEPT !.owner = u]), u)

\* A bug: the donations stay with the guest.
OwnedStays(p, S, u) == payment[p]

\* The donations follow; what the metadata of a binding says does not.
Owned(p, S, u) ==
  IF payment[p].kind = "donation" /\ payment[p].user \in S
  THEN [payment[p] EXCEPT !.user = u] ELSE payment[p]

\* The guests are merged one after the other: the table after each of them.
Merges(t, order, u) ==
  LET merged[n \in 0..Len(order)] == IF n = 0 THEN t ELSE Merge(merged[n - 1], order[n], u)
  IN  merged

\* In the order of the query.
MergeAll(S, u) ==
  /\ Unlocked({i \in DOMAIN table : table[i].owner \in S \cup {u}})
  /\ \E order \in SetToSeqs(S) : table' = Merges(table, order, u)[Len(order)]
  /\ user' = [s \in User |-> IF s \in S THEN "merged" ELSE user[s]]
  /\ payment' = [p \in Payment |-> Owned(p, S, u)]

CommitRecover(r) ==
  LET q == request[r] IN
  /\ q.at = "recovering"
  /\ \A u \in q.users : user[u] # "gone"
  /\ MergeAll(q.users \ {q.user}, q.user)
  /\ Finish(r)
  /\ UNCHANGED dropped

\* An e-mail is linked to a guest's device: the guest is merged into a person.
Link(s, u) ==
  /\ s # u /\ user[s] = "guest" /\ user[u] = "person"
  /\ MergeAll({s}, u)
  /\ Once({s, u})
  /\ UNCHANGED dropped

\* cleanup_inactive_anonymous_users: a guest with donations is kept as a row.
Clean(u, kept) ==
  LET mine == {i \in DOMAIN table : table[i].owner = u} IN
  /\ user[u] = "guest"
  /\ (\E p \in Payment : payment[p].kind = "donation" /\ payment[p].user = u) => kept
  /\ Unlocked(mine)
  /\ user' = [user EXCEPT ![u] = IF kept THEN "cleaned" ELSE "gone"]
  /\ table' = Put(table, mine,
                  LAMBDA row : IF kept THEN AsDeleted(row)
                               ELSE [AsDeleted(row) EXCEPT !.owner = None])
  /\ Once({u})
  /\ UNCHANGED <<payment, dropped>>

-----------------------------------------------------------------------------
\* backfill_fingerprints_from_yookassa; the provider may fail to answer.
Backfill(I) ==
  /\ I # {} /\ I \subseteq {i \in DOMAIN table : table[i].live /\ table[i].print = None}
  /\ table' = Put(table, I, LAMBDA row : [row EXCEPT !.print = payment[row.pm].card])
  /\ Once({table[i].owner : i \in I})
  /\ UNCHANGED <<user, payment, dropped>>

LoadDedupe(r) ==
  /\ \E i \in DOMAIN table : table[i].live /\ table[i].print # None
  /\ Begin(r, [Idle EXCEPT !.at = "deduping", !.users = User, !.seen = table])
  /\ UNCHANGED <<user, payment, table, dropped>>

\* A bug: the cards are grouped by their fingerprint only.
SameCardAnybody(a, b) == a.print = b.print

SameCard(a, b) == a.owner = b.owner /\ a.print = b.print

\* dedupe_payment_methods: of equal cards the newest stays.  The users with
\* duplicates are read again, but a row that was loaded keeps its attributes.
CommitDedupe(r) ==
  LET seen   == request[r].seen
      loaded == {i \in DOMAIN seen : seen[i].live /\ seen[i].print # None}
      dup    == {i \in loaded : \E j \in loaded : i < j /\ SameCard(seen[i], seen[j])}
      group(u)   == LiveRows(u) \ dup
      default(i) == IF i \in loaded THEN seen[i].default ELSE table[i].default
      kept(u)    == Newest({i \in group(u) : default(i)})
      affected   == {seen[i].owner : i \in dup}
      demoted    == UNION {{i \in group(u) : default(i)} \ {kept(u)} : u \in affected}
      promoted   == {Newest(group(u)) : u \in {v \in affected : kept(v) = 0}}
  IN
  /\ request[r].at = "deduping"
  /\ \A i \in dup : table[i].owner # None
  /\ Unlocked(dup \cup demoted \cup promoted)
  /\ LET t == Put(Put(table, demoted, AsOther), promoted, AsDefault) IN
       table' = [i \in DOMAIN t |-> IF i \in dup THEN AsDropped(t[i], seen[i].default) ELSE t[i]]
  /\ Finish(r)
  /\ UNCHANGED <<user, payment, dropped>>

-----------------------------------------------------------------------------
\* The endpoints of /payment-methods that change a card.
UserRequest(r) ==
  \/ \E u \in User, i \in DOMAIN table :
       LoadRow(r, u, i, "deleting") \/ LoadRow(r, u, i, "defaulting")
  \/ Promote(r) \/ CommitDelete(r) \/ CommitDefault(r)
  \/ \E u \in User : LoadRecover(r, u)
  \/ CommitRecover(r)

\* Those of /admin/payment-methods.
AdminRequest ==
  \/ \E r \in Request : LoadDedupe(r) \/ CommitDedupe(r)
  \/ \E I \in SUBSET DOMAIN table : Backfill(I)

Next ==
  \/ \E p \in Payment, u \in User, c \in Card, k \in {"donation", "card_save"} : Pay(p, u, c, k)
  \/ \E r \in Request :
       \/ \E p \in Payment : Notify(r, p)
       \/ FindCard(r) \/ InsertCard(r) \/ GiveBack(r)
       \/ \E described \in BOOLEAN : CommitCard(r, described)
       \/ UserRequest(r) \/ Rollback(r)
  \/ AdminRequest
  \/ \E s, u \in User : Link(s, u)
  \/ \E u \in User, kept \in BOOLEAN : Clean(u, kept)

Spec == Init /\ [][Next]_vars

-----------------------------------------------------------------------------
\* A user with cards has exactly one default card, whatever is saved, deleted,
\* merged or deduplicated, unless two requests have worked on the user at the
\* same time: the flag is computed from reads without locks
\* (services/payment_method.py:92-98, 195-212, 218-222, 571-579).
OneDefault ==
  \A u \in User \ raced :
    LiveRows(u) # {} => Cardinality({i \in LiveRows(u) : table[i].default}) = 1

\* A merged account keeps no card.  Its donation's card can reach it only
\* through a notification that overlaps the merge, because the donation
\* follows the merge, or if the donation was made after it; the card of a
\* binding is lost on it, because the metadata name the account that bound it
\* (services/account_merge.py:48, 64-73, services/webhook.py:163-171).
NothingLeftBehind ==
  \A i \in DOMAIN table :
    table[i].live /\ table[i].owner \notin raced \cup {None} /\ user[table[i].owner] = "merged"
      => payment[table[i].pm].kind = "card_save" \/ payment[table[i].pm].late

\* The rouble of a binding goes back only when its card is written: none is
\* given back for a card that could not be saved, except when the request
\* dies before its commit (services/webhook.py:165-191).
GivenBackForACard ==
  \A p \in Payment :
    payment[p].refunded =>
      \/ p \in dropped
      \/ \E i \in DOMAIN table : table[i].pm = p
      \/ \E r \in Request : request[r].pm = p /\ request[r].at = "inserted"

\* A deduplication takes no physical card away from anybody and leaves one of
\* each: the newest (services/payment_method.py:522-559).
DedupeKeepsNewest ==
  [][\A r \in Request : CommitDedupe(r) =>
       \A u \in User \ raced : \A c \in Card :
         LET mine == {i \in LiveRows(u) : table[i].print = c}
         IN {i \in LiveRows(u)' : table'[i].print = c} = {Newest(mine)} \ {0}]_vars
=============================================================================
