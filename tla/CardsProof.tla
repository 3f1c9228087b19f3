----------------------------- MODULE CardsProof -----------------------------
(***************************************************************************)
(* Saved payment methods: who is not raced on has one default card, for    *)
(* every number of users, cards, payments and requests.                    *)
(*                                                                         *)
(* A step of Cards works on some accounts: those whose rows it writes.     *)
(* What the other requests have read still holds, or else they work on the *)
(* same accounts and all of those are raced (Works, StepKeeps); what the   *)
(* step does to its own accounts is settled action by action.              *)
(***************************************************************************)
EXTENDS Cards, FiniteSetTheorems, SequenceTheorems, WellFoundedInduction, TLAPS

(***************************************************************************)
(* The inductive invariant                                                 *)
(***************************************************************************)
\* The default cards of a user.
DefaultsOf(t, u) == {i \in LiveOf(t, u) : t[i].default}

\* u has one default card, if it has cards.
Sole(t, u) == LiveOf(t, u) # {} => \E d \in LiveOf(t, u) : DefaultsOf(t, u) = {d}

Saves    == {"notified", "found", "saving", "inserted"}
Holds    == {"deleting", "promoting", "defaulting"}

\* What a request knows of itself.
Shape(r) ==
  LET q == request[r] IN
  /\ q.at = "idle" => q = Idle
  /\ q.at \in Saves \cup Holds => q.user \in User /\ q.users = {q.user}
  /\ q.at \in Saves => q.pm \in Payment /\ payment[q.pm].kind # "none" /\ q.row = 0 /\ q.next = 0
  /\ q.at \in Holds => q.pm = None /\ ~q.back /\ q.row # 0
  /\ q.at = "recovering" => q.user \in q.users /\ q.pm = None /\ ~q.back /\ q.row = 0 /\ q.next = 0
  /\ q.at = "deduping" => q.users = User /\ User # {} /\ q.pm = None /\ ~q.back /\ q.row = 0 /\ q.next = 0

\* Two requests with a user in common have raced on all of theirs.
Apart ==
  \A r, o \in Request :
    r # o /\ Users(r) \cap Users(o) # {} => Users(r) \cup Users(o) \subseteq raced

\* A row that a request holds is its user's, unless it was merged under it.
Held(r) ==
  LET q == request[r] IN
  \A i \in {q.row, q.next} \ {0} : table[i].owner \in {q.user, None} \cup raced

\* What a request has read is still so, unless its user was raced on.
Fresh(r) ==
  LET q == request[r] IN
  /\ q.at = "found" => \E i \in DOMAIN table : table[i].pm = q.pm
  /\ q.user \in User \ raced =>
       /\ q.at \in {"saving", "inserted"} => q.flag = (LiveRows(q.user) = {})
       /\ q.at \in Holds => q.row \in LiveRows(q.user) /\ q.flag = table[q.row].default
       /\ q.at = "promoting" => q.next = IF q.flag THEN Newest(Promotable(q)) ELSE 0
       /\ q.at = "recovering" => user[q.user] \in {"guest", "person"}
       /\ q.at \in Saves /\ user[q.user] = "merged" =>
            payment[q.pm].kind = "card_save" \/ payment[q.pm].late
  /\ q.at = "deduping" => User \subseteq raced \/ q.seen = table

\* A live card has an owner.
Owners == \A i \in DOMAIN table : table[i].live => table[i].owner \in User

Defaults == \A u \in User \ raced : Sole(table, u)

\* The donations of a merged account were made after the merge.
Followed ==
  \A p \in Payment :
    /\ payment[p].kind = "donation"
    /\ payment[p].user \in User \ raced
    /\ user[payment[p].user] = "merged"
    => payment[p].late

\* What a refund was given for: a card, one about to be committed by the
\* request that asked for the refund, or one that was rolled back.
Covered(p) ==
  \/ p \in dropped
  \/ \E i \in DOMAIN table : table[i].pm = p
  \/ \E r \in Request : request[r].pm = p /\ request[r].at = "inserted" /\ request[r].back

Returned == \A p \in Payment : payment[p].refunded => Covered(p)

\* A payment that was made has a payer.
Paid ==
  \A p \in Payment :
    payment[p] # NoPayment => payment[p].kind # "none" /\ payment[p].user \in User

\* What is so of each request.
Open(r) == Shape(r) /\ Held(r) /\ Fresh(r)

Inv ==
  /\ TypeOK
  /\ \A r \in Request : Open(r)
  /\ Apart /\ Owners /\ Defaults /\ Followed /\ Returned /\ Paid /\ NothingLeftBehind

-----------------------------------------------------------------------------
\* Facts about numbers and sets.

\* Induction over the members of a set.
LEMMA Stepwise ==
  ASSUME NEW S \in SUBSET Nat, 0 \in S, \A n \in S : n + 1 \in S
  PROVE  \A n \in Nat : n \in S
<1> DEFINE R == {ss \in Nat \X Nat : ss[1] < ss[2]}
           T == Nat \ S
<1>1. IsWellFoundedOn(R, Nat)
  BY NatLessThanWellFounded DEF OpToRel
<1> HIDE DEF R
<1>2. SUFFICES ASSUME T # {} PROVE FALSE
  OBVIOUS
<1>3. PICK x \in T : \A y \in T : <<y, x>> \notin R
  <2> HIDE DEF T
  <2>1. T \subseteq Nat
    BY DEF T
  <2>2. QED
    BY <1>1, <1>2, <2>1, WFMin
<1>4. x \in Nat /\ x # 0 /\ x - 1 \in Nat
  OBVIOUS
<1>5. <<x - 1, x>> \in R
  BY <1>4 DEF R
<1>6. x - 1 \in S
  BY <1>3, <1>4, <1>5
<1>7. (x - 1) + 1 \in S /\ (x - 1) + 1 = x
  BY <1>4, <1>6
<1>8. QED
  BY <1>7

\* A set of numbers with a bound has a largest one.
LEMMA Largest ==
  ASSUME NEW n \in Nat, NEW I \in SUBSET (0..n), I # {}
  PROVE  \E x \in I : \A y \in I : y <= x
<1> DEFINE S == {k \in Nat : \A J \in SUBSET (0..k) :
                               J # {} => \E x \in J : \A y \in J : y <= x}
<1>1. 0 \in S
  <2>1. 0..0 = {0}
    OBVIOUS
  <2>2. ASSUME NEW J \in SUBSET (0..0), J # {}
        PROVE  \E x \in J : \A y \in J : y <= x
    <3>1. J = {0}
      BY <2>1, <2>2
    <3>2. QED
      BY <3>1
  <2>3. QED
    BY <2>2
<1>2. ASSUME NEW k \in S PROVE k + 1 \in S
  <2> SUFFICES ASSUME NEW J \in SUBSET (0..(k + 1)), J # {}
               PROVE  \E x \in J : \A y \in J : y <= x
    OBVIOUS
  <2>1. CASE k + 1 \in J
    BY <2>1
  <2>2. CASE k + 1 \notin J
    <3>1. J \in SUBSET (0..k)
      BY <2>2
    <3>2. QED
      BY <3>1
  <2>3. QED
    BY <2>1, <2>2
<1>3. n \in S
  <2> HIDE DEF S
  <2>1. S \in SUBSET Nat
    BY DEF S
  <2>2. QED
    BY <1>1, <1>2, <2>1, Stepwise
<1>4. QED
  BY <1>3

\* The newest of some rows is one of them, and none is newer.
LEMMA NewestIs ==
  ASSUME NEW n \in Nat, NEW I \in SUBSET (1..n)
  PROVE  /\ I = {} => Newest(I) = 0
         /\ I # {} => Newest(I) \in I /\ \A y \in I : y <= Newest(I)
         /\ Newest(I) \in 0..n
<1>1. I \cup {0} \in SUBSET (0..n) /\ I \cup {0} # {}
  OBVIOUS
<1>2. \E x \in I \cup {0} : \A y \in I \cup {0} : y <= x
  BY <1>1, Largest
<1>3. \E x \in I \cup {0} : \A y \in I \cup {0} : x >= y
  BY <1>1, <1>2
<1>4. Newest(I) \in I \cup {0} /\ \A y \in I \cup {0} : Newest(I) >= y
  BY <1>3 DEF Newest, Max
<1>5. PICK m : m = Newest(I)
  OBVIOUS
<1>6. m \in 0..n /\ m \in I \cup {0} /\ \A y \in I \cup {0} : m >= y
  BY <1>1, <1>4, <1>5
<1>7. \A y \in I : y \in 1..n
  OBVIOUS
<1>8. I = {} => m = 0
  BY <1>6
<1>9. I # {} => m \in I /\ \A y \in I : y <= m
  <2> SUFFICES ASSUME NEW z \in I PROVE m \in I /\ \A y \in I : y <= m
    OBVIOUS
  <2>1. z \in 1..n /\ m >= z
    BY <1>6
  <2>2. m # 0
    BY <2>1
  <2>3. \A y \in I : m >= y /\ y \in Nat
    BY <1>6, <1>7
  <2>4. QED
    BY <1>6, <2>2, <2>3
<1>10. QED
  BY <1>5, <1>6, <1>8, <1>9

-----------------------------------------------------------------------------
\* Merging one account, and merging several.

\* A table stays one when the attributes of its rows change.
LEMMA Rewritten ==
  ASSUME NEW t \in Seq(RowOf), NEW v, v = [i \in DOMAIN t |-> v[i]],
         \A i \in DOMAIN t : v[i] \in RowOf
  PROVE  v \in Seq(RowOf) /\ Len(v) = Len(t) /\ DOMAIN v = 1..Len(t) /\ DOMAIN t = 1..Len(t)
<1>1. DOMAIN t = 1..Len(t) /\ Len(t) \in Nat
  OBVIOUS
<1>2. v \in [1..Len(t) -> RowOf]
  BY <1>1
<1>3. QED
  BY <1>1, <1>2

\* OneDefaultOf changes is_default only, of live rows of u only, and leaves u
\* one default card.
LEMMA OneDefaultOfIs ==
  ASSUME NEW t \in Seq(RowOf), NEW u \in User, NEW v, v = OneDefaultOf(t, u)
  PROVE  /\ v \in Seq(RowOf) /\ Len(v) = Len(t)
         /\ \A i \in DOMAIN t :
              /\ v[i].pm = t[i].pm /\ v[i].live = t[i].live /\ v[i].owner = t[i].owner
              /\ v[i].print = t[i].print
              /\ t[i].owner # u => v[i] = t[i]
         /\ Sole(v, u)
<1> DEFINE live == LiveOf(t, u)
           kept == Newest({i \in live : t[i].default})
           next == IF kept = 0 THEN Newest(live) ELSE kept
           a == [i \in DOMAIN t |-> IF i \in live \ {kept} THEN AsOther(t[i]) ELSE t[i]]
           w == [i \in DOMAIN a |-> IF i \in {next} THEN AsDefault(a[i]) ELSE a[i]]
<1>1. v = w
  BY DEF OneDefaultOf, Put
<1>2. DOMAIN t = 1..Len(t) /\ Len(t) \in Nat /\ \A i \in DOMAIN t : t[i] \in RowOf
  OBVIOUS
<1>3. live \in SUBSET (1..Len(t)) /\ {i \in live : t[i].default} \in SUBSET (1..Len(t))
  BY <1>2 DEF LiveOf
<1>4. \A i \in live : t[i].live /\ t[i].owner = u /\ i \in DOMAIN t
  BY DEF LiveOf
<1>5. /\ kept = 0 => \A i \in live : ~t[i].default
      /\ kept # 0 => kept \in live /\ t[kept].default
  <2> DEFINE I == {i \in live : t[i].default}
  <2>1. kept = Newest(I) /\ I \in SUBSET (1..Len(t))
    BY <1>3
  <2>2. I = {} => kept = 0
    BY <1>2, <2>1, NewestIs
  <2>3. I # {} => kept \in I
    BY <1>2, <2>1, NewestIs
  <2>4. 0 \notin I
    BY <1>3
  <2> HIDE DEF kept, live
  <2>5. QED
    BY <2>2, <2>3, <2>4
<1>6. /\ live = {} => next = 0
      /\ live # {} => next \in live
      /\ kept # 0 => next = kept
  <2>1. live = {} => Newest(live) = 0
    BY <1>2, <1>3, NewestIs
  <2>2. live # {} => Newest(live) \in live
    BY <1>2, <1>3, NewestIs
  <2> HIDE DEF kept, live
  <2>3. QED
    BY <1>5, <2>1, <2>2
<1> HIDE DEF live, kept, next
<1>7. ASSUME NEW i \in DOMAIN t
      PROVE  /\ w[i] \in RowOf
             /\ w[i].pm = t[i].pm /\ w[i].live = t[i].live /\ w[i].owner = t[i].owner
             /\ w[i].print = t[i].print
             /\ i \notin live => w[i] = t[i]
             /\ i \in live => w[i].default = (i = next)
  <2>1. t[i] \in RowOf
    BY <1>2
  <2>2. i \in live => i # 0 /\ next # 0
    BY <1>3, <1>6
  <2>3. CASE i = next /\ i \in live
    <3>1. w[i] = AsDefault(a[i]) /\ (a[i] = AsOther(t[i]) \/ a[i] = t[i])
      BY <2>3
    <3>2. QED
      BY <2>1, <2>3, <3>1 DEF AsDefault, AsOther, RowOf
  <2>4. CASE i # next /\ i \in live
    <3>1. w[i] = a[i]
      BY <2>4
    <3>2. i # kept
      BY <1>3, <1>6, <2>2, <2>4
    <3>3. w[i] = AsOther(t[i])
      BY <2>4, <3>1, <3>2
    <3>4. QED
      BY <2>1, <2>4, <3>3 DEF AsOther, RowOf
  <2>5. CASE i \notin live
    <3>1. i # next
      <4>1. i # 0
        BY <1>2
      <4>2. QED
        BY <1>6, <2>5, <4>1
    <3>2. w[i] = t[i]
      BY <2>5, <3>1
    <3>3. QED
      BY <2>1, <2>5, <3>2
  <2>6. QED
    BY <2>3, <2>4, <2>5
<1>8. DOMAIN w = DOMAIN t /\ w = [i \in DOMAIN t |-> w[i]]
  OBVIOUS
<1>9. \A i \in DOMAIN t : t[i].owner # u => w[i] = t[i]
  BY <1>4, <1>7
<1> HIDE DEF w
<1>10. w \in Seq(RowOf) /\ Len(w) = Len(t)
  BY <1>7, <1>8, Rewritten
<1>11. LiveOf(w, u) = live
  BY <1>7, <1>8 DEF LiveOf, live
<1>12. DefaultsOf(w, u) = {i \in live : i = next}
  <2>1. \A i \in live : w[i].default = (i = next)
    BY <1>4, <1>7
  <2>2. QED
    BY <1>11, <2>1 DEF DefaultsOf
<1>13. Sole(w, u)
  BY <1>6, <1>11, <1>12 DEF Sole
<1>14. QED
  BY <1>1, <1>7, <1>9, <1>10, <1>13

\* v is the table t with the rows of the accounts S moved to u.
Moves(t, S, u, v) ==
  /\ v \in Seq(RowOf) /\ Len(v) = Len(t)
  /\ \A i \in DOMAIN t :
       /\ v[i].pm = t[i].pm /\ v[i].live = t[i].live /\ v[i].print = t[i].print
       /\ v[i].owner = IF t[i].owner \in S THEN u ELSE t[i].owner
       /\ v[i].owner # u => v[i] = t[i]

\* A merge moves the rows of s to u, and leaves u one default card.
LEMMA MergeIs ==
  ASSUME NEW t \in Seq(RowOf), NEW s \in User, NEW u \in User
  PROVE  Moves(t, {s}, u, Merge(t, s, u)) /\ Sole(Merge(t, s, u), u)
<1> PICK v : v = Merge(t, s, u)
  OBVIOUS
<1> DEFINE I == {i \in DOMAIN t : t[i].owner = s}
           a == [i \in DOMAIN t |-> IF i \in I THEN [t[i] EXCEPT !.owner = u] ELSE t[i]]
<1>1. v = OneDefaultOf(a, u)
  BY DEF Merge, Put
<1>2. \A i \in DOMAIN t : t[i] \in RowOf
  OBVIOUS
<1>3. \A i \in DOMAIN t :
        /\ a[i] \in RowOf
        /\ a[i].pm = t[i].pm /\ a[i].live = t[i].live /\ a[i].print = t[i].print
        /\ a[i].owner = IF t[i].owner = s THEN u ELSE t[i].owner
        /\ a[i].owner # u => a[i] = t[i]
  BY <1>2 DEF RowOf
<1>4. a = [i \in DOMAIN t |-> a[i]]
  OBVIOUS
<1> HIDE DEF a
<1>5. a \in Seq(RowOf) /\ Len(a) = Len(t) /\ DOMAIN a = DOMAIN t
  BY <1>3, <1>4, Rewritten
<1>6. /\ v \in Seq(RowOf) /\ Len(v) = Len(a)
      /\ \A i \in DOMAIN a :
           /\ v[i].pm = a[i].pm /\ v[i].live = a[i].live /\ v[i].owner = a[i].owner
           /\ v[i].print = a[i].print
           /\ a[i].owner # u => v[i] = a[i]
      /\ Sole(v, u)
  BY <1>1, <1>5, OneDefaultOfIs
<1> HIDE DEF I
<1>7. Moves(t, {s}, u, v) /\ Sole(v, u)
  BY <1>3, <1>5, <1>6 DEF Moves
<1>8. QED
  BY <1>7

\* The tables that a sequence of merges goes through.
LEMMA MergesAre ==
  ASSUME NEW t, NEW u, NEW order, Len(order) \in Nat
  PROVE  Merges(t, order, u) =
           [n \in 0..Len(order) |->
              IF n = 0 THEN t ELSE Merge(Merges(t, order, u)[n - 1], order[n], u)]
<1> DEFINE N == Len(order)
           Is(f, k) == f = [n \in 0..k |-> IF n = 0 THEN t ELSE Merge(f[n - 1], order[n], u)]
           S == {k \in Nat : \E f : Is(f, k)}
<1>1. 0 \in S
  <2> DEFINE f == [n \in 0..0 |-> t]
  <2>1. Is(f, 0)
    OBVIOUS
  <2>2. QED
    BY <2>1
<1>2. ASSUME NEW k \in S PROVE k + 1 \in S
  <2>1. PICK f : Is(f, k)
    OBVIOUS
  <2> DEFINE g == [n \in 0..(k + 1) |-> IF n = k + 1 THEN Merge(f[k], order[k + 1], u) ELSE f[n]]
  <2>2. \A n \in 0..(k + 1) : g[n] = IF n = 0 THEN t ELSE Merge(g[n - 1], order[n], u)
    <3> SUFFICES ASSUME NEW n \in 0..(k + 1)
                 PROVE  g[n] = IF n = 0 THEN t ELSE Merge(g[n - 1], order[n], u)
      OBVIOUS
    <3>1. CASE n = k + 1
      <4>1. n - 1 = k /\ g[n - 1] = f[k] /\ n # 0
        BY <3>1
      <4>2. QED
        BY <3>1, <4>1
    <3>2. CASE n # k + 1
      <4>1. n \in 0..k /\ g[n] = f[n]
        BY <3>2
      <4>2. n # 0 => n - 1 \in 0..(k + 1) /\ n - 1 # k + 1 /\ g[n - 1] = f[n - 1]
        BY <4>1
      <4>3. f[n] = IF n = 0 THEN t ELSE Merge(f[n - 1], order[n], u)
        BY <2>1, <4>1
      <4> HIDE DEF g
      <4>4. QED
        BY <4>1, <4>2, <4>3
    <3>3. QED
      BY <3>1, <3>2
  <2>3. g = [n \in 0..(k + 1) |-> g[n]]
    OBVIOUS
  <2> HIDE DEF g
  <2>4. Is(g, k + 1)
    BY <2>2, <2>3
  <2>5. k + 1 \in Nat /\ \E h : Is(h, k + 1)
    <3> HIDE DEF Is
    <3>1. QED
      BY <2>4
  <2>6. QED
    BY <2>5
<1>3. N \in S
  <2> HIDE DEF S
  <2>1. S \in SUBSET Nat
    BY DEF S
  <2>2. QED
    BY <1>1, <1>2, <2>1, Stepwise
<1>4. \E f : Is(f, N)
  BY <1>3
<1>5. Is(Merges(t, order, u), N)
  BY <1>4 DEF Merges
<1>6. QED
  BY <1>5

\* Merging the accounts S into u, whatever the order.
LEMMA MergesIs ==
  ASSUME NEW t \in Seq(RowOf), NEW S \in SUBSET User, NEW u \in User, CardsAssumption,
         NEW order \in SetToSeqs(S), NEW v, v = Merges(t, order, u)[Len(order)]
  PROVE  /\ Moves(t, S, u, v)
         /\ S = {} => v = t
         /\ S # {} => Sole(v, u)
<1> DEFINE N == Cardinality(S)
<1>1. IsFiniteSet(S) /\ N \in Nat
  BY FS_Subset, FS_CardinalityType DEF CardsAssumption
<1>2. order \in [1..N -> S] /\ \A i, j \in 1..N : i # j => order[i] # order[j]
  BY DEF SetToSeqs
<1>3. Len(order) = N
  BY <1>1, <1>2
<1>4. ASSUME NEW s \in S PROVE \E k \in 1..N : order[k] = s
  <2> SUFFICES ASSUME \A k \in 1..N : order[k] # s PROVE FALSE
    OBVIOUS
  <2>1. order \in [1..N -> S \ {s}]
    BY <1>2
  <2>2. IsFiniteSet(1..N) /\ Cardinality(1..N) = N
    <3>1. 1 \in Int /\ N \in Int /\ (IF 1 > N THEN 0 ELSE N - 1 + 1) = N
      BY <1>1
    <3>2. QED
      BY <3>1, FS_Interval
  <2>3. IsFiniteSet(S \ {s}) /\ Cardinality(S \ {s}) = N - 1
    BY <1>1, FS_RemoveElement
  <2>4. Cardinality(S \ {s}) < Cardinality(1..N)
    BY <1>1, <2>2, <2>3
  <2>5. \E x, y \in 1..N : x # y /\ order[x] = order[y]
    BY <2>1, <2>2, <2>3, <2>4, FS_PigeonHole
  <2>6. QED
    BY <1>2, <2>5
<1> DEFINE m == Merges(t, order, u)
           Moved(k) == {order[j] : j \in 1..k}
           Good(k) ==
             /\ Moves(t, Moved(k), u, m[k])
             /\ k # 0 => Sole(m[k], u)
           G == {k \in Nat : k <= N => Good(k)}
<1>5. m = [n \in 0..N |-> IF n = 0 THEN t ELSE Merge(m[n - 1], order[n], u)]
  BY <1>1, <1>3, MergesAre
<1> HIDE DEF m
<1>6. m[0] = t
  BY <1>1, <1>5
<1>7. 0 \in G
  <2>1. Moved(0) = {}
    OBVIOUS
  <2>2. Good(0)
    BY <1>6, <2>1 DEF Moves
  <2>3. QED
    BY <2>2
<1>8. ASSUME NEW k \in G PROVE k + 1 \in G
  <2> SUFFICES ASSUME k + 1 <= N PROVE Good(k + 1)
    OBVIOUS
  <2>1. k \in Nat /\ k \in 0..N /\ k + 1 \in 1..N /\ Good(k)
    BY <1>1
  <2>2. m[k + 1] = Merge(m[k], order[k + 1], u)
    BY <1>1, <1>5, <2>1
  <2>3. Moved(k + 1) = Moved(k) \cup {order[k + 1]}
    BY <2>1
  <2>4. order[k + 1] \in User
    BY <1>2, <2>1
  <2> HIDE DEF Moved
  <2>5. Moves(m[k], {order[k + 1]}, u, m[k + 1]) /\ Sole(m[k + 1], u)
    <3>1. m[k] \in Seq(RowOf)
      BY <2>1 DEF Moves
    <3>2. QED
      BY <2>2, <2>4, <3>1, MergeIs
  <2> PICK a, b, s : a = m[k] /\ b = m[k + 1] /\ s = order[k + 1]
    OBVIOUS
  <2>6. Moves(t, Moved(k), u, a) /\ Moves(a, {s}, u, b) /\ Moved(k + 1) = Moved(k) \cup {s}
    BY <2>1, <2>3, <2>5
  <2> HIDE DEF m, N, G
  <2>7. Moves(t, Moved(k + 1), u, b)
    <3>1. DOMAIN a = DOMAIN t
      BY <2>6 DEF Moves
    <3>2. QED
      BY <2>6, <3>1 DEF Moves
  <2>8. QED
    BY <2>5, <2>7
<1>9. N \in G
  <2> HIDE DEF G
  <2>1. G \in SUBSET Nat
    BY DEF G
  <2>2. QED
    BY <1>1, <1>7, <1>8, <2>1, Stepwise
<1>10. Good(N)
  BY <1>1, <1>9
<1>11. Moved(N) = S
  BY <1>2, <1>4
<1>12. S = {} => N = 0
  BY FS_EmptySet
<1>13. S # {} => N # 0
  BY <1>1, FS_EmptySet
<1>14. v = m[N]
  BY <1>3 DEF m
<1> HIDE DEF Moved, N
<1>15. Moves(t, S, u, v)
  BY <1>10, <1>11, <1>14
<1>16. QED
  BY <1>6, <1>10, <1>11, <1>12, <1>13, <1>14

-----------------------------------------------------------------------------
\* What a step does, and to whom.

\* Of the rows of the accounts W some may be written, moved or made; no other
\* account's are.
Writes(W) ==
  /\ Len(table) <= Len(table')
  /\ \A i \in 1..Len(table) :
       /\ table'[i].pm = table[i].pm
       /\ table'[i].live => table[i].live
       /\ table[i].owner \in User \ W =>
            /\ table'[i].live = table[i].live /\ table'[i].owner = table[i].owner
            /\ table'[i].default = table[i].default
       /\ table[i].owner \in W =>
            /\ table'[i].owner \in W \cup {None}
            /\ table'[i].live => table'[i].owner \in W
       /\ table[i].owner = None => table'[i].owner = None
  /\ \A i \in (1..Len(table')) \ (1..Len(table)) : table'[i].owner \in W

\* A step of request r (None: of a handler of one step) that works on the
\* accounts W writes no other account's rows, and races with whoever works on
\* one of them.
Works(r, W) ==
  /\ W \subseteq User
  /\ TypeOK'
  /\ raced \subseteq raced'
  /\ \A o \in Request \ {r} :
       request'[o] = request[o] /\ (Users(o) \cap W # {} => Users(o) \cup W \subseteq raced')
  /\ Writes(W)
  /\ \A u \in User \ W : user'[u] = user[u]
  /\ W = {} => table' = table

\* Payments are made, and then keep what they are; those of W may be moved.
Settles(W) ==
  \A p \in Payment :
    /\ payment[p] # NoPayment =>
         /\ payment'[p] # NoPayment
         /\ payment'[p].kind = payment[p].kind /\ payment'[p].late = payment[p].late
         /\ payment'[p].user = payment[p].user \/ payment'[p].user \in W
    /\ payment[p] = NoPayment /\ payment'[p] # NoPayment =>
         /\ payment'[p].kind # "none" /\ payment'[p].user \in User
         /\ payment'[p].late = (user[payment'[p].user] = "merged")

\* What the step owes to an account that it works on.
Settled(u) ==
  /\ Sole(table, u)
  /\ user[u] = "merged" =>
       /\ \A i \in LiveOf(table, u) :
            payment[table[i].pm].kind = "card_save" \/ payment[table[i].pm].late
       /\ \A p \in Payment :
            payment[p].kind = "donation" /\ payment[p].user = u => payment[p].late

\* What the step owes to the refunds.
Answers(r) ==
  /\ dropped \subseteq dropped'
  /\ \A p \in Payment :
       /\ payment'[p].refunded => payment[p].refunded \/ Covered(p)'
       /\ r \in Request /\ request[r].pm = p /\ request[r].at = "inserted" /\ request[r].back =>
            Covered(p)'

\* Request r and another one race if they have a user in common.
ApartFrom(r) ==
  \A o \in Request \ {r} :
    Users(r) \cap Users(o) # {} => Users(r) \cup Users(o) \subseteq raced

LEMMA TypeFacts ==
  ASSUME TypeOK
  PROVE  /\ DOMAIN table = 1..Len(table) /\ Len(table) \in Nat
         /\ \A i \in 1..Len(table) :
              /\ table[i] \in RowOf /\ table[i].pm \in Payment /\ table[i].owner \in User \cup {None}
              /\ table[i].live \in BOOLEAN /\ table[i].default \in BOOLEAN
              /\ table[i].print \in Card \cup {None}
         /\ \A r \in Request :
              /\ request[r] \in RequestState
              /\ request[r].at \in Phase /\ request[r].users \subseteq User
              /\ request[r].user \in User \cup {None} /\ request[r].pm \in Payment \cup {None}
              /\ request[r].row \in 0..Len(table) /\ request[r].next \in 0..Len(table)
              /\ request[r].flag \in BOOLEAN /\ request[r].back \in BOOLEAN
              /\ request[r].seen \in Seq(RowOf)
         /\ \A p \in Payment :
              /\ payment[p] \in PaymentRow
              /\ payment[p].kind \in {"none", "donation", "card_save"}
              /\ payment[p].user \in User \cup {None} /\ payment[p].card \in Card \cup {None}
              /\ payment[p].done \in BOOLEAN /\ payment[p].refunded \in BOOLEAN
              /\ payment[p].late \in BOOLEAN
<1>1. DOMAIN table = 1..Len(table) /\ Len(table) \in Nat
  BY DEF TypeOK
<1>2. \A i \in 1..Len(table) : table[i] \in RowOf
  BY <1>1 DEF TypeOK
<1>3. \A r \in Request : request[r] \in RequestState
  BY DEF TypeOK
<1>4. \A p \in Payment : payment[p] \in PaymentRow
  BY DEF TypeOK
<1>5. \A i \in 1..Len(table) :
        /\ table[i].pm \in Payment /\ table[i].owner \in User \cup {None}
        /\ table[i].live \in BOOLEAN /\ table[i].default \in BOOLEAN
        /\ table[i].print \in Card \cup {None}
  BY <1>2 DEF RowOf
<1>6. \A r \in Request :
        /\ request[r].at \in Phase /\ request[r].users \subseteq User
        /\ request[r].user \in User \cup {None} /\ request[r].pm \in Payment \cup {None}
        /\ request[r].flag \in BOOLEAN /\ request[r].back \in BOOLEAN
        /\ request[r].seen \in Seq(RowOf)
  BY <1>3 DEF RequestState
<1>7. \A r \in Request : request[r].row \in 0..Len(table) /\ request[r].next \in 0..Len(table)
  BY DEF TypeOK
<1>8. \A p \in Payment :
        /\ payment[p].kind \in {"none", "donation", "card_save"}
        /\ payment[p].user \in User \cup {None} /\ payment[p].card \in Card \cup {None}
        /\ payment[p].done \in BOOLEAN /\ payment[p].refunded \in BOOLEAN
        /\ payment[p].late \in BOOLEAN
  BY <1>4 DEF PaymentRow
<1>9. QED
  BY <1>1, <1>2, <1>3, <1>4, <1>5, <1>6, <1>7, <1>8

LEMMA TypeFactsNext ==
  ASSUME TypeOK'
  PROVE  /\ DOMAIN table' = 1..Len(table') /\ Len(table') \in Nat
         /\ \A i \in 1..Len(table') :
              /\ table'[i] \in RowOf /\ table'[i].pm \in Payment
              /\ table'[i].owner \in User \cup {None}
              /\ table'[i].live \in BOOLEAN /\ table'[i].default \in BOOLEAN
<1>1. DOMAIN table' = 1..Len(table') /\ Len(table') \in Nat
  BY DEF TypeOK
<1>2. \A i \in 1..Len(table') : table'[i] \in RowOf
  BY <1>1 DEF TypeOK
<1>3. QED
  BY <1>1, <1>2 DEF RowOf

\* How a row can come to an account.
LEMMA MovedBy ==
  ASSUME TypeOK, NEW r, NEW W, Works(r, W), NEW i \in 1..Len(table)
  PROVE  /\ \A u \in User : table'[i].owner = u /\ table[i].owner # u =>
                             table[i].owner \in W /\ u \in W
         /\ \A u \in User \ W :
              table'[i].live /\ table'[i].owner = u <=> table[i].live /\ table[i].owner = u
         /\ table[i].owner \notin W => table'[i].owner = table[i].owner
<1>1. table[i].owner \in User \cup {None} /\ None \notin User /\ W \subseteq User
  BY TypeFacts, CardsAssumption DEF Works
<1>2. CASE table[i].owner = None
  BY <1>1, <1>2 DEF Works, Writes
<1>3. CASE table[i].owner \in W
  BY <1>1, <1>3 DEF Works, Writes
<1>4. CASE table[i].owner \in User \ W
  BY <1>1, <1>4 DEF Works, Writes
<1>5. QED
  BY <1>1, <1>2, <1>3, <1>4

\* The rows of an account that nobody works on stay as they are.
LEMMA Untouched ==
  ASSUME TypeOK, NEW r, NEW W, Works(r, W), NEW u \in User \ W
  PROVE  /\ LiveRows(u)' = LiveRows(u)
         /\ LiveOf(table', u) = LiveOf(table, u)
         /\ \A i \in LiveRows(u) : table'[i].default = table[i].default
         /\ DefaultsOf(table', u) = DefaultsOf(table, u)
<1>1. DOMAIN table = 1..Len(table) /\ Len(table) \in Nat
  BY TypeFacts
<1>2. DOMAIN table' = 1..Len(table') /\ Len(table') \in Nat
  BY TypeFactsNext DEF Works, Writes
<1>3. u # None
  BY CardsAssumption
<1>4. \A i \in 1..Len(table) :
        table'[i].live /\ table'[i].owner = u <=> table[i].live /\ table[i].owner = u
  BY MovedBy
<1>5. \A i \in 1..Len(table') : table'[i].owner = u => i \in 1..Len(table)
  BY DEF Works, Writes
<1>6. Len(table) <= Len(table')
  BY DEF Works, Writes
<1>7. LiveOf(table', u) = LiveOf(table, u)
  BY <1>1, <1>2, <1>4, <1>5, <1>6 DEF LiveOf
<1>8. \A i \in LiveOf(table, u) : table'[i].default = table[i].default
  <2>1. \A i \in LiveOf(table, u) : i \in 1..Len(table) /\ table[i].owner = u
    BY <1>1 DEF LiveOf
  <2>2. QED
    BY <2>1 DEF Works, Writes
<1>9. QED
  BY <1>7, <1>8 DEF LiveRows, DefaultsOf

\* The accounts that another request works on: those of before, or raced.
LEMMA UsersAside ==
  ASSUME TypeOK, NEW r, NEW W, Works(r, W), NEW o \in Request \ {r}
  PROVE  /\ Users(o) \cap W = {} => Users(o)' \subseteq Users(o)
         /\ Users(o) \cap W # {} => Users(o)' \subseteq raced' /\ Users(o) \cup W \subseteq raced'
<1>1. request'[o] = request[o]
  BY DEF Works, Writes
<1>2. request[o].row \in 0..Len(table) /\ request[o].next \in 0..Len(table) /\ Len(table) \in Nat
  BY TypeFacts
<1>3. ASSUME NEW u \in User, NEW i \in {request[o].row, request[o].next} \ {0},
             table'[i].owner = u, table[i].owner # u
      PROVE  table[i].owner \in Users(o) \cap W /\ u \in W
  <2>1. i \in 1..Len(table)
    BY <1>2
  <2>2. table[i].owner \in W
    BY <1>3, <2>1, MovedBy
  <2>3. u \in W
    BY <1>3, <2>1, MovedBy
  <2>4. table[i].owner \in User
    BY <2>2 DEF Works, Writes
  <2>5. QED
    BY <2>2, <2>3, <2>4 DEF Users
<1>4. ASSUME NEW u \in Users(o)', u \notin Users(o)
      PROVE  Users(o) \cap W # {} /\ u \in W
  <2>1. u \in User
    BY <1>4 DEF Users
  <2>2. PICK i \in {request[o].row, request[o].next} \ {0} : table'[i].owner = u
    BY <1>1, <1>4 DEF Users
  <2>3. table[i].owner # u
    BY <1>4, <2>1, <2>2 DEF Users
  <2>4. QED
    BY <1>3, <2>1, <2>2, <2>3
<1>5. Users(o) \cap W # {} => Users(o) \cup W \subseteq raced'
  BY DEF Works, Writes
<1>6. QED
  BY <1>4, <1>5

\* Two requests that are not stepping stay apart.
LEMMA ApartAside ==
  ASSUME TypeOK, Apart, NEW r, NEW W, Works(r, W), NEW o \in Request \ {r},
         NEW p \in Request \ {r}, o # p, Users(o)' \cap Users(p)' # {}
  PROVE  Users(o)' \cup Users(p)' \subseteq raced'
<1>1. raced \subseteq raced' /\ W \subseteq User
  BY DEF Works, Writes
<1>2. /\ Users(o) \cap W = {} => Users(o)' \subseteq Users(o)
      /\ Users(o) \cap W # {} => Users(o)' \subseteq raced' /\ Users(o) \cup W \subseteq raced'
  BY UsersAside
<1>3. /\ Users(p) \cap W = {} => Users(p)' \subseteq Users(p)
      /\ Users(p) \cap W # {} => Users(p)' \subseteq raced' /\ Users(p) \cup W \subseteq raced'
  BY UsersAside
<1>4. Users(o) \cap Users(p) # {} => Users(o) \cup Users(p) \subseteq raced'
  BY <1>1 DEF Apart
<1>5. \A u \in Users(o)' : u \in Users(o) \/ u \in W
  <2>1. ASSUME NEW u \in Users(o)', u \notin Users(o) PROVE u \in W
    <3>1. u \in User /\ request'[o] = request[o]
      BY DEF Users, Works, Writes
    <3>2. PICK i \in {request[o].row, request[o].next} \ {0} : table'[i].owner = u
      BY <2>1, <3>1 DEF Users
    <3>3. i \in 1..Len(table) /\ table[i].owner # u
      <4>1. request[o].row \in 0..Len(table) /\ request[o].next \in 0..Len(table) /\ Len(table) \in Nat
        BY TypeFacts
      <4>2. QED
        BY <2>1, <3>1, <3>2, <4>1 DEF Users
    <3>4. QED
      BY <3>1, <3>2, <3>3, MovedBy
  <2>2. QED
    BY <2>1
<1>6. CASE Users(o) \cap W = {} /\ Users(p) \cap W = {}
  BY <1>1, <1>2, <1>3, <1>4, <1>6
<1>7. CASE Users(o) \cap W # {} /\ Users(p) \cap W # {}
  BY <1>2, <1>3, <1>7
<1>8. CASE Users(o) \cap W # {} /\ Users(p) \cap W = {}
  <2>1. PICK u : u \in Users(o)' /\ u \in Users(p)'
    OBVIOUS
  <2>2. u \in Users(p) /\ u \notin W
    BY <1>3, <1>8, <2>1
  <2>3. u \in Users(o)
    BY <1>5, <2>1, <2>2
  <2>4. QED
    BY <1>2, <1>3, <1>4, <1>8, <2>2, <2>3
<1>9. CASE Users(o) \cap W = {} /\ Users(p) \cap W # {}
  <2>1. PICK u : u \in Users(o)' /\ u \in Users(p)'
    OBVIOUS
  <2>2. u \in Users(o)
    BY <1>2, <1>9, <2>1
  <2>3. u \notin W
    BY <1>9, <2>2
  <2>4. u \in Users(p)
    <3>1. ASSUME u \notin Users(p) PROVE FALSE
      <4>1. u \in User /\ request'[p] = request[p]
        BY <2>1 DEF Users, Works, Writes
      <4>2. PICK i \in {request[p].row, request[p].next} \ {0} : table'[i].owner = u
        BY <2>1, <3>1, <4>1 DEF Users
      <4>3. i \in 1..Len(table) /\ table[i].owner # u
        <5>1. request[p].row \in 0..Len(table) /\ request[p].next \in 0..Len(table) /\ Len(table) \in Nat
          BY TypeFacts
        <5>2. QED
          BY <3>1, <4>1, <4>2, <5>1 DEF Users
      <4>4. QED
        BY <2>3, <4>1, <4>2, <4>3, MovedBy
    <3>2. QED
      BY <3>1
  <2>5. QED
    BY <1>2, <1>3, <1>4, <1>9, <2>2, <2>4
<1>10. QED
  BY <1>6, <1>7, <1>8, <1>9

\* What another request knows of itself and has read is still so.
LEMMA OpenAside ==
  ASSUME Inv, NEW r, NEW W, Works(r, W), Settles(W), NEW o \in Request \ {r}
  PROVE  Open(o)'
<1> DEFINE q == request[o]
<1>1. /\ TypeOK /\ Open(o) /\ Apart /\ request'[o] = q /\ raced \subseteq raced' /\ W \subseteq User
      /\ Len(table) <= Len(table')
  BY DEF Inv, Works, Writes
<1>2. /\ DOMAIN table = 1..Len(table) /\ Len(table) \in Nat
      /\ q.row \in 0..Len(table) /\ q.next \in 0..Len(table)
      /\ q.users \subseteq User /\ q.user \in User \cup {None}
  BY <1>1, TypeFacts
<1>3. DOMAIN table' = 1..Len(table') /\ Len(table') \in Nat
  BY TypeFactsNext DEF Works, Writes
<1>4. Users(o) \cap W # {} => Users(o) \cup W \subseteq raced'
  BY DEF Works, Writes
<1>5. q.users \subseteq Users(o)
  BY <1>2 DEF Users
<1>6. Shape(o)'
  <2>1. q.pm \in Payment /\ payment[q.pm].kind # "none" => payment'[q.pm].kind # "none"
    BY DEF Settles, NoPayment
  <2>2. QED
    BY <1>1, <2>1 DEF Open, Shape
<1>7. Held(o)'
  <2> SUFFICES ASSUME NEW i \in {q.row, q.next} \ {0}
               PROVE  table'[i].owner \in {q.user, None} \cup raced'
    BY <1>1 DEF Held
  <2>1. i \in 1..Len(table)
    BY <1>2
  <2>2. table[i].owner \in {q.user, None} \cup raced
    BY <1>1 DEF Open, Held
  <2>3. CASE table[i].owner \in W
    <3>1. table[i].owner \in Users(o)
      BY <1>1, <2>3 DEF Users
    <3>2. table'[i].owner \in W \cup {None}
      BY <2>1, <2>3 DEF Works, Writes
    <3>3. QED
      BY <1>4, <2>3, <3>1, <3>2
  <2>4. CASE table[i].owner \notin W
    BY <1>1, <2>1, <2>2, <2>4, MovedBy
  <2>5. QED
    BY <2>3, <2>4
<1>8. Fresh(o)'
  <2>1. q.at = "found" => \E i \in DOMAIN table' : table'[i].pm = q.pm
    <3> SUFFICES ASSUME q.at = "found" PROVE \E i \in DOMAIN table' : table'[i].pm = q.pm
      OBVIOUS
    <3>1. PICK i \in 1..Len(table) : table[i].pm = q.pm
      BY <1>1, <1>2 DEF Open, Fresh
    <3>2. i \in 1..Len(table') /\ table'[i].pm = q.pm
      BY <1>1, <1>2, <1>3, <3>1 DEF Works, Writes
    <3>3. QED
      BY <1>3, <3>2
  <2>2. q.at = "deduping" => User \subseteq raced' \/ q.seen = table'
    <3> SUFFICES ASSUME q.at = "deduping" PROVE User \subseteq raced' \/ q.seen = table'
      OBVIOUS
    <3>1. q.users = User
      BY <1>1 DEF Open, Shape
    <3>2. User \subseteq raced \/ q.seen = table
      BY <1>1 DEF Open, Fresh
    <3>3. CASE W = {}
      BY <1>1, <3>2, <3>3 DEF Works, Writes
    <3>4. CASE W # {}
      BY <1>1, <1>4, <1>5, <3>1, <3>4
    <3>5. QED
      BY <3>3, <3>4
  <2>3. ASSUME q.user \in User \ raced'
        PROVE  /\ q.at \in {"saving", "inserted"} => q.flag = (LiveRows(q.user)' = {})
               /\ q.at \in Holds => q.row \in LiveRows(q.user)' /\ q.flag = table'[q.row].default
               /\ q.at = "promoting" =>
                    q.next = IF q.flag THEN Newest(LiveRows(q.user)' \ {q.row}) ELSE 0
               /\ q.at = "recovering" => user'[q.user] \in {"guest", "person"}
               /\ q.at \in Saves /\ user'[q.user] = "merged" =>
                    payment'[q.pm].kind = "card_save" \/ payment'[q.pm].late
    <3>1. CASE q.user \notin q.users
      BY <1>1, <3>1 DEF Open, Shape, Saves, Holds
    <3>2. CASE q.user \in q.users
      <4>1. q.user \in Users(o) /\ q.user \notin raced
        BY <1>1, <1>5, <2>3, <3>2
      <4>2. q.user \in User \ W
        BY <1>4, <2>3, <4>1
      <4>3. /\ LiveRows(q.user)' = LiveRows(q.user)
            /\ \A i \in LiveRows(q.user) : table'[i].default = table[i].default
        BY <1>1, <4>2, Untouched
      <4>4. user'[q.user] = user[q.user]
        BY <4>2 DEF Works, Writes
      <4>5. q.at \in Saves =>
              /\ payment'[q.pm].kind = payment[q.pm].kind
              /\ payment'[q.pm].late = payment[q.pm].late
        <5>1. q.at \in Saves => q.pm \in Payment /\ payment[q.pm].kind # "none"
          BY <1>1 DEF Open, Shape
        <5>2. QED
          BY <5>1 DEF Settles, NoPayment
      <4>6. Fresh(o)
        BY <1>1 DEF Open
      <4>7. QED
        BY <2>3, <4>1, <4>3, <4>4, <4>5, <4>6 DEF Fresh, Promotable
    <3>3. QED
      BY <3>1, <3>2
  <2>4. QED
    BY <1>1, <2>1, <2>2, <2>3 DEF Fresh, Promotable
<1>9. QED
  BY <1>6, <1>7, <1>8 DEF Open

\* A step that does right by its own accounts and its own request keeps the
\* invariant.
LEMMA StepKeeps ==
  ASSUME Inv, NEW r, NEW W, Works(r, W), Settles(W), Answers(r),
         \A u \in W : u \notin raced' => Settled(u)',
         r \in Request => Open(r)' /\ ApartFrom(r)'
  PROVE  Inv'
<1>1. /\ TypeOK /\ TypeOK' /\ raced \subseteq raced' /\ W \subseteq User
      /\ Len(table) <= Len(table')
  BY DEF Inv, Works, Writes
<1>2. DOMAIN table = 1..Len(table) /\ Len(table) \in Nat
  BY <1>1, TypeFacts
<1>3. /\ DOMAIN table' = 1..Len(table') /\ Len(table') \in Nat
      /\ \A i \in 1..Len(table') : table'[i].owner \in User \cup {None}
  BY <1>1, TypeFactsNext
<1>4. \A o \in Request : Open(o)'
  BY OpenAside
<1>5. Apart'
  <2> SUFFICES ASSUME NEW o \in Request, NEW p \in Request, o # p, Users(o)' \cap Users(p)' # {}
               PROVE  Users(o)' \cup Users(p)' \subseteq raced'
    BY DEF Apart
  <2>1. CASE o = r
    BY <2>1 DEF ApartFrom
  <2>2. CASE p = r
    BY <2>2 DEF ApartFrom
  <2>3. CASE o # r /\ p # r
    BY <1>1, <2>3, ApartAside DEF Inv
  <2>4. QED
    BY <2>1, <2>2, <2>3
<1>6. Owners'
  <2> SUFFICES ASSUME NEW i \in 1..Len(table'), table'[i].live PROVE table'[i].owner \in User
    BY <1>3 DEF Owners
  <2>1. CASE i \notin 1..Len(table)
    BY <1>1, <2>1 DEF Works, Writes
  <2>2. CASE i \in 1..Len(table) /\ table[i].owner \in W
    BY <1>1, <2>2 DEF Works, Writes
  <2>3. CASE i \in 1..Len(table) /\ table[i].owner \notin W
    <3>1. (table'[i].live => table[i].live) /\ table'[i].owner = table[i].owner
      <4>1. table'[i].owner = table[i].owner
        BY <1>1, <2>3, MovedBy
      <4>2. QED
        BY <2>3, <4>1 DEF Works, Writes
    <3>2. table[i].live => table[i].owner \in User
      BY <1>2, <2>3 DEF Inv, Owners
    <3>3. QED
      BY <3>1, <3>2
  <2>4. QED
    BY <2>1, <2>2, <2>3
<1>7. Defaults'
  <2> SUFFICES ASSUME NEW u \in User, u \notin raced' PROVE Sole(table', u)
    BY DEF Defaults
  <2>1. CASE u \in W
    BY <2>1 DEF Settled
  <2>2. CASE u \notin W
    <3>1. Sole(table, u)
      BY <1>1 DEF Inv, Defaults
    <3>2. LiveOf(table', u) = LiveOf(table, u) /\ DefaultsOf(table', u) = DefaultsOf(table, u)
      BY <1>1, <2>2, Untouched
    <3>3. QED
      BY <3>1, <3>2 DEF Sole
  <2>3. QED
    BY <2>1, <2>2
<1>8. Followed'
  <2> SUFFICES ASSUME NEW p \in Payment, payment'[p].kind = "donation",
                      payment'[p].user \in User, payment'[p].user \notin raced',
                      user'[payment'[p].user] = "merged"
               PROVE  payment'[p].late
    BY DEF Followed
  <2> PICK u : u = payment'[p].user
    OBVIOUS
  <2>1. CASE u \in W
    BY <2>1 DEF Settled
  <2>2. CASE u \notin W
    <3>1. user[u] = "merged" /\ u \in User \ raced
      BY <1>1, <2>2 DEF Works, Writes
    <3>2. CASE payment[p] = NoPayment
      <4>1. payment'[p] # NoPayment
        BY DEF NoPayment
      <4>2. QED
        BY <3>1, <3>2, <4>1 DEF Settles
    <3>3. CASE payment[p] # NoPayment
      <4>1. /\ payment[p].kind = "donation" /\ payment'[p].late = payment[p].late
            /\ payment[p].user = u
        BY <2>2, <3>3 DEF Settles
      <4>2. QED
        BY <3>1, <4>1 DEF Inv, Followed
    <3>4. QED
      BY <3>2, <3>3
  <2>3. QED
    BY <2>1, <2>2
<1>9. Returned'
  <2>1. ASSUME NEW p \in Payment, Covered(p) PROVE Covered(p)'
    <3>1. CASE p \in dropped
      BY <3>1 DEF Answers, Covered
    <3>2. CASE \E i \in DOMAIN table : table[i].pm = p
      <4>1. PICK i \in 1..Len(table) : table[i].pm = p
        BY <1>2, <3>2
      <4>2. i \in 1..Len(table') /\ table'[i].pm = p
        BY <1>1, <1>2, <1>3, <4>1 DEF Works, Writes
      <4>3. QED
        BY <1>3, <4>2 DEF Covered
    <3>3. CASE \E o \in Request : request[o].pm = p /\ request[o].at = "inserted" /\ request[o].back
      <4>1. PICK o \in Request : request[o].pm = p /\ request[o].at = "inserted" /\ request[o].back
        BY <3>3
      <4>2. CASE o = r
        BY <4>1, <4>2 DEF Answers
      <4>3. CASE o # r
        <5>1. request'[o] = request[o]
          BY <4>3 DEF Works, Writes
        <5>2. QED
          BY <4>1, <5>1 DEF Covered
      <4>4. QED
        BY <4>2, <4>3
    <3>4. QED
      BY <2>1, <3>1, <3>2, <3>3 DEF Covered
  <2>2. QED
    BY <2>1 DEF Inv, Returned, Answers
<1>10. Paid'
  <2> SUFFICES ASSUME NEW p \in Payment, payment'[p] # NoPayment
               PROVE  payment'[p].kind # "none" /\ payment'[p].user \in User
    BY DEF Paid
  <2>1. CASE payment[p] = NoPayment
    BY <2>1 DEF Settles
  <2>2. CASE payment[p] # NoPayment
    <3>1. payment[p].kind # "none" /\ payment[p].user \in User
      BY <2>2 DEF Inv, Paid
    <3>2. QED
      BY <1>1, <2>2, <3>1 DEF Settles
  <2>3. QED
    BY <2>1, <2>2
<1>11. NothingLeftBehind'
  <2> SUFFICES ASSUME NEW i \in 1..Len(table'), table'[i].live,
                      table'[i].owner \notin raced', table'[i].owner # None,
                      user'[table'[i].owner] = "merged"
               PROVE  payment'[table'[i].pm].kind = "card_save" \/ payment'[table'[i].pm].late
    BY <1>3 DEF NothingLeftBehind
  <2> PICK u : u = table'[i].owner
    OBVIOUS
  <2>1. u \in User
    BY <1>3
  <2>2. CASE u \in W
    <3>1. i \in LiveOf(table', u)
      BY <1>3 DEF LiveOf
    <3>2. QED
      BY <2>2, <3>1 DEF Settled
  <2>3. CASE u \notin W
    <3>1. user[u] = "merged" /\ u \notin raced
      BY <1>1, <2>1, <2>3 DEF Works, Writes
    <3>2. i \in 1..Len(table)
      BY <2>3 DEF Works, Writes
    <3>3. table'[i].pm = table[i].pm /\ table[i].live /\ table[i].owner = u
      <4>1. table'[i].live /\ table'[i].owner = u <=> table[i].live /\ table[i].owner = u
        BY <1>1, <2>1, <2>3, <3>2, MovedBy
      <4>2. QED
        BY <3>2, <4>1 DEF Works, Writes
    <3>4. payment[table[i].pm].kind = "card_save" \/ payment[table[i].pm].late
      BY <1>2, <2>1, <3>1, <3>2, <3>3, CardsAssumption DEF Inv, NothingLeftBehind
    <3>5. table[i].pm \in Payment /\ payment[table[i].pm] # NoPayment
      BY <1>1, <3>2, <3>4, TypeFacts DEF NoPayment
    <3>6. QED
      BY <3>3, <3>4, <3>5 DEF Settles
  <2>4. QED
    BY <2>2, <2>3
<1>12. QED
  BY <1>1, <1>4, <1>5, <1>6, <1>7, <1>8, <1>9, <1>10, <1>11 DEF Inv

-----------------------------------------------------------------------------
\* Steps that only change their request.

\* Whoever meets another request meets all of its accounts.
LEMMA MeetingIs ==
  ASSUME NEW r, NEW U, U \subseteq User
  PROVE  /\ Meeting(r, U) \subseteq User
         /\ \A o \in Request \ {r} : Users(o) \cap U # {} => Users(o) \cup U \subseteq Meeting(r, U)
<1>1. \A o \in Request : Users(o) \subseteq User
  BY DEF Users
<1>2. Meeting(r, U) \subseteq User
  BY <1>1 DEF Meeting, Busy
<1>3. ASSUME NEW o \in Request \ {r}, Users(o) \cap U # {}
      PROVE  Users(o) \cup U \subseteq Meeting(r, U)
  <2>1. o \in Busy(r, U)
    BY <1>3 DEF Busy
  <2>2. QED
    BY <2>1 DEF Meeting
<1>4. QED
  BY <1>2, <1>3

LEMMA IdleIs ==
  ASSUME NEW r \in Request
  PROVE  /\ Idle \in RequestState
         /\ request[r] = Idle => Users(r) = {}
<1>1. Idle \in RequestState
  BY DEF Idle, RequestState, Phase
<1>2. request[r] = Idle => Users(r) = {}
  BY DEF Idle, Users
<1>3. QED
  BY <1>1, <1>2

\* A request that is over knows nothing and meets nobody.
LEMMA OverIs ==
  ASSUME NEW r \in Request, request' = [request EXCEPT ![r] = Idle], TypeOK
  PROVE  Open(r)' /\ ApartFrom(r)'
<1>1. request'[r] = Idle
  BY DEF TypeOK
<1>2. Users(r)' = {}
  BY <1>1 DEF Idle, Users
<1>3. Open(r)'
  BY <1>1 DEF Open, Shape, Held, Fresh, Idle, Saves, Holds
<1>4. QED
  BY <1>2, <1>3 DEF ApartFrom

\* The columns other than the request's.
LEMMA Quiet ==
  ASSUME TypeOK, NEW r \in Request, NEW q \in RequestState,
         q.row \in 0..Len(table), q.next \in 0..Len(table),
         request' = [request EXCEPT ![r] = q], table' = table, user' = user,
         raced \subseteq raced', raced' \subseteq User, begun' \in 0..MaxRequests,
         payment' \in [Payment -> PaymentRow], dropped' \subseteq Payment
  PROVE  Works(r, {}) /\ request'[r] = q
<1>1. /\ \A o \in Request \ {r} : request'[o] = request[o]
      /\ request'[r] = q
  BY DEF TypeOK
<1>2. request' \in [Request -> RequestState]
  BY DEF TypeOK
<1>3. \A o \in Request : {request'[o].row, request'[o].next} \subseteq 0..Len(table)
  BY <1>1 DEF TypeOK
<1>4. TypeOK'
  BY <1>2, <1>3 DEF TypeOK
<1>5. Len(table) \in Nat
  BY TypeFacts
<1>6. QED
  BY <1>1, <1>4, <1>5 DEF Works, Writes

\* A request that goes on with the accounts it has.
LEMMA GoesOn ==
  ASSUME Inv, NEW r \in Request, NEW q \in RequestState,
         request' = [request EXCEPT ![r] = q], table' = table, raced' = raced,
         Users(r)' \subseteq Users(r)
  PROVE  ApartFrom(r)'
<1>1. \A o \in Request \ {r} : request'[o] = request[o]
  BY DEF Inv, TypeOK
<1>2. \A o \in Request \ {r} : Users(o)' = Users(o)
  BY <1>1 DEF Users
<1>3. QED
  BY <1>2 DEF ApartFrom, Inv, Apart

\* A request that begins has raced with whoever is there.
LEMMA Begins ==
  ASSUME Inv, NEW r \in Request, NEW q \in RequestState, Begin(r, q), table' = table,
         q.users # {}, \A i \in {q.row, q.next} \ {0} : table[i].owner \in q.users
  PROVE  ApartFrom(r)'
<1>1. /\ \A o \in Request \ {r} : request'[o] = request[o]
      /\ request'[r] = q /\ q.users \subseteq User
  BY DEF Inv, TypeOK, Begin, RequestState
<1>2. \A o \in Request \ {r} : Users(o)' = Users(o)
  BY <1>1 DEF Users
<1>3. Users(r)' = q.users
  BY <1>1 DEF Users
<1>4. \A o \in Request \ {r} : Users(o) \cap q.users # {} => Users(o) \cup q.users \subseteq raced'
  BY <1>1, MeetingIs DEF Begin
<1>5. QED
  BY <1>2, <1>3, <1>4 DEF ApartFrom

\* Nothing is asked for, and no card that was waiting is lost.
LEMMA NothingAsked ==
  ASSUME NEW r, payment' = payment, dropped' = dropped,
         r \in Request => request[r].at # "inserted"
  PROVE  Settles({}) /\ Answers(r)
<1>1. Settles({})
  BY DEF Settles
<1>2. QED
  BY <1>1 DEF Answers

LEMMA PayKeeps ==
  ASSUME Inv, NEW p \in Payment, NEW u \in User, NEW c \in Card,
         NEW k \in {"donation", "card_save"}, Pay(p, u, c, k)
  PROVE  Inv'
<1> DEFINE row == [NoPayment EXCEPT !.kind = k, !.user = u, !.card = c,
                                    !.late = (user[u] = "merged")]
<1>1. TypeOK /\ payment[p] = NoPayment /\ payment' = [payment EXCEPT ![p] = row]
  BY DEF Inv, Pay
<1>2. /\ row \in PaymentRow /\ row # NoPayment /\ row.kind = k /\ row.user = u
      /\ row.late = (user[u] = "merged") /\ ~row.refunded
  BY DEF NoPayment, PaymentRow
<1> HIDE DEF row
<1>3. \A o \in Payment : payment'[o] = IF o = p THEN row ELSE payment[o]
  BY <1>1 DEF TypeOK
<1>4. TypeOK'
  <2>1. payment' \in [Payment -> PaymentRow]
    BY <1>1, <1>2 DEF TypeOK
  <2>2. QED
    BY <1>1, <2>1 DEF Pay, TypeOK
<1>5. Works(None, {})
  <2>1. Len(table) \in Nat
    BY <1>1, TypeFacts
  <2>2. QED
    BY <1>4, <2>1 DEF Works, Writes, Pay
<1>6. Settles({})
  BY <1>1, <1>2, <1>3, <1>4 DEF Settles
<1>7. None \notin Request
  BY CardsAssumption
<1>8. Answers(None)
  BY <1>2, <1>3, <1>7 DEF Answers, Pay
<1>9. QED
  BY <1>5, <1>6, <1>7, <1>8, StepKeeps

\* A request begins, goes on or ends: the tables stay as they are.
LEMMA RequestKeeps ==
  ASSUME Inv, NEW r \in Request, Works(r, {}), payment' = payment, dropped' = dropped,
         request[r].at # "inserted", Open(r)', ApartFrom(r)'
  PROVE  Inv'
<1>1. Settles({}) /\ Answers(r)
  BY NothingAsked
<1>2. QED
  BY <1>1, StepKeeps

LEMMA Beginning ==
  ASSUME Inv, NEW r \in Request, NEW q \in RequestState, Begin(r, q),
         UNCHANGED <<user, payment, table, dropped>>, q.users # {},
         q.row \in 0..Len(table), q.next \in 0..Len(table),
         \A i \in {q.row, q.next} \ {0} : table[i].owner \in q.users,
         Open(r)'
  PROVE  Inv'
<1>1. TypeOK /\ request[r] = Idle /\ request' = [request EXCEPT ![r] = q]
  BY DEF Inv, Begin
<1>2. raced \subseteq raced' /\ raced' \subseteq User
  <2>1. q.users \subseteq User
    BY DEF RequestState
  <2>2. Meeting(r, q.users) \subseteq User
    BY <2>1, MeetingIs
  <2>3. QED
    BY <1>1, <2>2 DEF Begin, TypeOK
<1>3. begun' \in 0..MaxRequests
  BY <1>1, CardsAssumption DEF Begin, TypeOK
<1>4. Works(r, {})
  BY <1>1, <1>2, <1>3, Quiet DEF TypeOK
<1>5. ApartFrom(r)'
  BY Begins
<1>6. QED
  BY <1>1, <1>4, <1>5, RequestKeeps DEF Idle

LEMMA Proceeding ==
  ASSUME Inv, NEW r \in Request, NEW q \in RequestState, Proceed(r, q),
         UNCHANGED <<user, payment, table, dropped>>, request[r].at # "inserted",
         q.row \in 0..Len(table), q.next \in 0..Len(table),
         Users(r)' \subseteq Users(r), Open(r)'
  PROVE  Inv'
<1>1. TypeOK /\ request' = [request EXCEPT ![r] = q]
  BY DEF Inv, Proceed
<1>2. Works(r, {})
  BY <1>1, Quiet DEF TypeOK, Proceed
<1>3. ApartFrom(r)'
  BY <1>1, GoesOn DEF Proceed
<1>4. QED
  BY <1>2, <1>3, RequestKeeps

LEMMA NotifyKeeps ==
  ASSUME Inv, NEW r \in Request, NEW p \in Payment, Notify(r, p)
  PROVE  Inv'
<1> DEFINE q == [Idle EXCEPT !.at = "notified", !.users = {payment[p].user},
                             !.user = payment[p].user, !.pm = p]
<1>1. TypeOK /\ Begin(r, q) /\ request' = [request EXCEPT ![r] = q]
  BY DEF Inv, Notify, Begin
<1>2. payment[p].kind # "none" /\ payment[p].user \in User
  BY DEF Notify, Inv, Paid, NoPayment
<1>3. /\ q \in RequestState /\ q.at = "notified" /\ q.users = {payment[p].user}
      /\ q.user = payment[p].user /\ q.pm = p /\ q.row = 0 /\ q.next = 0
  BY <1>2, IdleIs DEF Idle, RequestState, Phase
<1> HIDE DEF q
<1>4. request'[r] = q /\ UNCHANGED <<user, payment, table, dropped>>
  BY <1>1 DEF TypeOK, Notify
<1>5. Shape(r)' /\ Held(r)'
  BY <1>2, <1>3, <1>4 DEF Shape, Held, Saves, Holds
<1>6. Fresh(r)'
  <2>1. ASSUME payment[p].user \notin raced', user[payment[p].user] = "merged"
        PROVE  payment[p].kind = "card_save" \/ payment[p].late
    <3>1. payment[p].user \notin raced
      BY <1>1, <2>1 DEF Begin
    <3>2. payment[p].kind = "donation" => payment[p].late
      BY <1>2, <2>1, <3>1 DEF Inv, Followed
    <3>3. QED
      BY <1>1, <1>2, <3>2, TypeFacts
  <2>2. QED
    BY <1>3, <1>4, <2>1 DEF Fresh, Saves, Holds
<1>7. Open(r)'
  BY <1>5, <1>6 DEF Open
<1>8. q.row \in 0..Len(table) /\ q.next \in 0..Len(table) /\ {q.row, q.next} \ {0} = {}
  BY <1>1, <1>3, TypeFacts
<1>9. q.users # {}
  BY <1>3
<1>10. QED
  BY <1>1, <1>3, <1>4, <1>7, <1>8, <1>9, Beginning

LEMMA FindCardKeeps ==
  ASSUME Inv, NEW r \in Request, FindCard(r)
  PROVE  Inv'
<1> PICK q : q = request[r]
  OBVIOUS
<1> PICK n : n = IF RowsFor(q.pm) # {} THEN [q EXCEPT !.at = "found"]
                 ELSE [q EXCEPT !.at = "saving", !.flag = (LiveRows(q.user) = {})]
  OBVIOUS
<1>1. TypeOK /\ Open(r) /\ q.at = "notified" /\ Proceed(r, n)
  BY DEF Inv, FindCard
<1>2. /\ q \in RequestState /\ q.user \in User /\ q.users = {q.user} /\ q.pm \in Payment
      /\ payment[q.pm].kind # "none" /\ q.row = 0 /\ q.next = 0
  BY <1>1, TypeFacts DEF Open, Shape, Saves
<1>3. /\ n \in RequestState /\ n.users = q.users /\ n.user = q.user /\ n.pm = q.pm
      /\ n.row = 0 /\ n.next = 0
      /\ \/ n.at = "found" /\ RowsFor(q.pm) # {}
         \/ n.at = "saving" /\ n.flag = (LiveRows(q.user) = {})
  BY <1>2 DEF RequestState, Phase
<1>4. /\ request'[r] = n /\ UNCHANGED <<user, payment, table, dropped>>
      /\ raced' = raced
  BY <1>1 DEF TypeOK, FindCard, Proceed
<1>5. Shape(r)' /\ Held(r)'
  BY <1>2, <1>3, <1>4 DEF Shape, Held, Saves, Holds
<1>6. Fresh(r)'
  <2>1. LiveRows(q.user)' = LiveRows(q.user)
    BY <1>4 DEF LiveRows, LiveOf
  <2>2. n.at = "found" => \E i \in DOMAIN table : table[i].pm = q.pm
    BY <1>3 DEF RowsFor
  <2>3. q.user \in User \ raced /\ user[q.user] = "merged" =>
          payment[q.pm].kind = "card_save" \/ payment[q.pm].late
    BY <1>1 DEF Open, Fresh, Saves
  <2>4. n.user \in User \ raced /\ n.at = "saving" => n.flag = (LiveRows(n.user)' = {})
    BY <1>3, <2>1
  <2>5. QED
    BY <1>3, <1>4, <2>2, <2>3, <2>4 DEF Fresh, Saves, Holds
<1>7. Open(r)'
  BY <1>5, <1>6 DEF Open
<1>8. Users(r)' \subseteq Users(r)
  BY <1>2, <1>3, <1>4 DEF Users
<1>9. n.row \in 0..Len(table) /\ n.next \in 0..Len(table) /\ request[r].at # "inserted"
  BY <1>1, <1>3, TypeFacts
<1>10. QED
  BY <1>1, <1>3, <1>4, <1>7, <1>8, <1>9, Proceeding

LEMMA InsertCardKeeps ==
  ASSUME Inv, NEW r \in Request, InsertCard(r)
  PROVE  Inv'
<1> PICK q : q = request[r]
  OBVIOUS
<1> PICK n : n = [q EXCEPT !.at = "inserted"]
  OBVIOUS
<1>1. TypeOK /\ Open(r) /\ q.at = "saving" /\ Proceed(r, n)
  BY DEF Inv, InsertCard
<1>2. /\ q \in RequestState /\ q.user \in User /\ q.users = {q.user} /\ q.pm \in Payment
      /\ payment[q.pm].kind # "none" /\ q.row = 0 /\ q.next = 0
  BY <1>1, TypeFacts DEF Open, Shape, Saves
<1>3. /\ n \in RequestState /\ n.users = q.users /\ n.user = q.user /\ n.pm = q.pm
      /\ n.row = 0 /\ n.next = 0 /\ n.at = "inserted" /\ n.flag = q.flag
  BY <1>2 DEF RequestState, Phase
<1>4. /\ request'[r] = n /\ UNCHANGED <<user, payment, table, dropped>>
      /\ raced' = raced
  BY <1>1 DEF TypeOK, InsertCard, Proceed
<1>5. Shape(r)' /\ Held(r)'
  BY <1>2, <1>3, <1>4 DEF Shape, Held, Saves, Holds
<1>6. Fresh(r)'
  <2>1. LiveRows(n.user)' = LiveRows(q.user)
    BY <1>3, <1>4 DEF LiveRows, LiveOf
  <2>2. q.user \in User \ raced =>
          /\ user[q.user] = "merged" => payment[q.pm].kind = "card_save" \/ payment[q.pm].late
          /\ q.flag = (LiveRows(q.user) = {})
    BY <1>1 DEF Open, Fresh, Saves
  <2>3. QED
    BY <1>3, <1>4, <2>1, <2>2 DEF Fresh, Saves, Holds
<1>7. Open(r)'
  BY <1>5, <1>6 DEF Open
<1>8. Users(r)' \subseteq Users(r)
  BY <1>2, <1>3, <1>4 DEF Users
<1>9. n.row \in 0..Len(table) /\ n.next \in 0..Len(table) /\ request[r].at # "inserted"
  BY <1>1, <1>3, TypeFacts
<1>10. QED
  BY <1>1, <1>3, <1>4, <1>7, <1>8, <1>9, Proceeding

LEMMA GiveBackKeeps ==
  ASSUME Inv, NEW r \in Request, GiveBack(r)
  PROVE  Inv'
<1> PICK q : q = request[r]
  OBVIOUS
<1> PICK n : n = [q EXCEPT !.back = TRUE]
  OBVIOUS
<1>1. /\ TypeOK /\ Open(r) /\ q.at \in {"inserted", "found"} /\ Proceed(r, n)
      /\ UNCHANGED <<user, table, dropped>>
      /\ payment' = [payment EXCEPT ![q.pm].refunded = TRUE]
  BY DEF Inv, GiveBack, Refundable
<1>2. /\ q \in RequestState /\ q.user \in User /\ q.users = {q.user} /\ q.pm \in Payment
      /\ payment[q.pm].kind # "none" /\ q.row = 0 /\ q.next = 0
  BY <1>1, TypeFacts DEF Open, Shape, Saves
<1>3. /\ n \in RequestState /\ n.users = q.users /\ n.user = q.user /\ n.pm = q.pm
      /\ n.row = 0 /\ n.next = 0 /\ n.at = q.at /\ n.flag = q.flag /\ n.back = TRUE
  BY <1>2 DEF RequestState
<1>4. /\ request'[r] = n /\ raced' = raced /\ request' = [request EXCEPT ![r] = n]
      /\ begun' = begun
  BY <1>1 DEF TypeOK, Proceed
<1>5. \A p \in Payment :
        /\ payment'[p].kind = payment[p].kind /\ payment'[p].late = payment[p].late
        /\ payment'[p].user = payment[p].user
        /\ p # q.pm => payment'[p] = payment[p]
        /\ payment'[p] \in PaymentRow
  BY <1>1, <1>2, TypeFacts DEF TypeOK, PaymentRow
<1>6. payment' \in [Payment -> PaymentRow]
  BY <1>1, <1>5 DEF TypeOK
<1>7. Works(r, {})
  <2>1. n.row \in 0..Len(table) /\ n.next \in 0..Len(table)
    BY <1>1, <1>3, TypeFacts
  <2>2. QED
    BY <1>1, <1>3, <1>4, <1>6, <2>1, Quiet DEF TypeOK
<1>8. Settles({})
  BY <1>2, <1>5 DEF Settles, NoPayment
<1>9. Covered(q.pm)'
  <2>1. CASE q.at = "inserted"
    BY <1>3, <1>4, <2>1 DEF Covered
  <2>2. CASE q.at = "found"
    BY <1>1, <2>2 DEF Covered, Open, Fresh
  <2>3. QED
    BY <1>1, <2>1, <2>2
<1>10. Answers(r)
  BY <1>1, <1>5, <1>9 DEF Answers
<1>11. Shape(r)' /\ Held(r)'
  BY <1>1, <1>2, <1>3, <1>4, <1>5 DEF Shape, Held, Saves, Holds
<1>12. Fresh(r)'
  <2>1. LiveRows(n.user)' = LiveRows(q.user)
    BY <1>1, <1>3 DEF LiveRows, LiveOf
  <2>2. /\ q.at = "found" => \E i \in DOMAIN table : table[i].pm = q.pm
        /\ q.user \in User \ raced =>
          /\ user[q.user] = "merged" => payment[q.pm].kind = "card_save" \/ payment[q.pm].late
          /\ q.at = "inserted" => q.flag = (LiveRows(q.user) = {})
    BY <1>1 DEF Open, Fresh, Saves
  <2>3. QED
    BY <1>1, <1>2, <1>3, <1>4, <1>5, <2>1, <2>2 DEF Fresh, Saves, Holds
<1>13. Open(r)'
  BY <1>11, <1>12 DEF Open
<1>14. Users(r)' \subseteq Users(r)
  BY <1>2, <1>3, <1>4 DEF Users
<1>15. ApartFrom(r)'
  BY <1>1, <1>3, <1>4, <1>14, GoesOn
<1>16. QED
  BY <1>7, <1>8, <1>10, <1>13, <1>15, StepKeeps

LEMMA RollbackKeeps ==
  ASSUME Inv, NEW r \in Request, Rollback(r)
  PROVE  Inv'
<1>1. /\ TypeOK /\ Open(r) /\ request' = [request EXCEPT ![r] = Idle]
      /\ UNCHANGED <<user, payment, table, begun, raced>>
      /\ dropped' = IF request[r].back THEN dropped \cup {request[r].pm} ELSE dropped
  BY DEF Inv, Rollback, Finish, Proceed
<1>2. dropped' \subseteq Payment
  <2>1. request[r].at \in Phase /\ dropped \subseteq Payment
    BY <1>1, TypeFacts DEF TypeOK
  <2>2. request[r].back => request[r].pm \in Payment
    BY <1>1, <2>1 DEF Open, Shape, Idle, Saves, Holds, Phase
  <2>3. QED
    BY <1>1, <2>1, <2>2
<1>3. Works(r, {})
  <2>1. Idle.row \in 0..Len(table) /\ Idle.next \in 0..Len(table) /\ Idle \in RequestState
    <3>1. Idle.row = 0 /\ Idle.next = 0 /\ Len(table) \in Nat
      BY <1>1, TypeFacts DEF Idle
    <3>2. Idle \in RequestState
      BY IdleIs
    <3>3. QED
      BY <3>1, <3>2
  <2>2. QED
    BY <1>1, <1>2, <2>1, Quiet DEF TypeOK
<1>4. Settles({})
  BY <1>1 DEF Settles
<1>5. Answers(r)
  BY <1>1 DEF Answers, Covered
<1>6. Open(r)' /\ ApartFrom(r)'
  BY <1>1, OverIs
<1>7. QED
  BY <1>3, <1>4, <1>5, <1>6, StepKeeps

LEMMA LoadRowKeeps ==
  ASSUME Inv, NEW r \in Request, NEW u \in User, NEW i \in DOMAIN table,
         NEW at \in {"deleting", "defaulting"}, LoadRow(r, u, i, at)
  PROVE  Inv'
<1> PICK n : n = [Idle EXCEPT !.at = at, !.users = {u}, !.user = u, !.row = i,
                              !.flag = table[i].default]
  OBVIOUS
<1>1. /\ TypeOK /\ Begin(r, n) /\ UNCHANGED <<user, payment, table, dropped>>
      /\ i \in LiveRows(u)
  BY DEF Inv, LoadRow
<1>2. /\ i \in 1..Len(table) /\ Len(table) \in Nat /\ table[i].default \in BOOLEAN
      /\ table[i].owner = u
  BY <1>1, TypeFacts DEF LiveRows, LiveOf
<1>3. /\ n \in RequestState /\ n.at = at /\ n.users = {u} /\ n.user = u /\ n.pm = None
      /\ n.row = i /\ n.next = 0 /\ n.flag = table[i].default /\ n.back = FALSE
  <2>1. /\ n.at = at /\ n.users = {u} /\ n.user = u /\ n.pm = None
        /\ n.row = i /\ n.next = 0 /\ n.flag = table[i].default /\ n.back = FALSE
        /\ n.seen = << >>
        /\ n = [at |-> n.at, users |-> n.users, user |-> n.user, pm |-> n.pm, row |-> n.row,
                next |-> n.next, flag |-> n.flag, back |-> n.back, seen |-> n.seen]
    BY DEF Idle
  <2>2. at \in Phase /\ i \in Nat /\ << >> \in Seq(RowOf)
    BY <1>2 DEF Phase
  <2>3. /\ n.at \in Phase /\ n.users \in SUBSET User /\ n.user \in User \cup {None}
        /\ n.pm \in Payment \cup {None} /\ n.row \in Nat /\ n.next \in Nat
        /\ n.flag \in BOOLEAN /\ n.back \in BOOLEAN /\ n.seen \in Seq(RowOf)
    <3>1. n.at \in Phase /\ n.row \in Nat /\ n.next \in Nat
      BY <2>1, <2>2
    <3>6. n.seen \in Seq(RowOf)
      BY <2>1, <2>2
    <3>2. n.users \in SUBSET User /\ n.user \in User \cup {None}
      BY <2>1
    <3>3. n.pm \in Payment \cup {None}
      BY <2>1
    <3>4. n.flag \in BOOLEAN /\ n.back \in BOOLEAN
      BY <1>2, <2>1
    <3>5. QED
      BY <3>1, <3>2, <3>3, <3>4, <3>6
  <2>4. n \in RequestState
    BY <2>1, <2>3 DEF RequestState
  <2>5. QED
    BY <2>1, <2>4
<1>4. request'[r] = n
  BY <1>1 DEF TypeOK, Begin
<1>5. Shape(r)' /\ Held(r)'
  BY <1>1, <1>2, <1>3, <1>4 DEF Shape, Held, Saves, Holds
<1>6. Fresh(r)'
  <2>1. LiveRows(u)' = LiveRows(u)
    BY <1>1 DEF LiveRows, LiveOf
  <2>2. QED
    BY <1>1, <1>3, <1>4, <2>1 DEF Fresh, Saves, Holds
<1>7. Open(r)'
  BY <1>5, <1>6 DEF Open
<1>8. /\ n.users # {} /\ n.row \in 0..Len(table) /\ n.next \in 0..Len(table)
      /\ \A j \in {n.row, n.next} \ {0} : table[j].owner \in n.users
  BY <1>2, <1>3
<1>9. QED
  BY <1>1, <1>3, <1>7, <1>8, Beginning

LEMMA PromoteKeeps ==
  ASSUME Inv, NEW r \in Request, Promote(r)
  PROVE  Inv'
<1> PICK q : q = request[r]
  OBVIOUS
<1> PICK n : n = [q EXCEPT !.at = "promoting",
                           !.next = IF q.flag THEN Newest(Promotable(q)) ELSE 0]
  OBVIOUS
<1>1. /\ TypeOK /\ Open(r) /\ q.at = "deleting" /\ Proceed(r, n)
      /\ UNCHANGED <<user, payment, table, dropped>>
  BY DEF Inv, Promote
<1>2. /\ q \in RequestState /\ q.user \in User /\ q.users = {q.user} /\ q.pm = None
      /\ ~q.back /\ q.row # 0 /\ q.row \in 0..Len(table)
      /\ DOMAIN table = 1..Len(table) /\ Len(table) \in Nat
  BY <1>1, TypeFacts DEF Open, Shape, Saves, Holds
<1>3. /\ Promotable(q) \in SUBSET (1..Len(table))
      /\ \A i \in Promotable(q) : table[i].owner = q.user
  BY <1>2 DEF Promotable, LiveRows, LiveOf
<1>4. /\ n.next \in 0..Len(table)
      /\ n.next # 0 => n.next \in Promotable(q)
      /\ n.next = IF q.flag THEN Newest(Promotable(q)) ELSE 0
  <2>1. n.next = IF q.flag THEN Newest(Promotable(q)) ELSE 0
    BY <1>2 DEF RequestState
  <2>2. /\ Newest(Promotable(q)) \in 0..Len(table)
        /\ Promotable(q) = {} => Newest(Promotable(q)) = 0
        /\ Promotable(q) # {} => Newest(Promotable(q)) \in Promotable(q)
    BY <1>2, <1>3, NewestIs
  <2>3. QED
    BY <1>2, <2>1, <2>2
<1>5. /\ n \in RequestState /\ n.users = q.users /\ n.user = q.user /\ n.pm = q.pm
      /\ n.row = q.row /\ n.at = "promoting" /\ n.flag = q.flag /\ n.back = q.back
  <2>1. n.next \in Nat
    BY <1>2, <1>4
  <2>2. /\ n.users = q.users /\ n.user = q.user /\ n.pm = q.pm
        /\ n.row = q.row /\ n.at = "promoting" /\ n.flag = q.flag /\ n.back = q.back
        /\ n.seen = q.seen
        /\ n = [at |-> n.at, users |-> n.users, user |-> n.user, pm |-> n.pm, row |-> n.row,
                next |-> n.next, flag |-> n.flag, back |-> n.back, seen |-> n.seen]
    BY <1>2 DEF RequestState
  <2>3. n \in RequestState
    BY <1>2, <2>1, <2>2 DEF RequestState, Phase
  <2>4. QED
    BY <2>2, <2>3
<1>6. request'[r] = n /\ raced' = raced
  BY <1>1 DEF TypeOK, Proceed
<1>7. Shape(r)' /\ Held(r)'
  <2>1. table[q.row].owner \in {q.user, None} \cup raced
    BY <1>1, <1>2 DEF Open, Held
  <2>2. n.next # 0 => table[n.next].owner = q.user
    BY <1>3, <1>4
  <2>3. QED
    BY <1>1, <1>2, <1>5, <1>6, <2>1, <2>2 DEF Shape, Held, Saves, Holds
<1>8. Fresh(r)'
  <2>1. LiveRows(q.user)' = LiveRows(q.user) /\ Promotable(n) = LiveRows(q.user) \ {q.row}
        /\ Promotable(q) = LiveRows(q.user) \ {q.row}
    BY <1>1, <1>5 DEF LiveRows, LiveOf, Promotable
  <2>2. Promotable(n)' = Promotable(q)
    BY <2>1, <1>5 DEF Promotable
  <2>3. q.user \in User \ raced => q.row \in LiveRows(q.user) /\ q.flag = table[q.row].default
    BY <1>1 DEF Open, Fresh, Holds
  <2>4. LiveRows(n.user)' = LiveRows(q.user)
    BY <2>1, <1>5
  <2>5. QED
    BY <1>1, <1>2, <1>4, <1>5, <1>6, <2>2, <2>3, <2>4 DEF Fresh, Saves, Holds
<1>9. Open(r)'
  BY <1>7, <1>8 DEF Open
<1>10. Users(r)' \subseteq Users(r)
  BY <1>1, <1>2, <1>3, <1>4, <1>5, <1>6 DEF Users
<1>11. n.row \in 0..Len(table) /\ request[r].at # "inserted"
  BY <1>1, <1>2, <1>5
<1>12. QED
  BY <1>1, <1>4, <1>5, <1>9, <1>10, <1>11, Proceeding

LEMMA LoadRecoverKeeps ==
  ASSUME Inv, NEW r \in Request, NEW u \in User, LoadRecover(r, u)
  PROVE  Inv'
<1>1. PICK P \in {Prints(u)} \cup {{c} : c \in Prints(u)} :
        /\ P # {}
        /\ user[u] \in {"guest", "person"}
        /\ Begin(r, [Idle EXCEPT !.at = "recovering", !.user = u, !.users = {u} \cup Orphans(u, P)])
        /\ UNCHANGED <<user, payment, table, dropped>>
  BY DEF LoadRecover
<1> PICK U : U = {u} \cup Orphans(u, P)
  OBVIOUS
<1> PICK n : n = [Idle EXCEPT !.at = "recovering", !.user = u, !.users = U]
  OBVIOUS
<1>2. TypeOK /\ Begin(r, n) /\ U \subseteq User /\ u \in U
  BY <1>1 DEF Inv, Orphans
<1>3. /\ n \in RequestState /\ n.at = "recovering" /\ n.users = U /\ n.user = u /\ n.pm = None
      /\ n.row = 0 /\ n.next = 0 /\ n.back = FALSE
  BY <1>2, IdleIs DEF Idle, RequestState, Phase
<1>4. request'[r] = n
  BY <1>2 DEF TypeOK, Begin
<1>5. Shape(r)' /\ Held(r)' /\ Fresh(r)'
  BY <1>1, <1>2, <1>3, <1>4 DEF Shape, Held, Fresh, Saves, Holds
<1>6. Open(r)'
  BY <1>5 DEF Open
<1>7. /\ n.users # {} /\ n.row \in 0..Len(table) /\ n.next \in 0..Len(table)
      /\ {n.row, n.next} \ {0} = {}
  BY <1>2, <1>3, TypeFacts
<1>8. QED
  BY <1>1, <1>2, <1>3, <1>6, <1>7, Beginning

LEMMA LoadDedupeKeeps ==
  ASSUME Inv, NEW r \in Request, LoadDedupe(r)
  PROVE  Inv'
<1> PICK n : n = [Idle EXCEPT !.at = "deduping", !.users = User, !.seen = table]
  OBVIOUS
<1>1. /\ TypeOK /\ Begin(r, n) /\ UNCHANGED <<user, payment, table, dropped>>
      /\ \E i \in DOMAIN table : table[i].live
  BY DEF Inv, LoadDedupe
<1>2. User # {}
  BY <1>1 DEF Inv, Owners
<1>3. /\ n \in RequestState /\ n.at = "deduping" /\ n.users = User /\ n.user = None /\ n.pm = None
      /\ n.row = 0 /\ n.next = 0 /\ n.back = FALSE /\ n.seen = table
  BY <1>1, IdleIs DEF Idle, RequestState, Phase, TypeOK
<1>4. request'[r] = n
  BY <1>1 DEF TypeOK, Begin
<1>5. Shape(r)' /\ Held(r)' /\ Fresh(r)'
  BY <1>1, <1>2, <1>3, <1>4, CardsAssumption DEF Shape, Held, Fresh, Saves, Holds
<1>6. Open(r)'
  BY <1>5 DEF Open
<1>7. /\ n.users # {} /\ n.row \in 0..Len(table) /\ n.next \in 0..Len(table)
      /\ {n.row, n.next} \ {0} = {}
  BY <1>1, <1>2, <1>3, TypeFacts
<1>8. QED
  BY <1>1, <1>3, <1>6, <1>7, Beginning

-----------------------------------------------------------------------------
\* Steps that write.

\* A request that commits works on all of its accounts.
LEMMA Commits ==
  ASSUME Inv, NEW r \in Request, Finish(r), Users(r) # {}, Writes(Users(r)),
         table' \in Seq(RowOf), user' \in [User -> UserState],
         payment' \in [Payment -> PaymentRow], dropped' = dropped,
         \A u \in User \ Users(r) : user'[u] = user[u]
  PROVE  Works(r, Users(r)) /\ Open(r)' /\ ApartFrom(r)' /\ raced' = raced
<1>1. TypeOK /\ Apart /\ request' = [request EXCEPT ![r] = Idle] /\ UNCHANGED <<begun, raced>>
  BY DEF Inv, Finish, Proceed
<1>2. /\ \A o \in Request \ {r} : request'[o] = request[o]
      /\ request'[r] = Idle
  BY <1>1 DEF TypeOK
<1>3. TypeOK'
  <2>1. request' \in [Request -> RequestState]
    BY <1>1, IdleIs DEF TypeOK
  <2>2. Len(table) \in Nat /\ Len(table') \in Nat /\ Len(table) <= Len(table')
    BY <1>1, TypeFacts DEF Writes
  <2>3. \A o \in Request : {request'[o].row, request'[o].next} \subseteq 0..Len(table')
    <3> SUFFICES ASSUME NEW o \in Request
                 PROVE  request'[o].row \in 0..Len(table') /\ request'[o].next \in 0..Len(table')
      OBVIOUS
    <3>1. CASE o = r
      BY <1>2, <2>2, <3>1 DEF Idle
    <3>2. CASE o # r
      <4>1. request[o].row \in 0..Len(table) /\ request[o].next \in 0..Len(table)
        BY <1>1, TypeFacts
      <4>2. QED
        BY <1>2, <2>2, <3>2, <4>1
    <3>3. QED
      BY <3>1, <3>2
  <2>4. QED
    BY <1>1, <2>1, <2>3 DEF TypeOK
<1>4. \A o \in Request \ {r} : Users(o) \cap Users(r) # {} => Users(o) \cup Users(r) \subseteq raced'
  BY <1>1 DEF Apart
<1>5. Users(r) \subseteq User
  BY DEF Users
<1>6. Works(r, Users(r))
  BY <1>1, <1>2, <1>3, <1>4, <1>5 DEF Works
<1>7. QED
  BY <1>1, <1>6, OverIs

\* A handler of one step works on the accounts that it says it does.
LEMMA AtOnce ==
  ASSUME Inv, NEW U, U \subseteq User, U # {}, Once(U), Writes(U),
         table' \in Seq(RowOf), user' \in [User -> UserState],
         payment' \in [Payment -> PaymentRow], dropped' = dropped,
         \A u \in User \ U : user'[u] = user[u]
  PROVE  Works(None, U) /\ raced \subseteq raced'
<1>1. TypeOK /\ request' = request /\ raced' = raced \cup Meeting(None, U) /\ begun' \in 0..MaxRequests
  BY CardsAssumption DEF Inv, TypeOK, Once
<1>2. TypeOK'
  <2>1. Len(table) \in Nat /\ Len(table') \in Nat /\ Len(table) <= Len(table')
    BY <1>1, TypeFacts DEF Writes
  <2>2. \A o \in Request : {request'[o].row, request'[o].next} \subseteq 0..Len(table')
    <3> SUFFICES ASSUME NEW o \in Request
                 PROVE  request'[o].row \in 0..Len(table') /\ request'[o].next \in 0..Len(table')
      OBVIOUS
    <3>1. request[o].row \in 0..Len(table) /\ request[o].next \in 0..Len(table)
      BY <1>1, TypeFacts
    <3>2. QED
      BY <1>1, <2>1, <3>1
  <2>3. raced' \subseteq User
    BY <1>1, MeetingIs DEF TypeOK
  <2>4. QED
    BY <1>1, <2>2, <2>3 DEF TypeOK
<1>3. \A o \in Request : Users(o) \cap U # {} => Users(o) \cup U \subseteq raced'
  BY <1>1, MeetingIs, CardsAssumption
<1>4. QED
  BY <1>1, <1>2, <1>3 DEF Works

\* Such a step keeps the invariant if it does right by its accounts.
LEMMA OnceKeeps ==
  ASSUME Inv, NEW U, Works(None, U), Settles(U), dropped' = dropped,
         \A p \in Payment : payment'[p].refunded => payment[p].refunded,
         \A u \in U : u \notin raced' => Settled(u)'
  PROVE  Inv'
<1>1. None \notin Request
  BY CardsAssumption
<1>2. Answers(None)
  BY <1>1 DEF Answers
<1>3. QED
  BY <1>1, <1>2, StepKeeps

\* What u has at the moment.
LEMMA SettledNow ==
  ASSUME Inv, NEW u \in User \ raced
  PROVE  Settled(u)
<1>1. Sole(table, u)
  BY DEF Inv, Defaults
<1>2. ASSUME user[u] = "merged", NEW i \in LiveOf(table, u)
      PROVE  payment[table[i].pm].kind = "card_save" \/ payment[table[i].pm].late
  BY <1>2, CardsAssumption DEF Inv, NothingLeftBehind, LiveOf
<1>3. ASSUME user[u] = "merged", NEW p \in Payment, payment[p].kind = "donation",
             payment[p].user = u
      PROVE  payment[p].late
  BY <1>3 DEF Inv, Followed
<1>4. QED
  BY <1>1, <1>2, <1>3 DEF Settled

LEMMA CommitCardKeeps ==
  ASSUME Inv, NEW r \in Request, NEW described \in BOOLEAN, CommitCard(r, described)
  PROVE  Inv'
<1> PICK q : q = request[r]
  OBVIOUS
<1> PICK row : row = [pm |-> q.pm, owner |-> q.user, live |-> TRUE, default |-> q.flag,
                      print |-> PrintOf(q.pm, described)]
  OBVIOUS
<1>1. /\ TypeOK /\ Open(r) /\ q.at \in {"inserted", "found"} /\ Finish(r)
      /\ table' = IF q.at = "inserted" THEN Append(table, row) ELSE table
      /\ payment' = [payment EXCEPT ![q.pm].done = TRUE]
      /\ UNCHANGED <<user, dropped>>
  BY DEF Inv, CommitCard
<1>2. /\ q \in RequestState /\ q.user \in User /\ q.users = {q.user} /\ q.pm \in Payment
      /\ payment[q.pm].kind # "none" /\ q.row = 0 /\ q.next = 0 /\ q.flag \in BOOLEAN
      /\ DOMAIN table = 1..Len(table) /\ Len(table) \in Nat
  BY <1>1, TypeFacts DEF Open, Shape, Saves
<1>3. \A p \in Payment :
        /\ payment'[p].kind = payment[p].kind /\ payment'[p].late = payment[p].late
        /\ payment'[p].user = payment[p].user /\ payment'[p].refunded = payment[p].refunded
        /\ p # q.pm => payment'[p] = payment[p]
        /\ payment'[p] \in PaymentRow
  BY <1>1, <1>2, TypeFacts DEF TypeOK, PaymentRow
<1>4. payment' \in [Payment -> PaymentRow]
  BY <1>1, <1>3 DEF TypeOK
<1>5. \A W : Settles(W)
  BY <1>2, <1>3 DEF Settles, NoPayment
<1>6. CASE q.at = "found"
  <2>1. request' = [request EXCEPT ![r] = Idle] /\ UNCHANGED <<begun, raced, table>>
    BY <1>1, <1>6 DEF Finish, Proceed
  <2>2. Works(r, {})
    <3>1. Idle.row = 0 /\ Idle.next = 0
      BY DEF Idle
    <3>2. Idle \in RequestState
      BY IdleIs
    <3>3. QED
      BY <1>1, <1>2, <1>4, <2>1, <3>1, <3>2, Quiet DEF TypeOK
  <2>3. Open(r)' /\ ApartFrom(r)'
    BY <1>1, <2>1, OverIs
  <2>4. Answers(r)
    BY <1>1, <1>3, <1>6 DEF Answers
  <2>5. QED
    BY <1>5, <2>2, <2>3, <2>4, StepKeeps
<1>7. CASE q.at = "inserted"
  <2>1. table' = Append(table, row)
    BY <1>1, <1>7
  <2>2. /\ row \in RowOf /\ row.pm = q.pm /\ row.owner = q.user /\ row.live = TRUE
        /\ row.default = q.flag
    <3>1. PrintOf(q.pm, described) \in Card \cup {None}
      BY <1>1, <1>2, TypeFacts DEF PrintOf
    <3>2. QED
      BY <1>2, <3>1 DEF RowOf
  <2>3. /\ table' \in Seq(RowOf) /\ Len(table') = Len(table) + 1
        /\ \A i \in 1..Len(table) : table'[i] = table[i]
        /\ table'[Len(table) + 1] = row
    BY <1>1, <2>1, <2>2, AppendProperties DEF TypeOK
  <2>4. DOMAIN table' = 1..(Len(table) + 1)
    BY <2>3
  <2>5. Users(r) = {q.user}
    BY <1>2 DEF Users
  <2>6. Writes(Users(r))
    BY <1>2, <2>2, <2>3, <2>5 DEF Writes
  <2>7. Works(r, Users(r)) /\ Open(r)' /\ ApartFrom(r)' /\ raced' = raced
    BY <1>1, <1>4, <2>3, <2>5, <2>6, Commits DEF TypeOK
  <2>8. Answers(r)
    <3>1. table'[Len(table) + 1].pm = q.pm /\ Len(table) + 1 \in DOMAIN table'
      BY <1>2, <2>2, <2>3, <2>4
    <3>2. Covered(q.pm)'
      BY <3>1 DEF Covered
    <3>3. QED
      BY <1>1, <1>3, <3>2 DEF Answers
  <2>9. ASSUME q.user \notin raced' PROVE Settled(q.user)'
    <3> PICK u, n : u = q.user /\ n = Len(table) + 1
      OBVIOUS
    <3>1. Settled(u) /\ u \in User \ raced
      BY <1>2, <2>7, <2>9, SettledNow
    <3>2. /\ q.flag = (LiveOf(table, u) = {})
          /\ user[u] = "merged" => payment[q.pm].kind = "card_save" \/ payment[q.pm].late
      BY <1>1, <1>7, <3>1 DEF Open, Fresh, Saves, LiveRows
    <3>3. LiveOf(table', u) = LiveOf(table, u) \cup {n}
      BY <1>2, <2>2, <2>3, <2>4 DEF LiveOf
    <3>4. n \notin LiveOf(table, u) /\ LiveOf(table, u) \subseteq 1..Len(table)
      BY <1>2 DEF LiveOf
    <3>5. DefaultsOf(table', u) = DefaultsOf(table, u) \cup (IF q.flag THEN {n} ELSE {})
      BY <2>2, <2>3, <3>3, <3>4 DEF DefaultsOf
    <3>6. Sole(table', u)
      <4>1. Sole(table, u)
        BY <3>1 DEF Settled
      <4>2. CASE LiveOf(table, u) = {}
        <5>1. DefaultsOf(table, u) = {} /\ q.flag = TRUE
          BY <3>2, <4>2 DEF DefaultsOf
        <5>2. QED
          BY <3>3, <3>5, <5>1 DEF Sole
      <4>3. CASE LiveOf(table, u) # {}
        BY <3>2, <3>3, <3>5, <4>1, <4>3 DEF Sole
      <4>4. QED
        BY <4>2, <4>3
    <3>7. ASSUME user[u] = "merged", NEW i \in LiveOf(table', u)
          PROVE  payment'[table'[i].pm].kind = "card_save" \/ payment'[table'[i].pm].late
      <4>1. CASE i = n
        BY <1>2, <1>3, <2>2, <2>3, <3>2, <3>7, <4>1
      <4>2. CASE i \in LiveOf(table, u)
        <5>1. table'[i] = table[i] /\ table[i].pm \in Payment
          BY <1>1, <2>3, <3>4, <4>2, TypeFacts
        <5>2. QED
          BY <1>3, <3>1, <3>7, <4>2, <5>1 DEF Settled
      <4>3. QED
        BY <3>3, <3>7, <4>1, <4>2
    <3>8. ASSUME user[u] = "merged", NEW p \in Payment, payment'[p].kind = "donation",
                 payment'[p].user = u
          PROVE  payment'[p].late
      BY <1>3, <3>1, <3>8 DEF Settled
    <3>9. Settled(u)'
      BY <1>1, <3>6, <3>7, <3>8 DEF Settled
    <3>10. QED
      BY <3>9
  <2>10. QED
    BY <1>5, <2>5, <2>7, <2>8, <2>9, StepKeeps
<1>8. QED
  BY <1>1, <1>6, <1>7

\* A step that only takes cards away, or changes the default, owes a default.
LEMMA SettledStill ==
  ASSUME Inv, NEW u \in User \ raced, payment' = payment, user'[u] = user[u],
         LiveOf(table', u) \subseteq LiveOf(table, u), Sole(table', u),
         \A i \in LiveOf(table, u) : table'[i].pm = table[i].pm
  PROVE  Settled(u)'
<1>1. Settled(u)
  BY SettledNow
<1>2. QED
  BY <1>1 DEF Settled

\* Of the accounts that a request with a row works on, only its own user's may
\* not have been raced on.
LEMMA OnlyItsUser ==
  ASSUME Inv, NEW r \in Request, request[r].at \in Holds, NEW u \in Users(r) \ raced
  PROVE  u = request[r].user
<1>1. Shape(r) /\ Held(r) /\ u \in User
  BY DEF Inv, Open, Users
<1>2. request[r].users = {request[r].user}
  BY <1>1 DEF Shape
<1>3. CASE u \in request[r].users
  BY <1>2, <1>3
<1>4. ASSUME NEW i \in {request[r].row, request[r].next} \ {0}, table[i].owner = u
      PROVE  u = request[r].user
  BY <1>1, <1>4, CardsAssumption DEF Held
<1>5. QED
  BY <1>1, <1>3, <1>4 DEF Users

LEMMA CommitDeleteKeeps ==
  ASSUME Inv, NEW r \in Request, CommitDelete(r)
  PROVE  Inv'
<1> PICK q : q = request[r]
  OBVIOUS
<1> PICK a : a = [table EXCEPT ![q.row] = AsDropped(table[q.row], q.flag)]
  OBVIOUS
<1>1. /\ TypeOK /\ Open(r) /\ q.at = "promoting" /\ Finish(r)
      /\ table' = [i \in DOMAIN a |-> IF i \in {q.next} THEN AsDefault(a[i]) ELSE a[i]]
      /\ UNCHANGED <<user, payment, dropped>>
  BY DEF Inv, CommitDelete, Put
<1>2. /\ q.user \in User /\ q.users = {q.user} /\ q.row \in 1..Len(table)
      /\ q.next \in 0..Len(table) /\ q.flag \in BOOLEAN
      /\ DOMAIN table = 1..Len(table) /\ Len(table) \in Nat
      /\ \A i \in 1..Len(table) : table[i] \in RowOf
  <2>1. /\ q.row \in 0..Len(table) /\ q.next \in 0..Len(table) /\ q.flag \in BOOLEAN
        /\ DOMAIN table = 1..Len(table) /\ Len(table) \in Nat
        /\ \A i \in 1..Len(table) : table[i] \in RowOf
    BY <1>1, TypeFacts
  <2>2. q.user \in User /\ q.users = {q.user} /\ q.row # 0
    BY <1>1 DEF Open, Shape, Holds
  <2>3. QED
    BY <2>1, <2>2
<1>3. /\ DOMAIN a = 1..Len(table)
      /\ \A i \in 1..Len(table) :
           a[i] = IF i = q.row THEN AsDropped(table[i], q.flag) ELSE table[i]
  BY <1>2
<1>4. ASSUME NEW i \in 1..Len(table)
      PROVE  /\ table'[i] \in RowOf
             /\ table'[i].pm = table[i].pm /\ table'[i].owner = table[i].owner
             /\ table'[i].live = IF i = q.row THEN FALSE ELSE table[i].live
             /\ i \notin {q.row, q.next} => table'[i] = table[i]
             /\ i = q.next => table'[i].default = TRUE
  <2>1. table[i] \in RowOf
    BY <1>2
  <2>2. /\ a[i] \in RowOf
        /\ a[i].pm = table[i].pm /\ a[i].owner = table[i].owner
        /\ a[i].live = IF i = q.row THEN FALSE ELSE table[i].live
        /\ i # q.row => a[i] = table[i]
    BY <1>2, <1>3, <2>1 DEF AsDropped, RowOf
  <2>3. table'[i] = IF i = q.next THEN AsDefault(a[i]) ELSE a[i]
    BY <1>1, <1>3
  <2>4. QED
    BY <2>2, <2>3 DEF AsDefault, RowOf
<1>5. DOMAIN table' = 1..Len(table) /\ table' = [i \in DOMAIN table |-> table'[i]]
  BY <1>1, <1>2, <1>3
<1>6. table' \in Seq(RowOf) /\ Len(table') = Len(table)
  <2> PICK v, t : v = table' /\ t = table
    OBVIOUS
  <2>3. t \in Seq(RowOf) /\ v = [i \in DOMAIN t |-> v[i]]
    BY <1>1, <1>5 DEF TypeOK
  <2>4. \A i \in 1..Len(table) : table'[i] \in RowOf
    BY <1>4
  <2>1. t \in Seq(RowOf) /\ v = [i \in DOMAIN t |-> v[i]] /\ \A i \in DOMAIN t : v[i] \in RowOf
    BY <1>2, <2>3, <2>4
  <2>2. v \in Seq(RowOf) /\ Len(v) = Len(t)
    BY <2>1, Rewritten
  <2>5. QED
    BY <2>2
<1>7. /\ q.user \in Users(r)
      /\ \A i \in {q.row, q.next} \ {0} : table[i].owner \in User => table[i].owner \in Users(r)
  BY <1>2 DEF Users
<1>8. Writes(Users(r))
  <2>1. Users(r) \subseteq User
    BY DEF Users
  <2>2. ASSUME NEW i \in 1..Len(table), table[i].owner \in User \ Users(r)
        PROVE  table'[i] = table[i]
    <3>1. i \notin {q.row, q.next}
      BY <1>7, <2>2
    <3>2. QED
      BY <1>4, <3>1
  <2>3. \A i \in 1..Len(table) :
          /\ table'[i].pm = table[i].pm /\ table'[i].owner = table[i].owner
          /\ table'[i].live => table[i].live
    BY <1>4
  <2>4. QED
    BY <1>2, <1>6, <2>1, <2>2, <2>3 DEF Writes
<1>9. Works(r, Users(r)) /\ Open(r)' /\ ApartFrom(r)' /\ raced' = raced
  BY <1>1, <1>6, <1>7, <1>8, Commits DEF TypeOK
<1>10. Settles(Users(r)) /\ Answers(r)
  BY <1>1 DEF Settles, Answers
<1>11. ASSUME NEW u \in Users(r), u \notin raced'
       PROVE  Settled(u)'
  <2>1. u = q.user /\ u \in User \ raced
    <3>1. u \in Users(r) \ raced /\ request[r].at \in Holds
      BY <1>1, <1>9, <1>11 DEF Holds
    <3>2. u = request[r].user
      BY <3>1, OnlyItsUser
    <3>3. QED
      BY <1>2, <3>1, <3>2
  <2>2. /\ q.row \in LiveOf(table, u) /\ q.flag = table[q.row].default
        /\ q.next = IF q.flag THEN Newest(LiveOf(table, u) \ {q.row}) ELSE 0
    BY <1>1, <2>1 DEF Open, Fresh, Holds, Promotable, LiveRows
  <2> PICK rest : rest = LiveOf(table, u) \ {q.row}
    OBVIOUS
  <2>3. rest \in SUBSET (1..Len(table)) /\ LiveOf(table, u) \subseteq 1..Len(table)
    BY <1>2 DEF LiveOf
  <2>4. LiveOf(table', u) = rest
    BY <1>2, <1>4, <1>5 DEF LiveOf
  <2>5. Sole(table, u)
    BY <2>1 DEF Inv, Defaults
  <2>6. PICK d \in LiveOf(table, u) : DefaultsOf(table, u) = {d}
    BY <2>2, <2>5 DEF Sole
  <2>7. \A i \in LiveOf(table, u) : table[i].default <=> i = d
    BY <2>6 DEF DefaultsOf
  <2>8. Sole(table', u)
    <3>1. CASE rest = {}
      BY <2>4, <3>1 DEF Sole
    <3>2. CASE rest # {} /\ q.flag
      <4>1. q.next \in rest
        BY <1>2, <2>2, <2>3, <3>2, NewestIs
      <4>2. d = q.row
        BY <2>2, <2>7, <3>2
      <4>3. \A i \in rest : table'[i].default <=> i = q.next
        BY <1>4, <2>3, <2>7, <4>1, <4>2
      <4>4. DefaultsOf(table', u) = {q.next}
        BY <2>4, <4>1, <4>3 DEF DefaultsOf
      <4>5. QED
        BY <2>4, <4>1, <4>4 DEF Sole
    <3>3. CASE rest # {} /\ ~q.flag
      <4>1. d \in rest /\ q.next = 0
        BY <2>2, <2>6, <2>7, <3>3
      <4>2. \A i \in rest : table'[i] = table[i]
        <5>1. \A i \in rest : i \in 1..Len(table) /\ i # q.row /\ i # q.next
          BY <2>3, <4>1
        <5>2. QED
          BY <1>4, <5>1
      <4>3. DefaultsOf(table', u) = {d}
        BY <2>4, <2>7, <4>1, <4>2 DEF DefaultsOf
      <4>4. QED
        BY <2>4, <4>1, <4>3 DEF Sole
    <3>4. QED
      BY <1>2, <3>1, <3>2, <3>3
  <2>9. \A i \in LiveOf(table, u) : table'[i].pm = table[i].pm
    BY <1>4, <2>3
  <2>10. QED
    BY <1>1, <2>1, <2>4, <2>8, <2>9, SettledStill
<1>12. QED
  BY <1>9, <1>10, <1>11, StepKeeps

LEMMA CommitDefaultKeeps ==
  ASSUME Inv, NEW r \in Request, CommitDefault(r)
  PROVE  Inv'
<1> PICK q : q = request[r]
  OBVIOUS
<1> PICK others : others = {i \in DOMAIN table : table[i].owner = q.user} \ {q.row}
  OBVIOUS
<1> PICK mine : mine = IF q.flag THEN {} ELSE {q.row}
  OBVIOUS
<1> PICK a : a = [i \in DOMAIN table |-> IF i \in others THEN AsOther(table[i]) ELSE table[i]]
  OBVIOUS
<1>1. /\ TypeOK /\ Open(r) /\ q.at = "defaulting" /\ Finish(r)
      /\ table' = [i \in DOMAIN a |-> IF i \in mine THEN AsDefault(a[i]) ELSE a[i]]
      /\ UNCHANGED <<user, payment, dropped>>
  BY DEF Inv, CommitDefault, Put
<1>2. /\ q.user \in User /\ q.users = {q.user} /\ q.row \in 1..Len(table)
      /\ q.flag \in BOOLEAN
      /\ DOMAIN table = 1..Len(table) /\ Len(table) \in Nat
      /\ \A i \in 1..Len(table) : table[i] \in RowOf
  <2>1. /\ q.row \in 0..Len(table) /\ q.flag \in BOOLEAN
        /\ DOMAIN table = 1..Len(table) /\ Len(table) \in Nat
        /\ \A i \in 1..Len(table) : table[i] \in RowOf
    BY <1>1, TypeFacts
  <2>2. q.user \in User /\ q.users = {q.user} /\ q.row # 0
    BY <1>1 DEF Open, Shape, Holds
  <2>3. QED
    BY <2>1, <2>2
<1>3. /\ DOMAIN a = 1..Len(table)
      /\ \A i \in 1..Len(table) : a[i] = IF i \in others THEN AsOther(table[i]) ELSE table[i]
  BY <1>2
<1>4. ASSUME NEW i \in 1..Len(table)
      PROVE  /\ table'[i] \in RowOf
             /\ table'[i].pm = table[i].pm /\ table'[i].owner = table[i].owner
             /\ table'[i].live = table[i].live
             /\ i # q.row /\ table[i].owner # q.user => table'[i] = table[i]
             /\ i # q.row /\ table[i].owner = q.user => ~table'[i].default
             /\ i = q.row => table'[i].default = (q.flag => table[i].default)
  <2>1. table[i] \in RowOf
    BY <1>2
  <2>2. i \in others <=> i # q.row /\ table[i].owner = q.user
    BY <1>2
  <2>3. table'[i] = IF i \in mine THEN AsDefault(a[i]) ELSE a[i]
    BY <1>1, <1>3
  <2>4. CASE i \in others
    <3>1. i \notin mine /\ table'[i] = AsOther(table[i])
      BY <1>3, <2>2, <2>3, <2>4
    <3>2. QED
      BY <2>1, <2>2, <2>4, <3>1 DEF AsOther, RowOf
  <2>5. CASE i = q.row /\ ~q.flag
    <3>1. table'[i] = AsDefault(table[i])
      BY <1>3, <2>2, <2>3, <2>5
    <3>2. QED
      BY <2>1, <2>5, <3>1 DEF AsDefault, RowOf
  <2>6. CASE i \notin others /\ (i # q.row \/ q.flag)
    <3>1. table'[i] = table[i]
      BY <1>2, <1>3, <2>3, <2>6
    <3>2. table[i].default \in BOOLEAN
      BY <2>1 DEF RowOf
    <3>3. QED
      BY <2>1, <2>2, <2>6, <3>1, <3>2
  <2>7. QED
    BY <1>2, <2>4, <2>5, <2>6
<1>5. DOMAIN table' = 1..Len(table) /\ table' = [i \in DOMAIN table |-> table'[i]]
  BY <1>1, <1>2, <1>3
<1>6. table' \in Seq(RowOf) /\ Len(table') = Len(table)
  <2> PICK v, t : v = table' /\ t = table
    OBVIOUS
  <2>1. t \in Seq(RowOf) /\ v = [i \in DOMAIN t |-> v[i]] /\ \A i \in DOMAIN t : v[i] \in RowOf
    BY <1>1, <1>2, <1>4, <1>5 DEF TypeOK
  <2>2. v \in Seq(RowOf) /\ Len(v) = Len(t)
    BY <2>1, Rewritten
  <2>3. QED
    BY <2>2
<1>7. /\ q.user \in Users(r)
      /\ table[q.row].owner \in User => table[q.row].owner \in Users(r)
  BY <1>2 DEF Users
<1>8. Writes(Users(r))
  <2>1. Users(r) \subseteq User
    BY DEF Users
  <2>2. ASSUME NEW i \in 1..Len(table), table[i].owner \in User \ Users(r)
        PROVE  table'[i] = table[i]
    <3>1. i # q.row /\ table[i].owner # q.user
      BY <1>7, <2>2
    <3>2. QED
      BY <1>4, <3>1
  <2>3. QED
    BY <1>2, <1>4, <1>6, <2>1, <2>2 DEF Writes
<1>9. Works(r, Users(r)) /\ Open(r)' /\ ApartFrom(r)' /\ raced' = raced
  BY <1>1, <1>6, <1>7, <1>8, Commits DEF TypeOK
<1>10. Settles(Users(r)) /\ Answers(r)
  BY <1>1 DEF Settles, Answers
<1>11. ASSUME NEW u \in Users(r), u \notin raced'
       PROVE  Settled(u)'
  <2>1. u = q.user /\ u \in User \ raced
    <3>1. u \in Users(r) \ raced /\ request[r].at \in Holds
      BY <1>1, <1>9, <1>11 DEF Holds
    <3>2. u = request[r].user
      BY <3>1, OnlyItsUser
    <3>3. QED
      BY <1>2, <3>1, <3>2
  <2>2. q.row \in LiveOf(table, u) /\ q.flag = table[q.row].default
    BY <1>1, <2>1 DEF Open, Fresh, Holds, LiveRows
  <2>3. LiveOf(table', u) = LiveOf(table, u)
    BY <1>2, <1>4, <1>5 DEF LiveOf
  <2>4. \A i \in LiveOf(table, u) : i \in 1..Len(table) /\ table[i].owner = u
    BY <1>2 DEF LiveOf
  <2>5. \A i \in LiveOf(table, u) : table'[i].default <=> i = q.row
    BY <1>4, <2>1, <2>2, <2>4
  <2>6. DefaultsOf(table', u) = {q.row}
    BY <2>2, <2>3, <2>5 DEF DefaultsOf
  <2>7. Sole(table', u)
    BY <2>2, <2>3, <2>6 DEF Sole
  <2>8. QED
    BY <1>1, <1>4, <2>1, <2>3, <2>4, <2>7, SettledStill
<1>12. QED
  BY <1>9, <1>10, <1>11, StepKeeps

\* A merge of the accounts S into u, as a step on S and u.
LEMMA Merging ==
  ASSUME Inv, NEW S \in SUBSET User, NEW u \in User \ S, MergeAll(S, u),
         raced \subseteq raced', u \notin raced' => user[u] # "merged"
  PROVE  /\ table' \in Seq(RowOf) /\ user' \in [User -> UserState]
         /\ payment' \in [Payment -> PaymentRow]
         /\ Writes(S \cup {u}) /\ Settles(S \cup {u})
         /\ \A p \in Payment : payment'[p].refunded = payment[p].refunded
         /\ \A v \in User \ (S \cup {u}) : user'[v] = user[v]
         /\ \A v \in S \cup {u} : v \notin raced' => Settled(v)'
<1>1. /\ TypeOK /\ DOMAIN table = 1..Len(table) /\ Len(table) \in Nat
      /\ \A i \in 1..Len(table) : table[i] \in RowOf /\ table[i].owner \in User \cup {None}
  <2>1. TypeOK
    BY DEF Inv
  <2>2. QED
    BY <2>1, TypeFacts
<1>2. /\ \E order \in SetToSeqs(S) : table' = Merges(table, order, u)[Len(order)]
      /\ user' = [s \in User |-> IF s \in S THEN "merged" ELSE user[s]]
      /\ payment' = [p \in Payment |-> Owned(p, S, u)]
  BY DEF MergeAll
<1>3. Moves(table, S, u, table') /\ (S = {} => table' = table) /\ (S # {} => Sole(table', u))
  <2>1. PICK order \in SetToSeqs(S) : table' = Merges(table, order, u)[Len(order)]
    BY <1>2
  <2> PICK t, v : t = table /\ v = table'
    OBVIOUS
  <2>2. t \in Seq(RowOf) /\ v = Merges(t, order, u)[Len(order)]
    BY <1>1, <2>1 DEF TypeOK
  <2>3. Moves(t, S, u, v) /\ (S = {} => v = t) /\ (S # {} => Sole(v, u))
    BY <2>2, CardsAssumption, MergesIs
  <2>4. QED
    BY <2>3
<1>4. /\ table' \in Seq(RowOf) /\ Len(table') = Len(table) /\ DOMAIN table' = 1..Len(table)
      /\ \A i \in 1..Len(table) :
           /\ table'[i].pm = table[i].pm /\ table'[i].live = table[i].live
           /\ table'[i].owner = IF table[i].owner \in S THEN u ELSE table[i].owner
           /\ table'[i].owner # u => table'[i] = table[i]
  BY <1>1, <1>3 DEF Moves
<1>5. user' \in [User -> UserState] /\ \A v \in User : user'[v] = IF v \in S THEN "merged" ELSE user[v]
  <2>1. user \in [User -> UserState] /\ "merged" \in UserState
    BY <1>1 DEF TypeOK, UserState
  <2>2. QED
    BY <1>2, <2>1
<1>6. \A p \in Payment :
        /\ payment'[p] \in PaymentRow
        /\ payment'[p].kind = payment[p].kind /\ payment'[p].late = payment[p].late
        /\ payment'[p].refunded = payment[p].refunded
        /\ payment'[p].user = IF payment[p].kind = "donation" /\ payment[p].user \in S
                              THEN u ELSE payment[p].user
        /\ payment'[p] # payment[p] => payment[p].kind = "donation"
  <2> SUFFICES ASSUME NEW p \in Payment
               PROVE  /\ payment'[p] \in PaymentRow
                      /\ payment'[p].kind = payment[p].kind
                      /\ payment'[p].late = payment[p].late
                      /\ payment'[p].refunded = payment[p].refunded
                      /\ payment'[p].user = IF payment[p].kind = "donation" /\ payment[p].user \in S
                                            THEN u ELSE payment[p].user
                      /\ payment'[p] # payment[p] => payment[p].kind = "donation"
    OBVIOUS
  <2>1. payment[p] \in PaymentRow /\ payment'[p] = Owned(p, S, u)
    BY <1>1, <1>2 DEF TypeOK
  <2>2. QED
    BY <2>1 DEF Owned, PaymentRow
<1>7. payment' \in [Payment -> PaymentRow]
  BY <1>2, <1>6
<1>8. Writes(S \cup {u})
  <2>1. ASSUME NEW i \in 1..Len(table), table[i].owner \in User \ (S \cup {u})
        PROVE  table'[i] = table[i]
    BY <1>4, <2>1
  <2>2. None \notin User
    BY CardsAssumption
  <2>3. ASSUME NEW i \in 1..Len(table)
        PROVE  /\ table[i].owner \in S \cup {u} => table'[i].owner \in S \cup {u}
               /\ table[i].owner = None => table'[i].owner = None
    BY <1>4, <2>2
  <2>4. QED
    BY <1>1, <1>4, <2>1, <2>3 DEF Writes
<1>9. Settles(S \cup {u})
  <2>1. \A p \in Payment : payment[p] # NoPayment => payment'[p] # NoPayment
    BY <1>6 DEF NoPayment
  <2>2. \A p \in Payment : payment[p] = NoPayment => payment'[p] = NoPayment
    BY <1>6 DEF NoPayment
  <2>3. QED
    BY <1>6, <2>1, <2>2 DEF Settles
<1>10. ASSUME NEW v \in S PROVE Settled(v)'
  <2>1. LiveOf(table', v) = {}
    BY <1>4 DEF LiveOf
  <2>2. \A p \in Payment : payment'[p].kind = "donation" => payment'[p].user # v
    BY <1>6
  <2>3. QED
    BY <2>1, <2>2 DEF Settled, Sole
<1>11. ASSUME u \notin raced' PROVE Settled(u)'
  <2>1. u \in User \ raced /\ user'[u] # "merged"
    BY <1>5, <1>11
  <2>2. Sole(table', u)
    BY <1>3, <2>1 DEF Inv, Defaults
  <2>3. QED
    BY <2>1, <2>2 DEF Settled
<1>12. QED
  BY <1>4, <1>5, <1>6, <1>7, <1>8, <1>9, <1>10, <1>11

LEMMA CommitRecoverKeeps ==
  ASSUME Inv, NEW r \in Request, CommitRecover(r)
  PROVE  Inv'
<1> PICK q : q = request[r]
  OBVIOUS
<1> PICK S : S = q.users \ {q.user}
  OBVIOUS
<1>1. /\ TypeOK /\ Open(r) /\ q.at = "recovering" /\ Finish(r) /\ MergeAll(S, q.user)
      /\ UNCHANGED dropped
  BY DEF Inv, CommitRecover
<1>2. /\ q.user \in q.users /\ q.users \subseteq User /\ q.user \in User /\ q.row = 0 /\ q.next = 0
  BY <1>1, TypeFacts DEF Open, Shape
<1>3. Users(r) = S \cup {q.user} /\ S \in SUBSET User /\ q.user \in User \ S
  BY <1>2 DEF Users
<1>4. raced' = raced
  BY <1>1 DEF Finish, Proceed
<1>5. q.user \notin raced' => user[q.user] # "merged"
  BY <1>1, <1>2, <1>4 DEF Open, Fresh
<1>6. /\ table' \in Seq(RowOf) /\ user' \in [User -> UserState]
      /\ payment' \in [Payment -> PaymentRow]
      /\ Writes(Users(r)) /\ Settles(Users(r))
      /\ \A p \in Payment : payment'[p].refunded = payment[p].refunded
      /\ \A v \in User \ Users(r) : user'[v] = user[v]
      /\ \A v \in Users(r) : v \notin raced' => Settled(v)'
  <2> PICK u : u = q.user
    OBVIOUS
  <2>1. /\ S \in SUBSET User /\ u \in User \ S /\ MergeAll(S, u) /\ raced \subseteq raced'
        /\ u \notin raced' => user[u] # "merged"
    BY <1>1, <1>3, <1>4, <1>5
  <2>2. /\ table' \in Seq(RowOf) /\ user' \in [User -> UserState]
        /\ payment' \in [Payment -> PaymentRow]
        /\ Writes(S \cup {u}) /\ Settles(S \cup {u})
        /\ \A p \in Payment : payment'[p].refunded = payment[p].refunded
        /\ \A v \in User \ (S \cup {u}) : user'[v] = user[v]
        /\ \A v \in S \cup {u} : v \notin raced' => Settled(v)'
    BY <2>1, Merging
  <2>3. QED
    BY <1>3, <2>2
<1>7. Works(r, Users(r)) /\ Open(r)' /\ ApartFrom(r)'
  BY <1>1, <1>3, <1>6, Commits
<1>8. Answers(r)
  BY <1>1, <1>6 DEF Answers
<1>9. QED
  BY <1>6, <1>7, <1>8, StepKeeps

LEMMA LinkKeeps ==
  ASSUME Inv, NEW s \in User, NEW u \in User, Link(s, u)
  PROVE  Inv'
<1>1. /\ s # u /\ user[u] = "person" /\ MergeAll({s}, u) /\ Once({s, u}) /\ dropped' = dropped
  BY DEF Link
<1>2. raced \subseteq raced' /\ {s} \cup {u} = {s, u} /\ {s} \in SUBSET User /\ u \in User \ {s}
  BY <1>1 DEF Once
<1>3. /\ table' \in Seq(RowOf) /\ user' \in [User -> UserState]
      /\ payment' \in [Payment -> PaymentRow]
      /\ Writes({s} \cup {u}) /\ Settles({s} \cup {u})
      /\ \A p \in Payment : payment'[p].refunded = payment[p].refunded
      /\ \A v \in User \ ({s} \cup {u}) : user'[v] = user[v]
      /\ \A v \in {s} \cup {u} : v \notin raced' => Settled(v)'
  BY <1>1, <1>2, Merging
<1>4. Works(None, {s, u})
  BY <1>1, <1>2, <1>3, AtOnce
<1>5. QED
  BY <1>1, <1>2, <1>3, <1>4, OnceKeeps

LEMMA CleanKeeps ==
  ASSUME Inv, NEW u \in User, NEW kept \in BOOLEAN, Clean(u, kept)
  PROVE  Inv'
<1> PICK mine : mine = {i \in DOMAIN table : table[i].owner = u}
  OBVIOUS
<1>1. /\ TypeOK /\ DOMAIN table = 1..Len(table) /\ Len(table) \in Nat
      /\ \A i \in 1..Len(table) : table[i] \in RowOf
  <2>1. TypeOK
    BY DEF Inv
  <2>2. QED
    BY <2>1, TypeFacts
<1>2. /\ user' = [user EXCEPT ![u] = IF kept THEN "cleaned" ELSE "gone"]
      /\ table' = [i \in DOMAIN table |->
                     IF i \in mine
                     THEN IF kept THEN AsDeleted(table[i])
                                  ELSE [AsDeleted(table[i]) EXCEPT !.owner = None]
                     ELSE table[i]]
      /\ Once({u}) /\ UNCHANGED <<payment, dropped>>
  BY DEF Clean, Put
<1>3. ASSUME NEW i \in 1..Len(table)
      PROVE  /\ table'[i] \in RowOf
             /\ table'[i].pm = table[i].pm
             /\ table[i].owner # u => table'[i] = table[i]
             /\ table[i].owner = u => ~table'[i].live /\ table'[i].owner \in {u, None}
  <2>1. table[i] \in RowOf /\ (i \in mine <=> table[i].owner = u)
    BY <1>1
  <2>2. CASE i \in mine /\ kept
    <3>1. table'[i] = AsDeleted(table[i])
      BY <1>1, <1>2, <2>2
    <3>2. QED
      BY <2>1, <2>2, <3>1 DEF AsDeleted, RowOf
  <2>3. CASE i \in mine /\ ~kept
    <3>1. table'[i] = [AsDeleted(table[i]) EXCEPT !.owner = None]
      BY <1>1, <1>2, <2>3
    <3>2. QED
      BY <2>1, <2>3, <3>1 DEF AsDeleted, RowOf
  <2>4. CASE i \notin mine
    BY <1>1, <1>2, <2>1, <2>4
  <2>5. QED
    BY <2>2, <2>3, <2>4
<1>4. DOMAIN table' = 1..Len(table) /\ table' = [i \in DOMAIN table |-> table'[i]]
  BY <1>1, <1>2
<1>5. table' \in Seq(RowOf) /\ Len(table') = Len(table)
  <2> PICK v, t : v = table' /\ t = table
    OBVIOUS
  <2>1. t \in Seq(RowOf) /\ v = [i \in DOMAIN t |-> v[i]]
    BY <1>1, <1>4 DEF TypeOK
  <2>2. \A i \in 1..Len(table) : table'[i] \in RowOf
    BY <1>3
  <2>3. \A i \in DOMAIN t : v[i] \in RowOf
    BY <1>1, <2>2
  <2>4. v \in Seq(RowOf) /\ Len(v) = Len(t)
    BY <2>1, <2>3, Rewritten
  <2>5. QED
    BY <2>4
<1>6. /\ user' \in [User -> UserState] /\ user'[u] # "merged"
      /\ \A v \in User \ {u} : user'[v] = user[v]
  BY <1>1, <1>2 DEF TypeOK, UserState
<1>7. Writes({u})
  <2>1. None \notin User
    BY CardsAssumption
  <2>2. \A i \in 1..Len(table) : table'[i].pm = table[i].pm /\ (table'[i].live => table[i].live)
    BY <1>3
  <2>3. \A i \in 1..Len(table) : table[i].owner \in User \ {u} \/ table[i].owner = None =>
                                   table'[i] = table[i]
    BY <1>3, <2>1
  <2>4. \A i \in 1..Len(table) : table[i].owner \in {u} =>
                                   ~table'[i].live /\ table'[i].owner \in {u} \cup {None}
    BY <1>3
  <2>5. QED
    BY <1>1, <1>5, <2>2, <2>3, <2>4 DEF Writes
<1>8. Works(None, {u})
  <2>1. payment' \in [Payment -> PaymentRow]
    BY <1>1, <1>2 DEF TypeOK
  <2>2. QED
    BY <1>2, <1>5, <1>6, <1>7, <2>1, AtOnce
<1>9. Settles({u})
  BY <1>2 DEF Settles
<1>10. Settled(u)'
  <2>1. LiveOf(table', u) = {}
    BY <1>3, <1>4 DEF LiveOf
  <2>2. QED
    BY <1>6, <2>1 DEF Settled, Sole
<1>11. QED
  BY <1>2, <1>8, <1>9, <1>10, OnceKeeps

LEMMA BackfillKeeps ==
  ASSUME Inv, NEW I \in SUBSET DOMAIN table, Backfill(I)
  PROVE  Inv'
<1> PICK U : U = {table[i].owner : i \in I}
  OBVIOUS
<1>1. /\ TypeOK /\ DOMAIN table = 1..Len(table) /\ Len(table) \in Nat
      /\ \A i \in 1..Len(table) : table[i] \in RowOf /\ table[i].pm \in Payment
      /\ \A p \in Payment : payment[p].card \in Card \cup {None}
  <2>1. TypeOK
    BY DEF Inv
  <2>2. QED
    BY <2>1, TypeFacts
<1>2. /\ I # {} /\ I \subseteq {i \in DOMAIN table : table[i].live}
      /\ table' = [i \in DOMAIN table |->
                     IF i \in I THEN [table[i] EXCEPT !.print = payment[table[i].pm].card]
                                ELSE table[i]]
      /\ Once(U) /\ UNCHANGED <<user, payment, dropped>>
  BY DEF Backfill, Put
<1>3. ASSUME NEW i \in 1..Len(table)
      PROVE  /\ table'[i] \in RowOf
             /\ table'[i].pm = table[i].pm /\ table'[i].live = table[i].live
             /\ table'[i].owner = table[i].owner /\ table'[i].default = table[i].default
  <2>1. table[i] \in RowOf /\ payment[table[i].pm].card \in Card \cup {None}
    BY <1>1
  <2>2. table'[i] = IF i \in I THEN [table[i] EXCEPT !.print = payment[table[i].pm].card]
                               ELSE table[i]
    BY <1>1, <1>2
  <2>3. QED
    BY <2>1, <2>2 DEF RowOf
<1>4. DOMAIN table' = 1..Len(table) /\ table' = [i \in DOMAIN table |-> table'[i]]
  BY <1>1, <1>2
<1>5. table' \in Seq(RowOf) /\ Len(table') = Len(table)
  <2> PICK v, t : v = table' /\ t = table
    OBVIOUS
  <2>1. t \in Seq(RowOf) /\ v = [i \in DOMAIN t |-> v[i]]
    BY <1>1, <1>4 DEF TypeOK
  <2>2. \A i \in 1..Len(table) : table'[i] \in RowOf
    BY <1>3
  <2>3. \A i \in DOMAIN t : v[i] \in RowOf
    BY <1>1, <2>2
  <2>4. v \in Seq(RowOf) /\ Len(v) = Len(t)
    BY <2>1, <2>3, Rewritten
  <2>5. QED
    BY <2>4
<1>6. U \subseteq User /\ U # {}
  BY <1>2 DEF Inv, Owners
<1>7. Writes(U)
  BY <1>1, <1>3, <1>5, CardsAssumption DEF Writes
<1>8. Works(None, U) /\ raced \subseteq raced'
  <2>1. payment' \in [Payment -> PaymentRow] /\ user' \in [User -> UserState]
    BY <1>1, <1>2 DEF TypeOK
  <2>2. QED
    BY <1>2, <1>5, <1>6, <1>7, <2>1, AtOnce
<1>9. Settles(U)
  BY <1>2 DEF Settles
<1>10. ASSUME NEW u \in U, u \notin raced' PROVE Settled(u)'
  <2>1. u \in User \ raced
    BY <1>6, <1>8, <1>10
  <2>2. LiveOf(table', u) = LiveOf(table, u) /\ LiveOf(table, u) \subseteq 1..Len(table)
    BY <1>1, <1>3, <1>4 DEF LiveOf
  <2>3. \A i \in LiveOf(table, u) : table'[i].default = table[i].default /\ table'[i].pm = table[i].pm
    BY <1>3, <2>2
  <2>4. DefaultsOf(table', u) = DefaultsOf(table, u)
    BY <2>2, <2>3 DEF DefaultsOf
  <2>5. Sole(table', u)
    BY <2>1, <2>2, <2>4 DEF Inv, Defaults, Sole
  <2>6. QED
    BY <1>2, <2>1, <2>2, <2>3, <2>5, SettledStill
<1>11. QED
  BY <1>2, <1>8, <1>9, <1>10, OnceKeeps

\* The cards that a deduplication leaves: none that is newer has the print.
Kept(t, u) ==
  {i \in LiveOf(t, u) : \A j \in LiveOf(t, u) : i < j /\ t[i].print # None => t[j].print # t[i].print}

\* What a deduplication does to the cards of those that were not raced on.
LEMMA DedupeIs ==
  ASSUME Inv, NEW r \in Request, CommitDedupe(r)
  PROVE  /\ Users(r) = User /\ User # {} /\ request[r].at = "deduping"
         /\ table' \in Seq(RowOf) /\ Writes(User)
         /\ DOMAIN table' = DOMAIN table
         /\ \A i \in DOMAIN table :
              table'[i].pm = table[i].pm /\ table'[i].print = table[i].print
         /\ \A u \in User \ raced : LiveOf(table', u) = Kept(table, u) /\ Sole(table', u)
<1> DEFINE seen   == request[r].seen
           loaded == {i \in DOMAIN seen : seen[i].live /\ seen[i].print # None}
           dup    == {i \in loaded : \E j \in loaded : i < j /\ SameCard(seen[i], seen[j])}
           group(u)   == LiveRows(u) \ dup
           default(i) == IF i \in loaded THEN seen[i].default ELSE table[i].default
           kept(u)    == Newest({i \in group(u) : default(i)})
           affected   == {seen[i].owner : i \in dup}
           demoted    == UNION {{i \in group(u) : default(i)} \ {kept(u)} : u \in affected}
           promoted   == {Newest(group(u)) : u \in {v \in affected : kept(v) = 0}}
           a == [i \in DOMAIN table |-> IF i \in demoted THEN AsOther(table[i]) ELSE table[i]]
           b == [i \in DOMAIN a |-> IF i \in promoted THEN AsDefault(a[i]) ELSE a[i]]
<1>1. /\ request[r].at = "deduping"
      /\ table' = [i \in DOMAIN b |-> IF i \in dup THEN AsDropped(b[i], seen[i].default) ELSE b[i]]
      /\ UNCHANGED <<user, payment, dropped>>
  BY DEF CommitDedupe, Put
<1> HIDE DEF seen, loaded, dup, demoted, promoted, a, b
<1>2. /\ TypeOK /\ Open(r)
      /\ DOMAIN table = 1..Len(table) /\ Len(table) \in Nat
      /\ \A i \in 1..Len(table) : table[i] \in RowOf
      /\ seen \in Seq(RowOf)
  <2>1. TypeOK /\ Open(r)
    BY DEF Inv
  <2>2. QED
    BY <2>1, TypeFacts DEF seen
<1>3. Users(r) = User /\ User # {}
  <2>1. request[r].users = User /\ User # {}
    BY <1>1, <1>2 DEF Open, Shape
  <2>2. QED
    BY <2>1 DEF Users
<1> HIDE DEF group, default, kept, affected
<1>10. DOMAIN a = 1..Len(table) /\ DOMAIN b = 1..Len(table)
  BY <1>2 DEF a, b
<1>4. ASSUME NEW i \in 1..Len(table)
      PROVE  /\ table'[i] \in RowOf
             /\ table'[i].pm = table[i].pm /\ table'[i].owner = table[i].owner
             /\ table'[i].print = table[i].print
             /\ table'[i].live = IF i \in dup THEN FALSE ELSE table[i].live
             /\ i \notin dup /\ i \in promoted => table'[i].default
             /\ i \notin dup /\ i \notin promoted /\ i \in demoted => ~table'[i].default
             /\ i \notin dup /\ i \notin promoted /\ i \notin demoted => table'[i] = table[i]
  <2>1. table[i] \in RowOf
    BY <1>2
  <2>2. /\ a[i] \in RowOf
        /\ a[i].pm = table[i].pm /\ a[i].owner = table[i].owner
        /\ a[i].print = table[i].print /\ a[i].live = table[i].live
        /\ i \in demoted => ~a[i].default
        /\ i \notin demoted => a[i] = table[i]
    <3>1. a[i] = IF i \in demoted THEN AsOther(table[i]) ELSE table[i]
      BY <1>2 DEF a
    <3>2. QED
      BY <2>1, <3>1 DEF AsOther, RowOf
  <2>3. /\ b[i] \in RowOf
        /\ b[i].pm = table[i].pm /\ b[i].owner = table[i].owner
        /\ b[i].print = table[i].print /\ b[i].live = table[i].live
        /\ i \in promoted => b[i].default
        /\ i \notin promoted => b[i] = a[i]
    <3>1. b[i] = IF i \in promoted THEN AsDefault(a[i]) ELSE a[i]
      BY <1>10 DEF b
    <3>2. QED
      BY <2>2, <3>1 DEF AsDefault, RowOf
  <2>4. table'[i] = IF i \in dup THEN AsDropped(b[i], seen[i].default) ELSE b[i]
    BY <1>1, <1>10
  <2>5. CASE i \in dup
    <3>1. table'[i] = AsDropped(b[i], seen[i].default)
      BY <2>4, <2>5
    <3>2. QED
      BY <2>3, <2>5, <3>1 DEF AsDropped, RowOf
  <2>6. CASE i \notin dup
    BY <2>2, <2>3, <2>4, <2>6
  <2>7. QED
    BY <2>5, <2>6
<1>5. DOMAIN table' = 1..Len(table) /\ table' = [i \in DOMAIN table |-> table'[i]]
  BY <1>1, <1>2, <1>10
<1>6. table' \in Seq(RowOf) /\ Len(table') = Len(table)
  <2> PICK v, t : v = table' /\ t = table
    OBVIOUS
  <2>1. t \in Seq(RowOf) /\ v = [i \in DOMAIN t |-> v[i]]
    BY <1>2, <1>5 DEF TypeOK
  <2>2. \A i \in 1..Len(table) : table'[i] \in RowOf
    BY <1>4
  <2>3. \A i \in DOMAIN t : v[i] \in RowOf
    BY <1>2, <2>2
  <2>4. v \in Seq(RowOf) /\ Len(v) = Len(t)
    BY <2>1, <2>3, Rewritten
  <2>5. QED
    BY <2>4
<1>7. Writes(User)
  <2>1. None \notin User
    BY CardsAssumption
  <2>2. \A i \in 1..Len(table) :
          /\ table'[i].pm = table[i].pm /\ table'[i].owner = table[i].owner
          /\ table'[i].live => table[i].live
    BY <1>4
  <2>3. QED
    BY <1>2, <1>6, <2>1, <2>2 DEF Writes
<1>8. ASSUME NEW u \in User \ raced
      PROVE  LiveOf(table', u) = Kept(table, u) /\ Sole(table', u)
  <2> PICK L : L = LiveOf(table, u)
    OBVIOUS
  <2>1. seen = table
    BY <1>1, <1>2 DEF Open, Fresh, seen
  <2>2. L \in SUBSET (1..Len(table)) /\ \A i \in L : table[i].live /\ table[i].owner = u
    BY <1>2 DEF LiveOf
  <2>3. \A i \in 1..Len(table) : i \in L <=> table[i].live /\ table[i].owner = u
    BY <1>2 DEF LiveOf
  <2>4. \A i \in L : i \in dup <=> \E j \in L : /\ i < j /\ table[i].print # None
                                            /\ table[j].print = table[i].print
    <3> SUFFICES ASSUME NEW i \in L
                 PROVE  i \in dup <=> \E j \in L : /\ i < j /\ table[i].print # None
                                                   /\ table[j].print = table[i].print
      OBVIOUS
    <3>1. \A j : j \in loaded <=> j \in 1..Len(table) /\ table[j].live /\ table[j].print # None
      BY <1>2, <2>1 DEF loaded
    <3>2. ASSUME i \in dup
          PROVE  \E j \in L : i < j /\ table[i].print # None /\ table[j].print = table[i].print
      <4>1. i \in loaded /\ \E j \in loaded : i < j /\ SameCard(seen[i], seen[j])
        BY <3>2 DEF dup
      <4>2. PICK j \in loaded : i < j /\ SameCard(seen[i], seen[j])
        BY <4>1
      <4>3. j \in L /\ table[i].print # None /\ table[j].print = table[i].print
        BY <2>1, <2>2, <2>3, <3>1, <4>1, <4>2 DEF SameCard
      <4>4. QED
        BY <4>2, <4>3
    <3>3. ASSUME NEW j \in L, i < j, table[i].print # None, table[j].print = table[i].print
          PROVE  i \in dup
      <4>1. i \in loaded /\ j \in loaded /\ SameCard(seen[i], seen[j])
        BY <2>1, <2>2, <3>1, <3>3 DEF SameCard
      <4>2. QED
        BY <3>3, <4>1 DEF dup
    <3>4. QED
      BY <3>2, <3>3
  <2>5. group(u) = L \ dup
    BY DEF group, LiveRows
  <2>6. LiveOf(table', u) = L \ dup
    <3>1. \A i \in 1..Len(table) : table'[i].live /\ table'[i].owner = u <=> i \in L /\ i \notin dup
      BY <1>4, <2>3
    <3>2. LiveOf(table', u) = {i \in 1..Len(table) : i \in L /\ i \notin dup}
      BY <1>5, <3>1 DEF LiveOf
    <3>3. QED
      BY <2>2, <3>2
  <2>7. Kept(table, u) = L \ dup
    BY <2>4 DEF Kept
  <2>8. Sole(table', u)
    <3>1. CASE L \ dup = {}
      BY <2>6, <3>1 DEF Sole
    <3>2. CASE L \ dup # {}
      <4>1. PICK d \in L : \A i \in L : table[i].default <=> i = d
        <5>1. Sole(table, u)
          BY DEF Inv, Defaults
        <5>2. PICK d \in L : DefaultsOf(table, u) = {d}
          BY <3>2, <5>1 DEF Sole
        <5>3. QED
          BY <5>2 DEF DefaultsOf
      <4>2. \A i : default(i) = table[i].default
        BY <2>1 DEF default
      <4>3. \A v : group(v) \in SUBSET (1..Len(table)) /\ \A i \in group(v) : table[i].owner = v
        BY <1>2 DEF group, LiveRows, LiveOf
      <4>4. \A v : /\ group(v) = {} => Newest(group(v)) = 0
                   /\ group(v) # {} => Newest(group(v)) \in group(v)
        BY <1>2, <4>3, NewestIs
      <4>5. \A i \in L : i \in promoted => u \in affected /\ kept(u) = 0 /\ i = Newest(group(u))
        <5> SUFFICES ASSUME NEW i \in L, i \in promoted
                     PROVE  u \in affected /\ kept(u) = 0 /\ i = Newest(group(u))
          OBVIOUS
        <5>1. PICK v \in affected : kept(v) = 0 /\ i = Newest(group(v))
          BY DEF promoted
        <5>2. i # 0
          BY <2>2
        <5>3. i \in group(v)
          BY <4>4, <5>1, <5>2
        <5>4. v = u
          BY <2>2, <4>3, <5>3
        <5>5. QED
          BY <5>1, <5>4
      <4>6. \A i \in L : i \in demoted => i \in group(u) /\ default(i) /\ i # kept(u)
        <5> SUFFICES ASSUME NEW i \in L, i \in demoted
                     PROVE  i \in group(u) /\ default(i) /\ i # kept(u)
          OBVIOUS
        <5>1. PICK v \in affected : i \in group(v) /\ default(i) /\ i # kept(v)
          BY DEF demoted
        <5>2. v = u
          BY <2>2, <4>3, <5>1
        <5>3. QED
          BY <5>1, <5>2
      <4>7. {i \in group(u) : default(i)} = IF d \in dup THEN {} ELSE {d}
        BY <2>5, <4>1, <4>2
      <4>8. kept(u) = IF d \in dup THEN 0 ELSE d
        <5>1. CASE d \in dup
          <6>1. Newest({}) = 0
            BY <1>2, NewestIs
          <6>2. QED
            BY <4>7, <5>1, <6>1 DEF kept
        <5>2. CASE d \notin dup
          <6>1. {d} \in SUBSET (1..Len(table))
            BY <2>2
          <6>2. Newest({d}) \in {d}
            BY <1>2, <6>1, NewestIs
          <6>3. QED
            BY <4>7, <5>2, <6>2 DEF kept
        <5>3. QED
          BY <5>1, <5>2
      <4>9. CASE d \notin dup
        <5>1. kept(u) = d /\ d # 0
          BY <2>2, <4>8, <4>9
        <5>2. \A i \in L \ dup : i \notin promoted /\ i \notin demoted
          <6> SUFFICES ASSUME NEW i \in L \ dup PROVE i \notin promoted /\ i \notin demoted
            OBVIOUS
          <6>1. i \notin promoted
            BY <4>5, <5>1
          <6>2. default(i) => i = d
            BY <4>1, <4>2
          <6>3. QED
            BY <4>6, <5>1, <6>1, <6>2
        <5>3. \A i \in L \ dup : table'[i].default <=> i = d
          BY <1>4, <2>2, <4>1, <5>2
        <5>4. DefaultsOf(table', u) = {d}
          BY <2>6, <4>9, <5>3 DEF DefaultsOf
        <5>5. QED
          BY <2>6, <4>9, <5>4 DEF Sole
      <4>10. CASE d \in dup
        <5> PICK g : g = Newest(group(u))
          OBVIOUS
        <5>1. g \in L \ dup
          BY <2>5, <3>2, <4>4
        <5>2. u \in affected
          <6>1. seen[d].owner = u
            BY <2>1, <2>2
          <6>2. QED
            BY <4>10, <6>1 DEF affected
        <5>3. kept(u) = 0
          BY <4>8, <4>10
        <5>4. g \in promoted
          BY <5>2, <5>3 DEF promoted
        <5>5. \A i \in L \ dup : i \in promoted <=> i = g
          BY <4>5, <5>4
        <5>6. \A i \in L \ dup : ~table[i].default
          BY <4>1, <4>10
        <5>7. \A i \in L \ dup : table'[i].default <=> i = g
          BY <1>4, <2>2, <5>5, <5>6
        <5>8. DefaultsOf(table', u) = {g}
          BY <2>6, <5>1, <5>7 DEF DefaultsOf
        <5>9. QED
          BY <2>6, <5>1, <5>8 DEF Sole
      <4>11. QED
        BY <4>9, <4>10
    <3>3. QED
      BY <3>1, <3>2
  <2>9. QED
    BY <2>6, <2>7, <2>8
<1>9. QED
  BY <1>1, <1>2, <1>3, <1>4, <1>5, <1>6, <1>7, <1>8

LEMMA CommitDedupeKeeps ==
  ASSUME Inv, NEW r \in Request, CommitDedupe(r)
  PROVE  Inv'
<1>1. /\ Users(r) = User /\ User # {} /\ request[r].at = "deduping"
      /\ table' \in Seq(RowOf) /\ Writes(User)
      /\ \A i \in DOMAIN table : table'[i].pm = table[i].pm
      /\ \A u \in User \ raced : LiveOf(table', u) = Kept(table, u) /\ Sole(table', u)
  BY DedupeIs
<1>2. TypeOK /\ Finish(r) /\ UNCHANGED <<user, payment, dropped>>
  BY DEF Inv, CommitDedupe
<1>3. Works(r, Users(r)) /\ Open(r)' /\ ApartFrom(r)' /\ raced' = raced
  BY <1>1, <1>2, Commits DEF TypeOK
<1>4. Settles(Users(r)) /\ Answers(r)
  BY <1>1, <1>2 DEF Settles, Answers
<1>5. ASSUME NEW u \in Users(r), u \notin raced' PROVE Settled(u)'
  <2>1. u \in User \ raced
    BY <1>1, <1>3, <1>5
  <2>2. LiveOf(table', u) \subseteq LiveOf(table, u)
    BY <1>1, <2>1 DEF Kept
  <2>3. \A i \in LiveOf(table, u) : table'[i].pm = table[i].pm
    BY <1>1 DEF LiveOf
  <2>4. QED
    BY <1>1, <1>2, <2>1, <2>2, <2>3, SettledStill
<1>6. QED
  BY <1>3, <1>4, <1>5, StepKeeps

-----------------------------------------------------------------------------
LEMMA InitKeeps == Init => Inv
<1> SUFFICES ASSUME Init PROVE Inv
  OBVIOUS
<1>1. PICK p \in Payment, u \in User, c \in Card, print \in BOOLEAN :
        /\ payment = [o \in Payment |->
                        IF o # p THEN NoPayment
                        ELSE [NoPayment EXCEPT !.kind = "donation", !.user = u, !.card = c,
                                               !.done = TRUE]]
        /\ table = <<[pm |-> p, owner |-> u, live |-> TRUE, default |-> TRUE,
                      print |-> IF print THEN c ELSE None]>>
  BY DEF Init
<1> PICK row : row = [pm |-> p, owner |-> u, live |-> TRUE, default |-> TRUE,
                      print |-> IF print THEN c ELSE None]
  OBVIOUS
<1>2. /\ row \in RowOf /\ row.pm = p /\ row.owner = u /\ row.live = TRUE /\ row.default = TRUE
  BY DEF RowOf
<1>3. /\ table \in Seq(RowOf) /\ Len(table) = 1 /\ DOMAIN table = {1} /\ table[1] = row
  BY <1>1, <1>2
<1>4. \A o \in Payment :
        /\ payment[o] \in PaymentRow /\ ~payment[o].refunded
        /\ o # p => payment[o] = NoPayment
        /\ o = p => payment[o].kind = "donation" /\ payment[o].user = u
  BY <1>1 DEF NoPayment, PaymentRow
<1>5. payment \in [Payment -> PaymentRow]
  BY <1>1, <1>4
<1>6. /\ user \in [User -> UserState] /\ \A v \in User : user[v] # "merged"
  BY DEF Init, UserState
<1>7. \A r \in Request : request[r] = Idle
  BY DEF Init
<1>8. TypeOK
  <2>1. request \in [Request -> RequestState]
    BY IdleIs DEF Init
  <2>2. \A r \in Request : {request[r].row, request[r].next} \subseteq 0..Len(table)
    BY <1>3, <1>7 DEF Idle
  <2>3. begun \in 0..MaxRequests /\ raced \subseteq User /\ dropped \subseteq Payment
    BY CardsAssumption DEF Init
  <2>4. QED
    BY <1>3, <1>5, <1>6, <2>1, <2>2, <2>3 DEF TypeOK
<1>9. \A r \in Request : Open(r) /\ Users(r) = {}
  <2> TAKE r \in Request
  <2>1. /\ request[r].at = "idle" /\ request[r].users = {} /\ request[r].row = 0
        /\ request[r].next = 0 /\ request[r] = Idle
    <3>1. request[r] = Idle
      BY <1>7
    <3>2. /\ Idle.at = "idle" /\ Idle.users = {} /\ Idle.row = 0 /\ Idle.next = 0
      BY DEF Idle
    <3>3. QED
      BY <3>1, <3>2
  <2>2. Users(r) = {}
    BY <2>1 DEF Users
  <2>3. Open(r)
    BY <1>7, <2>1, <2>2 DEF Open, Shape, Held, Fresh, Idle, Saves, Holds
  <2>4. QED
    BY <2>2, <2>3
<1>10. Apart
  BY <1>9 DEF Apart
<1>11. Owners
  BY <1>2, <1>3 DEF Owners
<1>12. Defaults
  <2> SUFFICES ASSUME NEW v \in User PROVE Sole(table, v)
    BY DEF Defaults
  <2>1. CASE v = u
    <3>1. LiveOf(table, v) = {1} /\ DefaultsOf(table, v) = {1}
      BY <1>2, <1>3, <2>1 DEF LiveOf, DefaultsOf
    <3>2. QED
      BY <3>1 DEF Sole
  <2>2. CASE v # u
    <3>1. LiveOf(table, v) = {}
      BY <1>2, <1>3, <2>2 DEF LiveOf
    <3>2. QED
      BY <3>1 DEF Sole
  <2>3. QED
    BY <2>1, <2>2
<1>13. Followed
  BY <1>6 DEF Followed
<1>14. Returned
  BY <1>4 DEF Returned
<1>15. Paid
  BY <1>4 DEF Paid
<1>16. NothingLeftBehind
  BY <1>2, <1>3, <1>6 DEF NothingLeftBehind
<1>17. QED
  BY <1>8, <1>9, <1>10, <1>11, <1>12, <1>13, <1>14, <1>15, <1>16 DEF Inv

LEMMA StutterKeeps == Inv /\ UNCHANGED vars => Inv'
<1> SUFFICES ASSUME Inv, UNCHANGED vars PROVE Inv'
  OBVIOUS
<1>1. TypeOK
  BY DEF Inv
<1>2. TypeOK' /\ table' = table /\ request' = request
  BY <1>1 DEF vars, TypeOK
<1>3. Works(None, {})
  <2>1. Len(table) \in Nat
    BY <1>1, TypeFacts
  <2>2. QED
    BY <1>2, <2>1 DEF vars, Works, Writes
<1>4. Settles({})
  BY DEF Settles, vars
<1>5. QED
  BY <1>3, <1>4, OnceKeeps DEF vars

LEMMA NextKeeps == Inv /\ [Next]_vars => Inv'
<1> SUFFICES ASSUME Inv, [Next]_vars PROVE Inv'
  OBVIOUS
<1>1. CASE \E p \in Payment, u \in User, c \in Card, k \in {"donation", "card_save"} : Pay(p, u, c, k)
  BY <1>1, PayKeeps
<1>2. ASSUME NEW r \in Request,
             \/ \E p \in Payment : Notify(r, p)
             \/ FindCard(r) \/ InsertCard(r) \/ GiveBack(r)
             \/ \E described \in BOOLEAN : CommitCard(r, described)
             \/ Rollback(r)
      PROVE  Inv'
  BY <1>2, NotifyKeeps, FindCardKeeps, InsertCardKeeps, GiveBackKeeps, CommitCardKeeps,
     RollbackKeeps
<1>3. ASSUME NEW r \in Request, UserRequest(r)
      PROVE  Inv'
  <2>1. ASSUME NEW u \in User, NEW i \in DOMAIN table,
               LoadRow(r, u, i, "deleting") \/ LoadRow(r, u, i, "defaulting")
        PROVE  Inv'
    <3>1. CASE LoadRow(r, u, i, "deleting")
      BY <3>1, LoadRowKeeps
    <3>2. CASE LoadRow(r, u, i, "defaulting")
      BY <3>2, LoadRowKeeps
    <3>3. QED
      BY <2>1, <3>1, <3>2
  <2>2. CASE Promote(r) \/ CommitDelete(r) \/ CommitDefault(r) \/ CommitRecover(r)
    BY <2>2, PromoteKeeps, CommitDeleteKeeps, CommitDefaultKeeps, CommitRecoverKeeps
  <2>3. ASSUME NEW u \in User, LoadRecover(r, u) PROVE Inv'
    BY <2>3, LoadRecoverKeeps
  <2>4. QED
    BY <1>3, <2>1, <2>2, <2>3 DEF UserRequest
<1>4. CASE AdminRequest
  BY <1>4, LoadDedupeKeeps, CommitDedupeKeeps, BackfillKeeps DEF AdminRequest
<1>5. CASE \E s, u \in User : Link(s, u)
  BY <1>5, LinkKeeps
<1>6. CASE \E u \in User, kept \in BOOLEAN : Clean(u, kept)
  BY <1>6, CleanKeeps
<1>7. CASE UNCHANGED vars
  BY <1>7, StutterKeeps
<1>8. QED
  BY <1>1, <1>2, <1>3, <1>4, <1>5, <1>6, <1>7 DEF Next

LEMMA InvAlways == Spec => []Inv
<1>1. QED
  BY InitKeeps, NextKeeps, PTL DEF Spec

-----------------------------------------------------------------------------
\* The columns keep their types, and a request that holds rows holds rows that
\* are there.
THEOREM TypeCorrect == Spec => []TypeOK
<1>1. Inv => TypeOK
  BY DEF Inv
<1>2. QED
  BY <1>1, InvAlways, PTL

\* Whatever is saved, deleted, promoted, merged, cleaned and deduplicated, a
\* user with cards has exactly one default card, unless two requests have
\* worked on the user at the same time.
THEOREM DefaultCorrect == Spec => []OneDefault
<1>1. Inv => OneDefault
  <2> SUFFICES ASSUME Inv, NEW u \in User \ raced, LiveRows(u) # {}
               PROVE  Cardinality({i \in LiveRows(u) : table[i].default}) = 1
    BY DEF OneDefault
  <2>1. Sole(table, u)
    BY DEF Inv, Defaults
  <2>2. PICK d \in LiveRows(u) : {i \in LiveRows(u) : table[i].default} = {d}
    BY <2>1 DEF Sole, DefaultsOf, LiveRows
  <2>3. QED
    BY <2>2, FS_Singleton
<1>2. QED
  BY <1>1, InvAlways, PTL

\* A merged account keeps no card but that of a binding or of a later donation.
THEOREM MergeCorrect == Spec => []NothingLeftBehind
<1>1. Inv => NothingLeftBehind
  BY DEF Inv
<1>2. QED
  BY <1>1, InvAlways, PTL

\* A rouble is given back for a card that is there, or that the request that
\* gave it back is about to commit, or that was rolled back with it.
THEOREM GivenBackCorrect == Spec => []GivenBackForACard
<1>1. Inv => GivenBackForACard
  BY DEF Inv, Returned, Covered, GivenBackForACard
<1>2. QED
  BY <1>1, InvAlways, PTL

\* Of the cards of one physical card a deduplication leaves the newest.
LEMMA DedupeLeaves ==
  ASSUME Inv, NEW r \in Request, CommitDedupe(r), NEW u \in User \ raced, NEW c \in Card
  PROVE  {i \in LiveRows(u)' : table'[i].print = c} =
           {Newest({i \in LiveRows(u) : table[i].print = c})} \ {0}
<1> PICK L : L = LiveOf(table, u)
  OBVIOUS
<1> PICK mine : mine = {i \in L : table[i].print = c}
  OBVIOUS
<1> PICK m : m = Newest(mine)
  OBVIOUS
<1>1. DOMAIN table = 1..Len(table) /\ Len(table) \in Nat
  <2>1. TypeOK
    BY DEF Inv
  <2>2. QED
    BY <2>1, TypeFacts
<1>2. L \in SUBSET (1..Len(table)) /\ mine \in SUBSET (1..Len(table))
  BY <1>1 DEF LiveOf
<1>3. LiveOf(table', u) = Kept(table, u) /\ \A i \in DOMAIN table : table'[i].print = table[i].print
  BY DedupeIs
<1>4. {i \in LiveRows(u)' : table'[i].print = c} = {i \in Kept(table, u) : table[i].print = c}
  <2>1. Kept(table, u) \subseteq DOMAIN table
    BY DEF Kept, LiveOf
  <2>2. LiveRows(u)' = Kept(table, u)
    BY <1>3 DEF LiveRows
  <2>3. QED
    BY <1>3, <2>1, <2>2
<1>5. c # None
  BY CardsAssumption
<1>6. {i \in Kept(table, u) : table[i].print = c} = {i \in mine : \A j \in mine : ~(i < j)}
  BY <1>5 DEF Kept
<1>7. /\ mine = {} => m = 0
      /\ mine # {} => m \in mine /\ \A j \in mine : j <= m
  BY <1>1, <1>2, NewestIs
<1>8. {i \in mine : \A j \in mine : ~(i < j)} = {m} \ {0}
  <2>1. CASE mine = {}
    BY <1>7, <2>1
  <2>2. CASE mine # {}
    <3>1. m \in mine /\ (\A j \in mine : j <= m) /\ \A j \in mine : j \in 1..Len(table)
      BY <1>2, <1>7, <2>2
    <3>6. \A j \in mine : j \in Int
      BY <1>1, <3>1
    <3>2. ASSUME NEW j \in mine PROVE ~(m < j)
      <4>1. m \in Int /\ j \in Int /\ j <= m
        BY <3>1, <3>6
      <4>2. QED
        BY <4>1
    <3>3. ASSUME NEW i \in mine, \A j \in mine : ~(i < j) PROVE i = m
      <4>1. i \in Int /\ m \in Int /\ i <= m /\ ~(i < m)
        BY <3>1, <3>3, <3>6
      <4>2. QED
        BY <4>1
    <3>4. m # 0
      BY <3>1
    <3>5. QED
      BY <3>1, <3>2, <3>3, <3>4
  <2>3. QED
    BY <2>1, <2>2
<1>9. QED
  BY <1>4, <1>6, <1>8 DEF LiveRows

\* A deduplication takes no physical card away, and leaves one of each.
THEOREM DedupeCorrect == Spec => DedupeKeepsNewest
<1>1. Inv /\ [Next]_vars =>
        [\A r \in Request : CommitDedupe(r) =>
           \A u \in User \ raced : \A c \in Card :
             LET mine == {i \in LiveRows(u) : table[i].print = c}
             IN {i \in LiveRows(u)' : table'[i].print = c} = {Newest(mine)} \ {0}]_vars
  BY DedupeLeaves
<1>2. QED
  BY <1>1, InvAlways, PTL DEF Spec, DedupeKeepsNewest
=============================================================================
