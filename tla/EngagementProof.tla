--------------------------- MODULE EngagementProof ---------------------------
(***************************************************************************)
(* Safety of Engagement for any number of users, payments, requests and    *)
(* posters, any length of the day and of the cooldown, and any bounds.     *)
(***************************************************************************)
EXTENDS Engagement, FiniteSetTheorems, WellFoundedInduction, TLAPS

-----------------------------------------------------------------------------
(***************************************************************************)
(* Runs of dates.                                                          *)
(***************************************************************************)

\* The dates of D that are linked to d by dates of D.
RunOf(D, d) == {e \in D : e <= d /\ e..d \subseteq D}

LEMMA RunIs ==
  ASSUME NEW row, NEW d
  PROVE  Run(row, d) = RunOf(row.days \cup row.skips, d)
  BY DEF Run, RunOf

\* The next date joins the run.
LEMMA RunJoined ==
  ASSUME NEW D \in SUBSET Nat, NEW d \in Nat, \A e \in D : e <= d
  PROVE  RunOf(D \cup {d + 1}, d + 1) = RunOf(D, d) \cup {d + 1}
<1>1. ASSUME NEW e \in RunOf(D \cup {d + 1}, d + 1), e # d + 1
      PROVE  e \in RunOf(D, d)
  <2>1. e \in D /\ e <= d /\ e..(d + 1) \subseteq D \cup {d + 1}
    BY <1>1 DEF RunOf
  <2>2. e..d \subseteq D
    BY <2>1
  <2>3. QED
    BY <2>1, <2>2 DEF RunOf
<1>2. ASSUME NEW e \in RunOf(D, d)
      PROVE  e \in RunOf(D \cup {d + 1}, d + 1)
  <2>1. e \in D /\ e <= d /\ e..d \subseteq D
    BY DEF RunOf
  <2>2. e..(d + 1) \subseteq D \cup {d + 1}
    BY <2>1
  <2>3. QED
    BY <2>1, <2>2 DEF RunOf
<1>3. d + 1 \in RunOf(D \cup {d + 1}, d + 1)
  BY DEF RunOf
<1>4. QED
  BY <1>1, <1>2, <1>3

\* After a gap a run begins.
LEMMA RunBegins ==
  ASSUME NEW D \in SUBSET Nat, NEW d \in Nat, \A e \in D : e < d - 1
  PROVE  RunOf(D \cup {d}, d) = {d}
<1>1. ASSUME NEW e \in RunOf(D \cup {d}, d), e # d
      PROVE  FALSE
  <2>1. e \in D /\ e..d \subseteq D \cup {d}
    BY <1>1 DEF RunOf
  <2>2. e < d - 1 /\ d - 1 \in e..d
    BY <2>1
  <2>3. QED
    BY <2>1, <2>2
<1>2. d \in RunOf(D \cup {d}, d)
  BY DEF RunOf
<1>3. QED
  BY <1>1, <1>2

-----------------------------------------------------------------------------
(***************************************************************************)
(* The streak of a row.                                                    *)
(***************************************************************************)
StreakOK(row) ==
  /\ row.last = None => row.streak = 0 /\ row.days = {} /\ row.skips = {}
  /\ row.last # None => row.streak <= Cardinality(row.days \cap 0..row.last)
  /\ (row.last # None /\ ~row.unclear) =>
       /\ \A d \in row.days \cup row.skips : d <= row.last
       /\ row.streak = Cardinality(row.days \cap RunOf(row.days \cup row.skips, row.last))

LEMMA DateNat == /\ MaxTime \div Day \in Nat /\ Date \subseteq Nat /\ None \notin Date
                 /\ \A D \in SUBSET Date : IsFiniteSet(D) /\ Cardinality(D) \in Nat
<1>1. MaxTime \div Day \in Nat
  BY EngagementAssumption
<1>2. Date \subseteq Nat /\ IsFiniteSet(Date)
  BY <1>1, FS_Interval DEF Date
<1>3. \A D \in SUBSET Date : IsFiniteSet(D) /\ Cardinality(D) \in Nat
  BY <1>2, FS_Subset, FS_CardinalityType
<1>4. None \notin Date
  <2>1. \A d \in Date : d \in Int
    BY <1>2
  <2>2. None \notin Int
    BY EngagementAssumption
  <2>3. QED
    BY <2>1, <2>2
<1>5. QED
  BY <1>1, <1>2, <1>3, <1>4

LEMMA NewUserOK == NewUser \in UserRow /\ StreakOK(NewUser)
  BY DEF NewUser, UserRow, StreakOK

\* What update_user_streak makes of a row whose streak is right.
LEMMA PostedOK ==
  ASSUME NEW row \in UserRow, StreakOK(row), NEW today \in Date
  PROVE  Posted(row, today) \in UserRow /\ StreakOK(Posted(row, today))
<1> DEFINE new == Posted(row, today)
           D == row.days \cup row.skips
<1>1. /\ row.streak \in Nat /\ row.last \in Date \cup {None} /\ row.gifts \in Nat
      /\ row.days \subseteq Date /\ row.skips \subseteq Date /\ row.unclear \in BOOLEAN
      /\ today \in Nat /\ D \subseteq Nat /\ None \notin Date
  BY DateNat DEF UserRow
<1>2. /\ new.streak = NextStreak(row, today) /\ new.last = today
      /\ new.days = row.days \cup {today} /\ new.skips = row.skips
      /\ new.unclear = (row.unclear \/ ~InOrder(row, today))
  BY DEF Posted, UserRow
<1>3. /\ NextStreak(row, today) \in Nat
      /\ row.last = today => NextStreak(row, today) = row.streak
      /\ row.last = today - 1 => NextStreak(row, today) = row.streak + 1
      /\ row.last \notin {today, today - 1} => NextStreak(row, today) = 1
  BY <1>1 DEF NextStreak
<1>4. new \in UserRow
  <2>1. (row.unclear \/ ~InOrder(row, today)) \in BOOLEAN
    OBVIOUS
  <2>2. new = [streak |-> NextStreak(row, today), last |-> today, gifts |-> row.gifts + 1,
               days |-> row.days \cup {today}, skips |-> row.skips,
               unclear |-> (row.unclear \/ ~InOrder(row, today))]
    BY DEF Posted
  <2>3. row.gifts + 1 \in Nat /\ row.days \cup {today} \subseteq Date
    BY <1>1
  <2> HIDE DEF new
  <2>4. QED
    BY <1>1, <1>3, <2>1, <2>2, <2>3 DEF UserRow
<1> HIDE DEF new
<1>5. new.streak <= Cardinality(new.days \cap 0..today)
  <2> DEFINE old == row.days \cap 0..(today - 1)
             now1 == new.days \cap 0..today
  <2>1. /\ IsFiniteSet(old) /\ IsFiniteSet(now1)
        /\ Cardinality(old) \in Nat /\ Cardinality(now1) \in Nat
    <3>1. old \subseteq Date /\ now1 \subseteq Date
      BY <1>1, <1>2
    <3>2. QED
      BY <3>1, DateNat
  <2>2. now1 = old \cup {today} /\ today \notin old
    BY <1>1, <1>2, DateNat
  <2>3. Cardinality(now1) = Cardinality(old) + 1
    BY <2>1, <2>2, FS_AddElement
  <2>4. CASE row.last = today
    <3>1. row.streak <= Cardinality(row.days \cap 0..today)
      BY <2>4, <1>1 DEF StreakOK
    <3>2. row.days \cap 0..today \subseteq now1
      BY <1>2
    <3>3. Cardinality(row.days \cap 0..today) <= Cardinality(now1)
      BY <3>2, <2>1, FS_Subset
    <3>4. Cardinality(row.days \cap 0..today) \in Nat
      BY <1>1, DateNat
    <3>5. QED
      BY <3>1, <3>3, <3>4, <2>1, <2>4, <1>1, <1>2, <1>3
  <2>5. CASE row.last = today - 1
    <3>1. row.streak <= Cardinality(old)
      BY <2>5, <1>1, EngagementAssumption DEF StreakOK
    <3>2. QED
      BY <3>1, <2>1, <2>3, <2>5, <1>1, <1>2, <1>3
  <2>6. CASE row.last \notin {today, today - 1}
    BY <2>6, <2>1, <2>3, <1>2, <1>3
  <2>7. QED
    BY <2>4, <2>5, <2>6
<1>6. ASSUME ~new.unclear
      PROVE  /\ \A d \in new.days \cup new.skips : d <= today
             /\ new.streak = Cardinality(new.days \cap RunOf(new.days \cup new.skips, today))
  <2>1. ~row.unclear /\ InOrder(row, today)
    BY <1>6, <1>2
  <2>2. new.days \cup new.skips = D \cup {today}
    BY <1>2
  <2>3. CASE row.last = None
    <3>1. D = {} /\ new.streak = 1 /\ new.days = {today}
      BY <2>3, <1>1, <1>2, <1>3 DEF StreakOK
    <3>2. RunOf(D \cup {today}, today) = {today}
      BY <3>1, <1>1, RunBegins
    <3>3. new.days \cap RunOf(D \cup {today}, today) = {today}
      BY <3>1, <3>2
    <3>4. Cardinality({today}) = 1
      BY FS_Singleton
    <3>5. \A d \in D \cup {today} : d <= today
      BY <3>1, <1>1
    <3>6. QED
      BY <2>2, <3>1, <3>3, <3>4, <3>5
  <2>4. CASE row.last # None
    <3>1. /\ row.last \in Nat /\ row.last <= today
          /\ \A d \in D : d <= row.last
          /\ row.streak = Cardinality(row.days \cap RunOf(D, row.last))
      <4>1. row.last \in Nat
        BY <2>4, <1>1, DateNat
      <4>2. row.last <= today
        BY <2>1, <2>4 DEF InOrder
      <4>3. QED
        BY <2>1, <2>4, <4>1, <4>2 DEF StreakOK
    <3>2. CASE row.last = today
      <4>1. today \in row.days
        BY <3>2, <2>1 DEF InOrder
      <4>2. D \cup {today} = D /\ new.days = row.days
        BY <4>1, <1>2
      <4>3. QED
        BY <3>1, <3>2, <4>2, <2>2, <1>2, <1>3
    <3>3. CASE row.last = today - 1
      <4>1. RunOf(D \cup {today}, today) = RunOf(D, row.last) \cup {today}
        <5>1. today = row.last + 1
          BY <3>1, <3>3, <1>1
        <5>2. QED
          BY <5>1, <3>1, <1>1, RunJoined
      <4>2. today \notin row.days /\ today \notin RunOf(D, row.last)
        BY <3>1, <3>3, <1>1 DEF RunOf
      <4> DEFINE old == row.days \cap RunOf(D, row.last)
      <4>3. new.days \cap RunOf(D \cup {today}, today) = old \cup {today}
        BY <4>1, <4>2, <1>2
      <4>4. IsFiniteSet(old) /\ today \notin old
        BY <4>2, <1>1, DateNat
      <4>5. Cardinality(old \cup {today}) = Cardinality(old) + 1
        BY <4>4, FS_AddElement
      <4>6. new.streak = row.streak + 1
        BY <3>3, <1>2, <1>3
      <4>7. \A d \in D \cup {today} : d <= today
        BY <3>1, <1>1
      <4> HIDE DEF old
      <4>8. QED
        BY <4>3, <4>5, <4>6, <4>7, <3>1, <2>2 DEF old
    <3>4. CASE row.last \notin {today, today - 1}
      <4>1. \A d \in D : d < today - 1
        BY <3>1, <3>4, <1>1
      <4>2. RunOf(D \cup {today}, today) = {today}
        BY <4>1, <1>1, RunBegins
      <4>3. new.days \cap RunOf(D \cup {today}, today) = {today} /\ new.streak = 1
        BY <4>2, <1>2, <1>3, <3>4
      <4>4. \A d \in D \cup {today} : d <= today
        BY <3>1, <1>1
      <4>5. Cardinality({today}) = 1
        BY FS_Singleton
      <4>6. QED
        BY <2>2, <4>3, <4>4, <4>5
    <3>5. QED
      BY <3>2, <3>3, <3>4
  <2>5. QED
    BY <2>3, <2>4
<1>7. QED
  BY <1>1, <1>2, <1>4, <1>5, <1>6 DEF StreakOK, new

\* What mark_streak_no_campaigns makes of it.
LEMMA SkippedOK ==
  ASSUME NEW row \in UserRow, StreakOK(row), NEW today \in Date, NEW new \in UserRow,
         row.last # None => row.last < today,
         new.streak = row.streak, new.last = today, new.days = row.days,
         new.skips = row.skips \cup {today},
         ~new.unclear => ~row.unclear /\ row.last \in {None, today - 1}
  PROVE  StreakOK(new)
<1> DEFINE D == row.days \cup row.skips
<1>1. /\ row.streak \in Nat /\ row.last \in Date \cup {None}
      /\ row.days \subseteq Date /\ row.skips \subseteq Date
      /\ today \in Nat /\ D \subseteq Nat /\ None \notin Date
  BY DateNat DEF UserRow
<1>2. new.streak <= Cardinality(row.days \cap 0..today)
  <2>1. CASE row.last = None
    <3>1. row.streak = 0 /\ row.days = {}
      BY <2>1 DEF StreakOK
    <3>2. row.days \cap 0..today \subseteq Date
      BY <1>1
    <3>3. Cardinality(row.days \cap 0..today) \in Nat
      BY <3>2, DateNat
    <3>4. QED
      BY <3>1, <3>3
  <2>2. CASE row.last # None
    <3>1. row.last \in Nat /\ row.last < today
      BY <2>2, <1>1, DateNat
    <3> DEFINE before == row.days \cap 0..row.last
               after  == row.days \cap 0..today
    <3>2. before \subseteq after /\ after \subseteq Date /\ before \subseteq Date
      BY <3>1, <1>1
    <3>3. IsFiniteSet(after) /\ Cardinality(after) \in Nat /\ Cardinality(before) \in Nat
      BY <3>2, DateNat
    <3>4. Cardinality(before) <= Cardinality(after)
      BY <3>2, <3>3, FS_Subset
    <3>5. row.streak <= Cardinality(before)
      BY <2>2 DEF StreakOK
    <3>6. QED
      BY <3>3, <3>4, <3>5, <1>1
  <2>3. QED
    BY <2>1, <2>2
<1>3. ASSUME ~new.unclear
      PROVE  /\ \A d \in new.days \cup new.skips : d <= today
             /\ new.streak = Cardinality(new.days \cap RunOf(new.days \cup new.skips, today))
  <2>1. ~row.unclear /\ row.last \in {None, today - 1}
    BY <1>3
  <2>2. new.days \cup new.skips = D \cup {today}
    OBVIOUS
  <2>3. CASE row.last = None
    <3>1. D = {} /\ new.streak = 0 /\ new.days = {}
      BY <2>3 DEF StreakOK
    <3>2. new.days \cap RunOf(D \cup {today}, today) = {}
      BY <3>1
    <3>3. Cardinality({}) = 0
      BY FS_EmptySet
    <3>4. \A d \in D \cup {today} : d <= today
      BY <3>1, <1>1
    <3>5. QED
      BY <2>2, <3>1, <3>2, <3>3, <3>4
  <2>4. CASE row.last # None
    <3>1. row.last \in Nat /\ today = row.last + 1
      BY <2>1, <2>4, <1>1, DateNat
    <3>2. /\ \A d \in D : d <= row.last
          /\ row.streak = Cardinality(row.days \cap RunOf(D, row.last))
      BY <2>1, <2>4 DEF StreakOK
    <3>3. RunOf(D \cup {today}, today) = RunOf(D, row.last) \cup {today}
      <4>1. D \subseteq Nat
        BY <1>1
      <4> HIDE DEF D
      <4>2. RunOf(D \cup {row.last + 1}, row.last + 1) = RunOf(D, row.last) \cup {row.last + 1}
        BY <3>1, <3>2, <4>1, RunJoined
      <4>3. QED
        BY <3>1, <4>2
    <3>4. today \notin row.days /\ \A d \in D \cup {today} : d <= today
      BY <3>1, <3>2, <1>1
    <3>5. new.days \cap RunOf(D \cup {today}, today) = row.days \cap RunOf(D, row.last)
      BY <3>3, <3>4
    <3>6. QED
      BY <2>2, <3>2, <3>4, <3>5
  <2>5. QED
    BY <2>3, <2>4
<1>4. today # None
  BY <1>1
<1>5. QED
  BY <1>2, <1>3, <1>4 DEF StreakOK

\* The later date is one of the two, and not before either.
LEMMA LaterIs ==
  ASSUME NEW a \in Date \cup {None}, NEW b \in Date \cup {None}
  PROVE  /\ Later(a, b) \in {a, b}
         /\ Later(a, b) = None => a = None /\ b = None
         /\ \A d \in {a, b} : d # None => Later(a, b) # None /\ d <= Later(a, b)
         /\ b = None => Later(a, b) = a
<1>1. Date \subseteq Nat /\ None \notin Date
  BY DateNat
<1>2. QED
  BY <1>1 DEF Later

\* The larger of two numbers.
LEMMA MaxIsOne ==
  ASSUME NEW m \in Nat, NEW n \in Nat
  PROVE  Max({m, n}) = IF m >= n THEN m ELSE n
  BY DEF Max

\* What merge_anonymous_into makes of two of them.
LEMMA MergedOK ==
  ASSUME user \in [User -> UserRow], NEW s \in User, NEW t \in User,
         StreakOK(user[s]), StreakOK(user[t])
  PROVE  MergedRow(s, t) \in UserRow /\ StreakOK(MergedRow(s, t))
<1> DEFINE new == MergedRow(s, t)
<1>1. /\ \A u \in {s, t} : /\ user[u].streak \in Nat /\ user[u].last \in Date \cup {None}
                          /\ user[u].gifts \in Nat /\ user[u].days \subseteq Date
                          /\ user[u].skips \subseteq Date /\ user[u].unclear \in BOOLEAN
      /\ None \notin Date /\ Date \subseteq Nat
  BY DateNat DEF UserRow
<1>2. /\ new.streak = IF user[s].streak >= user[t].streak THEN user[s].streak ELSE user[t].streak
      /\ new.last = Later(user[t].last, user[s].last)
      /\ new.days = user[t].days \cup user[s].days /\ new.skips = user[t].skips \cup user[s].skips
      /\ new.unclear = (user[t].unclear \/ user[s].last # None)
  BY <1>1, MaxIsOne DEF MergedRow
<1> DEFINE lt == user[t].last
           ls == user[s].last
<1>l. /\ Later(lt, ls) \in {lt, ls}
      /\ Later(lt, ls) = None => lt = None /\ ls = None
      /\ \A e \in {lt, ls} : e # None => Later(lt, ls) # None /\ e <= Later(lt, ls)
      /\ ls = None => Later(lt, ls) = lt
  <2>1. lt \in Date \cup {None} /\ ls \in Date \cup {None}
    BY <1>1
  <2> HIDE DEF lt, ls
  <2>2. QED
    BY <2>1, LaterIs
<1>3. new \in UserRow
  <2>1. /\ Max({user[s].streak, user[t].streak}) \in Nat
        /\ Later(user[t].last, user[s].last) \in Date \cup {None}
        /\ user[t].gifts + user[s].gifts \in Nat
    BY <1>1, <1>l, MaxIsOne
  <2>2. (user[t].unclear \/ user[s].last # None) \in BOOLEAN
    OBVIOUS
  <2>3. QED
    BY <1>1, <2>1, <2>2 DEF MergedRow, UserRow
<1> HIDE DEF new
<1>4. \A u \in {s, t} : user[u].last # None =>
         /\ new.last # None /\ user[u].last \in Nat /\ new.last \in Nat
         /\ user[u].last <= new.last
  BY <1>1, <1>2, <1>l
<1>5. new.last = None => new.streak = 0 /\ new.days = {} /\ new.skips = {}
  <2> SUFFICES ASSUME new.last = None PROVE new.streak = 0 /\ new.days = {} /\ new.skips = {}
    OBVIOUS
  <2>1. \A u \in {s, t} : user[u].streak = 0 /\ user[u].days = {} /\ user[u].skips = {}
    BY <1>4 DEF StreakOK
  <2>2. QED
    BY <1>2, <2>1
<1>6. ASSUME new.last # None
      PROVE  new.streak <= Cardinality(new.days \cap 0..new.last)
  <2> DEFINE now1 == new.days \cap 0..new.last
  <2>1. now1 \subseteq Date
    BY <1>1, <1>2
  <2>2. IsFiniteSet(now1) /\ Cardinality(now1) \in Nat
    BY <2>1, DateNat
  <2>3. ASSUME NEW u \in {s, t}
        PROVE  user[u].streak <= Cardinality(now1)
    <3>1. CASE user[u].last = None
      <4>1. user[u].streak = 0
        BY <3>1 DEF StreakOK
      <4>2. QED
        BY <2>2, <4>1
    <3>2. CASE user[u].last # None
      <4> DEFINE old == user[u].days \cap 0..user[u].last
      <4>1. old \subseteq now1
        BY <1>1, <1>2, <1>4, <3>2
      <4>2. Cardinality(old) <= Cardinality(now1) /\ Cardinality(old) \in Nat
        BY <2>2, <4>1, FS_Subset, FS_CardinalityType
      <4>3. user[u].streak <= Cardinality(old)
        BY <3>2 DEF StreakOK
      <4>4. QED
        BY <1>1, <2>2, <4>2, <4>3
    <3>3. QED
      BY <3>1, <3>2
  <2>4. QED
    BY <1>2, <2>3
<1>7. ASSUME new.last # None, ~new.unclear
      PROVE  /\ \A d \in new.days \cup new.skips : d <= new.last
             /\ new.streak = Cardinality(new.days \cap RunOf(new.days \cup new.skips, new.last))
  <2>1. user[s].last = None /\ ~user[t].unclear
    BY <1>2, <1>7
  <2>2. user[s].streak = 0 /\ user[s].days = {} /\ user[s].skips = {}
    BY <2>1 DEF StreakOK
  <2>3. /\ new.streak = user[t].streak /\ new.last = user[t].last
        /\ new.days = user[t].days /\ new.skips = user[t].skips
    <3>1. new.last = user[t].last
      BY <1>1, <1>2, <2>1, <1>l
    <3>2. new.streak = user[t].streak
      BY <1>1, <1>2, <2>2
    <3>3. QED
      BY <1>2, <2>2, <3>1, <3>2
  <2>4. QED
    BY <1>7, <2>1, <2>3 DEF StreakOK
<1>8. QED
  BY <1>3, <1>5, <1>6, <1>7 DEF StreakOK, new

\* A streak is no longer than the days that have passed.
LEMMA StreakBound ==
  ASSUME NEW row \in UserRow, StreakOK(row), NEW t \in Nat, row.last # None => row.last <= t
  PROVE  row.streak <= t + 1
<1>1. row.streak \in Nat /\ row.last \in Date \cup {None} /\ row.days \subseteq Date
  BY DEF UserRow
<1>2. CASE row.last = None
  BY <1>2, <1>1 DEF StreakOK
<1>3. CASE row.last # None
  <2>1. row.last \in Nat /\ row.last <= t
    BY <1>1, <1>3, DateNat
  <2> DEFINE old == row.days \cap 0..row.last
  <2>2. IsFiniteSet(0..row.last) /\ Cardinality(0..row.last) = row.last + 1
    <3>1. 0 \in Int /\ row.last \in Int
      BY <2>1
    <3>2. /\ IsFiniteSet(0..row.last)
          /\ Cardinality(0..row.last) = IF 0 > row.last THEN 0 ELSE row.last - 0 + 1
      BY <3>1, FS_Interval
    <3>3. QED
      BY <2>1, <3>2
  <2>3. Cardinality(old) <= Cardinality(0..row.last) /\ Cardinality(old) \in Nat
    BY <2>2, FS_Subset, FS_CardinalityType
  <2>4. row.streak <= Cardinality(old)
    BY <1>3 DEF StreakOK
  <2>5. QED
    BY <2>1, <2>2, <2>3, <2>4, <1>1
<1>4. QED
  BY <1>2, <1>3

LEMMA TodayIs ==
  ASSUME now \in 0..MaxTime
  PROVE  Today \in Date /\ Today \in Nat
<1>1. \A n \in Nat : n \div Day \in Nat
  BY EngagementAssumption
<1>2. \A a, b \in Nat : a <= b => a \div Day <= b \div Day
  BY EngagementAssumption
<1>3. QED
  BY <1>1, <1>2, EngagementAssumption DEF Today, Date

\* Dates do not go back.
LEMMA TodayLasts ==
  ASSUME now \in 0..MaxTime, now' \in {now, now + 1}
  PROVE  Today <= Today'
<1>1. \A a, b \in Nat : a <= b => a \div Day <= b \div Day
  BY EngagementAssumption
<1>2. now \in Nat /\ now' \in Nat /\ now <= now'
  OBVIOUS
<1>3. QED
  BY <1>1, <1>2 DEF Today

-----------------------------------------------------------------------------
(***************************************************************************)
(* The inductive invariant.                                                *)
(***************************************************************************)
RowMap == UNION {[S -> UserRow] : S \in SUBSET User}
WonMap == UNION {[S -> [Achievement -> Nat]] : S \in SUBSET User}

PosterState == [todo : SUBSET Payment, in : Payment \cup {None}, today : Date,
                done : SUBSET Payment, row : RowMap, won : WonMap, before : RowMap]

Source == {"donation", "link"}

PaymentRow == [kind : {"none", "donation", "link", "charge"}, owner : User \cup {None},
               at : 0..MaxTime, status : {"pending", "success", "failed", "refunded"}]

CreatorState == [who : User \cup {None}, kind : Source, at : 0..MaxTime]

\* The types, without the bound of TypeOK on the streak.
Columns ==
  /\ now \in 0..MaxTime
  /\ user \in [User -> UserRow]
  /\ earned \in [User -> [Achievement -> Nat]]
  /\ active \subseteq Achievement
  /\ payment \in [Payment -> PaymentRow]
  /\ creator \in [Creator -> CreatorState]
  /\ poster \in [Poster -> PosterState]
  /\ most \in [User -> Nat]
  /\ hasty \subseteq User /\ changed \subseteq Achievement
  /\ merged \subseteq Guest /\ brought \subseteq SUBSET Payment

\* The payments a poster is at work on.
Taken(b) == poster[b].todo \cup poster[b].done

\* Rows that exist belong to a user, requests to the one who makes them; a poster
\* has seen the statistics and awards of the rows it has written.
Owned ==
  /\ \A p \in Payment : payment[p].kind # "none" => payment[p].owner \in User
  /\ \A p \in Payment : payment[p].status # "pending" => payment[p].kind # "none"
  /\ \A k \in Creator : creator[k] # IdleCreator => creator[k].who \in User
  /\ \A b \in Poster :
       /\ poster[b].in \in Taken(b) \cup {None}
       /\ DOMAIN poster[b].won = DOMAIN poster[b].row
       /\ DOMAIN poster[b].before = DOMAIN poster[b].row

\* A payment that is being posted is pending, and nobody else is posting it.
TakenByOne ==
  \A b \in Poster :
    /\ \A p \in Taken(b) : payment[p].kind # "none" /\ payment[p].status = "pending"
    /\ \A o \in Poster \ {b} : Taken(b) \cap Taken(o) = {}

RowBy(row, t) == StreakOK(row) /\ (row.last # None => row.last <= t)

RowOK(row) == RowBy(row, Today)

\* The streaks are right, committed or not, and no date lies ahead.
RowsRight ==
  /\ \A u \in User : RowOK(user[u])
  /\ \A b \in Poster :
       /\ poster[b].today <= Today
       /\ \A u \in DOMAIN poster[b].row : RowOK(poster[b].row[u])

Live(p) == payment[p].status \in {"success", "pending"}

\* Nothing was created later than now.
Past ==
  /\ \A p \in Payment : payment[p].at <= now
  /\ \A k \in Creator : creator[k].at <= now

\* Donation q, not younger than p, leaves p the cooldown, or one is by a link.
Apart(p, q) ==
  \/ payment[q].at + Cooldown <= payment[p].at
  \/ payment[p].kind = "link"
  \/ payment[q].kind = "link" /\ payment[q].at = payment[p].at

\* The request of k came after donation p, and the cooldown after it unless k
\* makes a link.
After(k, p) ==
  /\ payment[p].at <= creator[k].at
  /\ creator[k].kind = "donation" => payment[p].at + Cooldown <= creator[k].at

\* What the cooldown of a user who is not hasty rests on: no two requests, and
\* what a request has checked still holds.
Spaced ==
  \A u \in User \ hasty :
    /\ \A p, q \in DonationsOf(u) :
         ( /\ p # q /\ {p, q} \notin brought
           /\ Live(p) /\ Live(q) /\ payment[q].at <= payment[p].at ) => Apart(p, q)
    /\ \A k \in Creator : creator[k].who = u =>
         /\ \A p \in DonationsOf(u) : Live(p) => After(k, p)
         /\ \A o \in Creator \ {k} : creator[o].who # u

Inv == Columns /\ Owned /\ TakenByOne /\ RowsRight /\ Past /\ Spaced

-----------------------------------------------------------------------------
LEMMA MapsGrow ==
  ASSUME NEW T, NEW S \in SUBSET User, NEW f \in [S -> T], NEW u \in User, NEW x \in T
  PROVE  [v \in DOMAIN f \cup {u} |-> IF v = u THEN x ELSE f[v]]
           \in UNION {[R -> T] : R \in SUBSET User}
<1> DEFINE g == [v \in DOMAIN f \cup {u} |-> IF v = u THEN x ELSE f[v]]
<1>1. g \in [S \cup {u} -> T]
  OBVIOUS
<1>2. S \cup {u} \in SUBSET User
  OBVIOUS
<1> HIDE DEF g
<1>3. g \in UNION {[R -> T] : R \in SUBSET User}
  BY <1>1, <1>2
<1>4. QED
  BY <1>3 DEF g

LEMMA MapsAre ==
  /\ \A f \in RowMap : \E S \in SUBSET User : f \in [S -> UserRow] /\ DOMAIN f = S
  /\ \A f \in WonMap : \E S \in SUBSET User : f \in [S -> [Achievement -> Nat]] /\ DOMAIN f = S
  /\ \A f \in RowMap : DOMAIN f \subseteq User /\ \A u \in DOMAIN f : f[u] \in UserRow
  /\ \A f \in WonMap : DOMAIN f \subseteq User /\ \A u \in DOMAIN f : f[u] \in [Achievement -> Nat]
  BY DEF RowMap, WonMap

LEMMA NothingWritten == <<>> \in RowMap /\ <<>> \in WonMap /\ DOMAIN <<>> = {}
<1>1. DOMAIN <<>> = {}
  OBVIOUS
<1>2. <<>> \in [{} -> UserRow] /\ <<>> \in [{} -> [Achievement -> Nat]]
  OBVIOUS
<1>3. {} \in SUBSET User
  OBVIOUS
<1>4. QED
  BY <1>1, <1>2, <1>3 DEF RowMap, WonMap

LEMMA IdleOK == IdlePoster \in PosterState /\ IdleCreator \in CreatorState
<1>1. 0 \in Date /\ 0 \in 0..MaxTime
  BY DateNat, EngagementAssumption DEF Date
<1>2. QED
  BY <1>1, NothingWritten DEF IdlePoster, IdleCreator, PosterState, CreatorState, Source

LEMMA MaxIs == \A m, n \in Nat : Max({m, n}) \in Nat
  BY DEF Max

LEMMA InvInit == Init => Inv
<1> SUFFICES ASSUME Init PROVE Inv
  OBVIOUS
<1>1. 0 \in 0..MaxTime /\ NoPayment \in PaymentRow
  BY EngagementAssumption DEF NoPayment, PaymentRow
<1>2. Columns
  BY <1>1, IdleOK, NewUserOK DEF Init, Columns
<1>3. \A b \in Poster : Taken(b) = {} /\ poster[b].in = None /\ DOMAIN poster[b].row = {}
                        /\ DOMAIN poster[b].won = {} /\ DOMAIN poster[b].before = {}
                        /\ poster[b].today = 0
  BY NothingWritten DEF Init, IdlePoster, Taken
<1>4. Owned /\ TakenByOne
  BY <1>3 DEF Init, Owned, TakenByOne, NoPayment
<1>5. RowsRight
  <2>1. 0 <= Today
    BY <1>2, TodayIs DEF Columns
  <2>2. NewUser.last = None
    BY DEF NewUser
  <2>3. QED
    BY <1>3, <2>1, <2>2, NewUserOK DEF Init, RowsRight, RowOK, RowBy
<1>6. Spaced
  BY EngagementAssumption DEF Init, Spaced, DonationsOf, NoPayment, IdleCreator
<1>7. Past
  BY DEF Init, Past, NoPayment, IdleCreator
<1>8. QED
  BY <1>2, <1>4, <1>5, <1>6, <1>7 DEF Inv

-----------------------------------------------------------------------------
(***************************************************************************)
(* Steps.                                                                  *)
(***************************************************************************)
With(f, u, x) == [v \in DOMAIN f \cup {u} |-> IF v = u THEN x ELSE f[v]]

\* A posted row is right, and is all that the poster writes.
LEMMA PostIs ==
  ASSUME Inv, NEW b \in Poster, Post(b)
  PROVE  /\ poster[b].in \in Payment /\ poster[b].in \in Taken(b)
         /\ \E u \in User, row \in UserRow, seen \in UserRow, won \in [Achievement -> Nat] :
              /\ RowOK(row)
              /\ poster' = [poster EXCEPT ![b] =
                   [todo   |-> poster[b].todo \ {poster[b].in},
                    in     |-> None,
                    today  |-> poster[b].today,
                    done   |-> poster[b].done \cup {poster[b].in},
                    row    |-> With(poster[b].row, u, row),
                    won    |-> With(poster[b].won, u, won),
                    before |-> With(poster[b].before, u, seen)]]
<1> DEFINE q    == poster[b]
           u    == payment[q.in].owner
           old  == IF u \in DOMAIN q.row THEN q.row[u] ELSE user[u]
           won  == IF u \in DOMAIN q.row THEN q.won[u] ELSE earned[u]
           seen == IF u \in DOMAIN q.row THEN q.before[u] ELSE user[u]
           row  == Posted(old, q.today)
           aw   == Awarded(seen, row, won)
<1>1. /\ q \in PosterState /\ q.in # None /\ q.in \in Taken(b)
      /\ q.in \in Payment /\ q.today \in Date
      /\ q.row \in RowMap /\ q.won \in WonMap /\ q.before \in RowMap
  BY DEF Post, Inv, Columns, Owned, PosterState
<1>2. u \in User
  BY <1>1 DEF Inv, TakenByOne, Owned
<1>3. DOMAIN q.won = DOMAIN q.row /\ DOMAIN q.before = DOMAIN q.row
  BY DEF Inv, Owned
<1>4. old \in UserRow /\ seen \in UserRow
  BY <1>1, <1>2, <1>3, MapsAre DEF Inv, Columns
<1>5. won \in [Achievement -> Nat]
  BY <1>1, <1>2, <1>3, MapsAre DEF Inv, Columns
<1>6. RowOK(old) /\ q.today <= Today
  BY <1>1, <1>2 DEF Inv, RowsRight
<1>7. row \in UserRow /\ StreakOK(row)
  <2>1. StreakOK(old)
    BY <1>6 DEF RowOK, RowBy
  <2> HIDE DEF q, old
  <2>2. QED
    BY <1>1, <1>4, <2>1, PostedOK
<1>8. RowOK(row)
  <2>1. row.last = q.today
    BY DEF Posted
  <2>2. QED
    BY <2>1, <1>6, <1>7 DEF RowOK, RowBy
<1>9. aw \in [Achievement -> Nat]
  <2> HIDE DEF won, row, seen
  <2>1. QED
    BY <1>5 DEF Awarded
<1>10. poster' = [poster EXCEPT ![b] =
         [todo |-> q.todo \ {q.in}, in |-> None, today |-> q.today,
          done |-> q.done \cup {q.in}, row |-> With(q.row, u, row),
          won |-> With(q.won, u, aw), before |-> With(q.before, u, seen)]]
  BY DEF Post, LockedBy, With
<1> HIDE DEF u, row, seen, aw
<1>11. QED
  BY <1>1, <1>2, <1>4, <1>7, <1>8, <1>9, <1>10

\* Only a payment that is being posted becomes successful.
LEMMA CommitIs ==
  ASSUME Inv, NEW b \in Poster, CommitPost(b)
  PROVE  /\ poster[b].done \subseteq Taken(b)
         /\ payment' = [p \in Payment |->
              IF p \in poster[b].done THEN [payment[p] EXCEPT !.status = "success"] ELSE payment[p]]
         /\ \A u \in User : user'[u] = user[u] \/ (u \in DOMAIN poster[b].row
                                                 /\ user'[u] = poster[b].row[u])
  BY DEF CommitPost, LockedBy, Taken

LEMMA ColumnsStep == Inv /\ [Next]_vars => Columns'
<1> SUFFICES ASSUME Inv, [Next]_vars PROVE Columns'
  OBVIOUS
<1>0. Columns /\ now \in Nat
  BY DEF Inv, Columns
<1>1. ASSUME NEW k \in Creator, NEW u \in User, NEW kind \in Source, Begin(k, u, kind)
      PROVE  Columns'
  BY <1>0, <1>1 DEF Begin, Columns, CreatorState
<1>2. ASSUME NEW k \in Creator, NEW p \in Payment, CommitDonation(k, p)
      PROVE  Columns'
  <2>1. /\ creator[k].who \in User \cup {None} /\ creator[k].at \in 0..MaxTime
        /\ creator[k].kind \in Source
    BY <1>0 DEF Columns, CreatorState
  <2>2. [kind |-> creator[k].kind, owner |-> creator[k].who, at |-> creator[k].at,
         status |-> "pending"] \in PaymentRow
    BY <2>1 DEF PaymentRow, Source
  <2>3. payment' \in [Payment -> PaymentRow] /\ creator' \in [Creator -> CreatorState]
    BY <1>0, <1>2, <2>2, IdleOK DEF CommitDonation, Columns
  <2>4. QED
    BY <1>0, <1>2, <2>3 DEF CommitDonation, Columns
<1>3. ASSUME NEW k \in Creator, AbortDonation(k)
      PROVE  Columns'
  BY <1>0, <1>3, IdleOK DEF AbortDonation, Columns
<1>4. ASSUME NEW p \in Payment, NEW u \in User, Charge(p, u)
      PROVE  Columns'
  <2>1. [kind |-> "charge", owner |-> u, at |-> 0, status |-> "pending"] \in PaymentRow
    <3>1. 0 \in 0..MaxTime
      BY EngagementAssumption
    <3>2. QED
      BY <3>1 DEF PaymentRow
  <2>2. payment' \in [Payment -> PaymentRow]
    BY <1>0, <1>4, <2>1 DEF Charge, Columns
  <2>3. QED
    BY <1>0, <1>4, <2>2 DEF Charge, Columns
<1>5. ASSUME NEW p \in Payment, Fail(p)
      PROVE  Columns'
  BY <1>0, <1>5 DEF Fail, Columns, PaymentRow
<1>6. ASSUME NEW p \in Payment, Refund(p)
      PROVE  Columns'
  <2>1. payment' \in [Payment -> PaymentRow]
    <3>1. [payment[p] EXCEPT !.status = "refunded"] \in PaymentRow
      BY <1>0 DEF Columns, PaymentRow
    <3>2. QED
      BY <1>0, <1>6, <3>1 DEF Refund, Columns
  <2>2. user' \in [User -> UserRow]
    <3> DEFINE u == payment[p].owner
               g == IF user[u].gifts = 0 THEN 0 ELSE user[u].gifts - 1
    <3>1. \A v \in User : user[v] \in UserRow
      BY <1>0 DEF Columns
    <3>2. u \in User => g \in Nat
      BY <3>1 DEF UserRow
    <3>3. u \in User => [user[u] EXCEPT !.gifts = g] \in UserRow
      <4> HIDE DEF u, g
      <4>1. QED
        BY <3>1, <3>2 DEF UserRow
    <3>4. user' = [user EXCEPT ![u] = [user[u] EXCEPT !.gifts = g]]
      BY <1>6 DEF Refund
    <3> HIDE DEF u, g
    <3>5. QED
      BY <1>0, <3>3, <3>4 DEF Columns
  <2>3. QED
    BY <1>0, <1>6, <2>1, <2>2 DEF Refund, Columns
<1>7. ASSUME NEW b \in Poster, NEW P \in SUBSET Payment, NEW p \in Payment, BeginPost(b, P, p)
      PROVE  Columns'
  <2>1. Today \in Date
    BY <1>0, TodayIs DEF Columns
  <2>2. [poster[b] EXCEPT !.todo = P, !.in = p, !.today = Today] \in PosterState
    <3>1. poster[b] \in PosterState
      BY <1>0 DEF Columns
    <3>2. QED
      BY <2>1, <3>1 DEF PosterState
  <2>3. poster' = [poster EXCEPT ![b] = [poster[b] EXCEPT !.todo = P, !.in = p, !.today = Today]]
    BY <1>7 DEF BeginPost
  <2>4. poster' \in [Poster -> PosterState]
    BY <1>0, <2>2, <2>3 DEF Columns
  <2>5. QED
    BY <1>0, <1>7, <2>4 DEF BeginPost, Columns
<1>8. ASSUME NEW b \in Poster, NEW p \in Payment, ReadDate(b, p)
      PROVE  Columns'
  <2>1. Today \in Date
    BY <1>0, TodayIs DEF Columns
  <2>2. [poster[b] EXCEPT !.in = p, !.today = Today] \in PosterState
    <3>1. poster[b] \in PosterState
      BY <1>0 DEF Columns
    <3>2. QED
      BY <2>1, <3>1 DEF PosterState
  <2>3. poster' = [poster EXCEPT ![b] = [poster[b] EXCEPT !.in = p, !.today = Today]]
    BY <1>8 DEF ReadDate
  <2>4. poster' \in [Poster -> PosterState]
    BY <1>0, <2>2, <2>3 DEF Columns
  <2>5. QED
    BY <1>0, <1>8, <2>4 DEF ReadDate, Columns
<1>9. ASSUME NEW b \in Poster, Post(b)
      PROVE  Columns'
  <2>1. PICK u \in User, row \in UserRow, seen \in UserRow, won \in [Achievement -> Nat] :
              poster' = [poster EXCEPT ![b] =
                   [todo   |-> poster[b].todo \ {poster[b].in},
                    in     |-> None,
                    today  |-> poster[b].today,
                    done   |-> poster[b].done \cup {poster[b].in},
                    row    |-> With(poster[b].row, u, row),
                    won    |-> With(poster[b].won, u, won),
                    before |-> With(poster[b].before, u, seen)]]
    BY <1>9, PostIs
  <2>2. poster[b].in \in Payment
    BY <1>9, PostIs
  <2>3. /\ poster[b].todo \subseteq Payment /\ poster[b].done \subseteq Payment
        /\ poster[b].today \in Date /\ poster[b].row \in RowMap
        /\ poster[b].won \in WonMap /\ poster[b].before \in RowMap
    BY <1>0 DEF Columns, PosterState
  <2>4. With(poster[b].row, u, row) \in RowMap /\ With(poster[b].before, u, seen) \in RowMap
    <3>1. ASSUME NEW f \in RowMap, NEW x \in UserRow
          PROVE  With(f, u, x) \in RowMap
      <4>1. PICK S \in SUBSET User : f \in [S -> UserRow]
        BY MapsAre
      <4>2. QED
        BY <4>1, MapsGrow DEF With, RowMap
    <3>2. QED
      BY <2>3, <3>1
  <2>5. With(poster[b].won, u, won) \in WonMap
    <3> DEFINE T == [Achievement -> Nat]
               f == poster[b].won
    <3>1. PICK S \in SUBSET User : f \in [S -> T]
      BY <2>3, MapsAre
    <3>2. won \in T
      OBVIOUS
    <3> HIDE DEF T, f
    <3>3. With(f, u, won) \in UNION {[R -> T] : R \in SUBSET User}
      BY <3>1, <3>2, MapsGrow DEF With
    <3>4. QED
      BY <3>3 DEF WonMap, T, f
  <2>6. poster' \in [Poster -> PosterState]
    BY <1>0, <2>1, <2>2, <2>3, <2>4, <2>5 DEF Columns, PosterState
  <2>7. QED
    BY <1>0, <1>9, <2>6 DEF Post, Columns
<1>10. ASSUME NEW b \in Poster, CommitPost(b)
       PROVE  Columns'
  <2>1. payment' \in [Payment -> PaymentRow]
    <3>0. \A r \in PaymentRow : [r EXCEPT !.status = "success"] \in PaymentRow
      BY DEF PaymentRow
    <3>1. \A p \in Payment : [payment[p] EXCEPT !.status = "success"] \in PaymentRow
      BY <1>0, <3>0 DEF Columns
    <3>2. QED
      BY <1>0, <1>10, <3>1, CommitIs DEF Columns
  <2>2. poster[b].row \in RowMap /\ poster[b].won \in WonMap
    BY <1>0 DEF Columns, PosterState
  <2>3. user' \in [User -> UserRow]
    BY <1>0, <1>10, <2>2, MapsAre DEF CommitPost, LockedBy, Columns
  <2>4. earned' \in [User -> [Achievement -> Nat]]
    <3>1. DOMAIN poster[b].won = DOMAIN poster[b].row
      BY DEF Inv, Owned
    <3>2. QED
      BY <1>0, <1>10, <2>2, <3>1, MapsAre DEF CommitPost, LockedBy, Columns
  <2>5. most' \in [User -> Nat]
    <3>1. \A u \in User : Cardinality(Given(u)') \in Nat
      <4>1. \A u \in User : Given(u)' \subseteq Payment
        BY DEF Given
      <4>2. QED
        BY <4>1, EngagementAssumption, FS_Subset, FS_CardinalityType
    <3>2. \A u \in User : Max({most[u], Cardinality(Given(u)')}) \in Nat
      BY <1>0, <3>1, MaxIs DEF Columns
    <3>3. QED
      BY <1>0, <1>10, <3>2 DEF CommitPost, Columns
  <2>6. poster' \in [Poster -> PosterState]
    BY <1>0, <1>10, IdleOK DEF CommitPost, Columns
  <2>7. QED
    BY <1>0, <1>10, <2>1, <2>3, <2>4, <2>5, <2>6 DEF CommitPost, Columns
<1>11. ASSUME NEW b \in Poster, AbortPost(b)
       PROVE  Columns'
  BY <1>0, <1>11, IdleOK DEF AbortPost, Columns
<1>12. ASSUME NEW u \in User, Skip(u)
       PROVE  Columns'
  <2>1. Today \in Date
    BY <1>0, TodayIs DEF Columns
  <2>2. user' \in [User -> UserRow]
    <3> DEFINE b == user[u].unclear \/ user[u].last \notin {None, Today - 1}
               new == [user[u] EXCEPT !.last = Today, !.skips = user[u].skips \cup {Today},
                                      !.unclear = b]
    <3>1. user[u] \in UserRow /\ b \in BOOLEAN
      BY <1>0 DEF Columns
    <3>2. user' = [user EXCEPT ![u] = new]
      BY <1>12 DEF Skip
    <3> HIDE DEF b
    <3>3. new \in UserRow
      BY <2>1, <3>1 DEF UserRow
    <3> HIDE DEF new
    <3>4. QED
      BY <1>0, <3>2, <3>3 DEF Columns
  <2>3. QED
    BY <1>0, <1>12, <2>2 DEF Skip, Columns
<1>13. ASSUME NEW a \in Achievement, SetAchievement(a)
       PROVE  Columns'
  BY <1>0, <1>13 DEF SetAchievement, Columns
<1>14. CASE Tick
  BY <1>0, <1>14, EngagementAssumption DEF Tick, Columns
<1>15. CASE UNCHANGED vars
  BY <1>0, <1>15 DEF vars, Columns
<1>16. ASSUME NEW s \in Guest, NEW t \in User, Merge(s, t)
       PROVE  Columns'
  <2>1. s \in User
    BY EngagementAssumption
  <2>2. payment' \in [Payment -> PaymentRow]
    <3>0. \A r \in PaymentRow : [r EXCEPT !.owner = t] \in PaymentRow
      BY DEF PaymentRow
    <3>1. \A p \in Payment : [payment[p] EXCEPT !.owner = t] \in PaymentRow
      BY <1>0, <3>0 DEF Columns
    <3>2. QED
      BY <1>0, <1>16, <3>1 DEF Merge, Columns
  <2>3. MergedRow(s, t) \in UserRow
    BY <1>0, <2>1, MergedOK DEF Columns, Inv, RowsRight, RowOK, RowBy
  <2>4. user' \in [User -> UserRow]
    BY <1>0, <1>16, <2>3 DEF Merge, Columns
  <2>5. \A p \in DonationsOf(s), q \in DonationsOf(t) : {p, q} \in SUBSET Payment
    BY DEF DonationsOf
  <2>6. merged' \subseteq Guest /\ hasty' \subseteq User
    BY <1>0, <1>16 DEF Merge, Columns
  <2>7. brought' \subseteq SUBSET Payment
    BY <1>0, <1>16, <2>5 DEF Merge, Columns
  <2>8. QED
    BY <1>0, <1>16, <2>2, <2>4, <2>6, <2>7 DEF Merge, Columns
<1>17. QED
  BY <1>1, <1>2, <1>3, <1>4, <1>5, <1>6, <1>7, <1>8, <1>9, <1>10, <1>11, <1>12, <1>13,
     <1>14, <1>15, <1>16 DEF Next, BeginDonation, BeginLink, Source

\* A merge moves rows, and nothing that is being posted.
LEMMA MergeMoves ==
  ASSUME Columns, NEW s \in Guest, NEW t \in User, Merge(s, t)
  PROVE  \A p \in Payment :
           /\ payment'[p].kind = payment[p].kind /\ payment'[p].status = payment[p].status
           /\ payment'[p].at = payment[p].at
           /\ payment'[p].owner = IF payment[p].owner = s THEN t ELSE payment[p].owner
           /\ \A b \in Poster : p \in Taken(b) =>
                payment[p].owner \notin {s, t} /\ payment'[p] = payment[p]
<1> SUFFICES ASSUME NEW p \in Payment
             PROVE  /\ payment'[p].kind = payment[p].kind /\ payment'[p].status = payment[p].status
                    /\ payment'[p].at = payment[p].at
                    /\ payment'[p].owner = IF payment[p].owner = s THEN t ELSE payment[p].owner
                    /\ \A b \in Poster : p \in Taken(b) =>
                         payment[p].owner \notin {s, t} /\ payment'[p] = payment[p]
  OBVIOUS
<1>1. payment[p] \in PaymentRow
  BY DEF Columns
<1>2. payment'[p] = IF payment[p].owner = s THEN [payment[p] EXCEPT !.owner = t] ELSE payment[p]
  BY DEF Merge
<1>3. \A b \in Poster : p \in Taken(b) => payment[p].owner \notin {s, t}
  BY DEF Merge, InHand, Taken
<1>4. QED
  BY <1>1, <1>2, <1>3 DEF PaymentRow

\* The rows of payments change only as the handlers change them.
LEMMA OwnedStep == Inv /\ [Next]_vars => Owned'
<1> SUFFICES ASSUME Inv, [Next]_vars PROVE Owned'
  OBVIOUS
<1>0. Columns /\ Owned /\ TakenByOne
  BY DEF Inv
<1> DEFINE Rows == /\ \A p \in Payment : payment[p].kind # "none" => payment[p].owner \in User
                   /\ \A p \in Payment : payment[p].status # "pending" => payment[p].kind # "none"
           Makers == \A k \in Creator : creator[k] # IdleCreator => creator[k].who \in User
           Posters == \A b \in Poster :
                        /\ poster[b].in \in Taken(b) \cup {None}
                        /\ DOMAIN poster[b].won = DOMAIN poster[b].row
                        /\ DOMAIN poster[b].before = DOMAIN poster[b].row
<1>a. Rows /\ Makers /\ Posters
  BY <1>0 DEF Owned
<1>b. payment' = payment => Rows'
  BY <1>a
<1>c. creator' = creator => Makers'
  BY <1>a
<1>d. poster' = poster => Posters'
  BY <1>a DEF Taken
<1>1. ASSUME NEW k \in Creator, NEW u \in User, NEW kind \in Source, Begin(k, u, kind)
      PROVE  Rows' /\ Makers' /\ Posters'
  BY <1>0, <1>a, <1>b, <1>d, <1>1 DEF Begin, Columns
<1>2. ASSUME NEW k \in Creator, NEW p \in Payment, CommitDonation(k, p)
      PROVE  Rows' /\ Makers' /\ Posters'
  <2>1. creator[k].who \in User /\ creator[k].kind \in Source
    BY <1>0, <1>a, <1>2 DEF CommitDonation, Columns, CreatorState
  <2>2. Rows' /\ Makers'
    BY <1>0, <1>a, <1>2, <2>1 DEF CommitDonation, Columns, Source
  <2>3. QED
    BY <1>d, <1>2, <2>2 DEF CommitDonation
<1>3. ASSUME NEW k \in Creator, AbortDonation(k)
      PROVE  Rows' /\ Makers' /\ Posters'
  BY <1>0, <1>a, <1>b, <1>d, <1>3 DEF AbortDonation, Columns
<1>4. ASSUME NEW p \in Payment, NEW u \in User, Charge(p, u)
      PROVE  Rows' /\ Makers' /\ Posters'
  BY <1>0, <1>a, <1>c, <1>d, <1>4 DEF Charge, Columns
<1>5. ASSUME NEW p \in Payment, Fail(p)
      PROVE  Rows' /\ Makers' /\ Posters'
  BY <1>0, <1>a, <1>c, <1>d, <1>5 DEF Fail, Columns, PaymentRow
<1>6. ASSUME NEW p \in Payment, Refund(p)
      PROVE  Rows' /\ Makers' /\ Posters'
  BY <1>0, <1>a, <1>c, <1>d, <1>6 DEF Refund, Columns, PaymentRow
<1>7. ASSUME NEW b \in Poster, NEW P \in SUBSET Payment, NEW p \in Payment, BeginPost(b, P, p)
      PROVE  Rows' /\ Makers' /\ Posters'
  <2>1. Posters'
    BY <1>0, <1>a, <1>7 DEF BeginPost, Columns, PosterState, Taken
  <2>2. QED
    BY <1>b, <1>c, <1>7, <2>1 DEF BeginPost
<1>8. ASSUME NEW b \in Poster, NEW p \in Payment, ReadDate(b, p)
      PROVE  Rows' /\ Makers' /\ Posters'
  <2>1. Posters'
    BY <1>0, <1>a, <1>8 DEF ReadDate, Columns, PosterState, Taken
  <2>2. QED
    BY <1>b, <1>c, <1>8, <2>1 DEF ReadDate
<1>9. ASSUME NEW b \in Poster, Post(b)
      PROVE  Rows' /\ Makers' /\ Posters'
  <2>1. PICK u \in User, row \in UserRow, seen \in UserRow, won \in [Achievement -> Nat] :
              poster' = [poster EXCEPT ![b] =
                   [todo   |-> poster[b].todo \ {poster[b].in},
                    in     |-> None,
                    today  |-> poster[b].today,
                    done   |-> poster[b].done \cup {poster[b].in},
                    row    |-> With(poster[b].row, u, row),
                    won    |-> With(poster[b].won, u, won),
                    before |-> With(poster[b].before, u, seen)]]
    BY <1>9, PostIs
  <2>2. Posters'
    BY <1>0, <1>a, <2>1 DEF Columns, Taken, With
  <2>3. QED
    BY <1>b, <1>c, <1>9, <2>2 DEF Post
<1>10. ASSUME NEW b \in Poster, CommitPost(b)
       PROVE  Rows' /\ Makers' /\ Posters'
  <2>1. Rows'
    <3>1. \A p \in poster[b].done : payment[p].kind # "none"
      BY <1>0, <1>10, CommitIs DEF TakenByOne
    <3>2. \A p \in Payment : payment'[p] = IF p \in poster[b].done
                               THEN [payment[p] EXCEPT !.status = "success"] ELSE payment[p]
      BY <1>10, CommitIs
    <3>3. \A p \in Payment : payment[p] \in PaymentRow
      BY <1>0 DEF Columns
    <3>4. QED
      BY <1>a, <3>1, <3>2, <3>3 DEF PaymentRow
  <2>2. Posters'
    BY <1>0, <1>a, <1>10, NothingWritten DEF CommitPost, Columns, IdlePoster, Taken
  <2>3. QED
    BY <1>c, <1>10, <2>1, <2>2 DEF CommitPost
<1>11. ASSUME NEW b \in Poster, AbortPost(b)
       PROVE  Rows' /\ Makers' /\ Posters'
  <2>1. Posters'
    BY <1>0, <1>a, <1>11, NothingWritten DEF AbortPost, Columns, IdlePoster, Taken
  <2>2. QED
    BY <1>b, <1>c, <1>11, <2>1 DEF AbortPost
<1>12. ASSUME NEW u \in User, Skip(u)
       PROVE  Rows' /\ Makers' /\ Posters'
  BY <1>b, <1>c, <1>d, <1>12 DEF Skip
<1>13. ASSUME NEW a \in Achievement, SetAchievement(a)
       PROVE  Rows' /\ Makers' /\ Posters'
  BY <1>b, <1>c, <1>d, <1>13 DEF SetAchievement
<1>14. ASSUME Tick
       PROVE  Rows' /\ Makers' /\ Posters'
  BY <1>b, <1>c, <1>d, <1>14 DEF Tick
<1>15. ASSUME UNCHANGED vars
       PROVE  Rows' /\ Makers' /\ Posters'
  BY <1>b, <1>c, <1>d, <1>15 DEF vars
<1>16. ASSUME NEW s \in Guest, NEW t \in User, Merge(s, t)
       PROVE  Rows' /\ Makers' /\ Posters'
  <2>1. \A p \in Payment : /\ payment'[p].kind = payment[p].kind
                           /\ payment'[p].status = payment[p].status
                           /\ payment'[p].owner \in {payment[p].owner, t}
    BY <1>0, <1>16, MergeMoves
  <2>2. Rows'
    BY <1>a, <2>1
  <2>3. QED
    BY <1>c, <1>d, <1>16, <2>2 DEF Merge
<1>17. Rows' /\ Makers' /\ Posters'
  BY <1>1, <1>2, <1>3, <1>4, <1>5, <1>6, <1>7, <1>8, <1>9, <1>10, <1>11, <1>12, <1>13,
     <1>14, <1>15, <1>16 DEF Next, BeginDonation, BeginLink, Source
<1>18. QED
  BY <1>17 DEF Owned

\* Two posters never hold one payment, and nothing else touches what they hold.
LEMMA TakenStep == Inv /\ [Next]_vars => TakenByOne'
<1> SUFFICES ASSUME Inv, [Next]_vars PROVE TakenByOne'
  OBVIOUS
<1>0. Columns /\ Owned /\ TakenByOne
  BY DEF Inv
<1> DEFINE Waits(p) == payment[p].kind # "none" /\ payment[p].status = "pending"
           Alone == \A b \in Poster : \A o \in Poster \ {b} : Taken(b) \cap Taken(o) = {}
           Held == \A b \in Poster : \A p \in Taken(b) : Waits(p)
<1>a. Alone /\ Held
  BY <1>0 DEF TakenByOne
<1>b. \A b \in Poster : Taken(b) \subseteq Payment
  BY <1>0 DEF Columns, PosterState, Taken
<1>c. poster' = poster /\ (\A b \in Poster : \A p \in Taken(b) : payment'[p] = payment[p])
        => Alone' /\ Held'
  BY <1>a DEF Taken
<1>1. ASSUME NEW k \in Creator, NEW u \in User, NEW kind \in Source, Begin(k, u, kind)
      PROVE  Alone' /\ Held'
  BY <1>c, <1>1 DEF Begin
<1>2. ASSUME NEW k \in Creator, NEW p \in Payment, CommitDonation(k, p)
      PROVE  Alone' /\ Held'
  <2>1. \A b \in Poster : p \notin Taken(b)
    BY <1>a, <1>2 DEF CommitDonation, NoPayment
  <2>2. \A b \in Poster : \A r \in Taken(b) : payment'[r] = payment[r]
    BY <1>0, <1>b, <1>2, <2>1 DEF CommitDonation, Columns
  <2>3. QED
    BY <1>c, <1>2, <2>2 DEF CommitDonation
<1>3. ASSUME NEW k \in Creator, AbortDonation(k)
      PROVE  Alone' /\ Held'
  BY <1>c, <1>3 DEF AbortDonation
<1>4. ASSUME NEW p \in Payment, NEW u \in User, Charge(p, u)
      PROVE  Alone' /\ Held'
  <2>1. \A b \in Poster : p \notin Taken(b)
    BY <1>a, <1>4 DEF Charge, NoPayment
  <2>2. \A b \in Poster : \A r \in Taken(b) : payment'[r] = payment[r]
    BY <1>0, <1>b, <1>4, <2>1 DEF Charge, Columns
  <2>3. QED
    BY <1>c, <1>4, <2>2 DEF Charge
<1>5. ASSUME NEW p \in Payment, Fail(p)
      PROVE  Alone' /\ Held'
  <2>1. \A b \in Poster : p \notin Taken(b)
    BY <1>5 DEF Fail, InHand, Taken
  <2>2. \A b \in Poster : \A r \in Taken(b) : payment'[r] = payment[r]
    BY <1>0, <1>b, <1>5, <2>1 DEF Fail, Columns
  <2>3. QED
    BY <1>c, <1>5, <2>2 DEF Fail
<1>6. ASSUME NEW p \in Payment, Refund(p)
      PROVE  Alone' /\ Held'
  <2>1. \A b \in Poster : p \notin Taken(b)
    BY <1>a, <1>6 DEF Refund
  <2>2. \A b \in Poster : \A r \in Taken(b) : payment'[r] = payment[r]
    BY <1>0, <1>b, <1>6, <2>1 DEF Refund, Columns
  <2>3. QED
    BY <1>c, <1>6, <2>2 DEF Refund
<1>7. ASSUME NEW b \in Poster, NEW P \in SUBSET Payment, NEW p \in Payment, BeginPost(b, P, p)
      PROVE  Alone' /\ Held'
  <2>1. poster'[b].todo = P /\ poster'[b].done = {}
    BY <1>0, <1>7 DEF BeginPost, Columns, PosterState, IdlePoster
  <2>2. \A o \in Poster \ {b} : poster'[o] = poster[o]
    BY <1>0, <1>7 DEF BeginPost, Columns
  <2>3. \A q \in P : Waits(q) /\ \A o \in Poster : q \notin Taken(o)
    BY <1>7 DEF BeginPost, InHand, Taken
  <2>4. Taken(b)' = P /\ \A o \in Poster \ {b} : Taken(o)' = Taken(o)
    BY <2>1, <2>2 DEF Taken
  <2>5. payment' = payment
    BY <1>7 DEF BeginPost
  <2>6. QED
    BY <1>a, <2>3, <2>4, <2>5
<1>8. ASSUME NEW b \in Poster, NEW p \in Payment, ReadDate(b, p)
      PROVE  Alone' /\ Held'
  <2>1. \A o \in Poster : Taken(o)' = Taken(o)
    BY <1>0, <1>8 DEF ReadDate, Columns, PosterState, Taken
  <2>2. payment' = payment
    BY <1>8 DEF ReadDate
  <2>3. QED
    BY <1>a, <2>1, <2>2
<1>9. ASSUME NEW b \in Poster, Post(b)
      PROVE  Alone' /\ Held'
  <2>1. PICK u \in User, row \in UserRow, seen \in UserRow, won \in [Achievement -> Nat] :
              poster' = [poster EXCEPT ![b] =
                   [todo   |-> poster[b].todo \ {poster[b].in},
                    in     |-> None,
                    today  |-> poster[b].today,
                    done   |-> poster[b].done \cup {poster[b].in},
                    row    |-> With(poster[b].row, u, row),
                    won    |-> With(poster[b].won, u, won),
                    before |-> With(poster[b].before, u, seen)]]
    BY <1>9, PostIs
  <2>2. poster[b].in \in Taken(b)
    BY <1>9, PostIs
  <2>3. \A o \in Poster : Taken(o)' = Taken(o)
    BY <1>0, <2>1, <2>2 DEF Columns, Taken
  <2>4. payment' = payment
    BY <1>9 DEF Post
  <2>5. QED
    BY <1>a, <2>3, <2>4
<1>10. ASSUME NEW b \in Poster, CommitPost(b)
       PROVE  Alone' /\ Held'
  <2>1. Taken(b)' = {} /\ \A o \in Poster \ {b} : Taken(o)' = Taken(o)
    BY <1>0, <1>10 DEF CommitPost, Columns, IdlePoster, Taken
  <2>2. \A o \in Poster \ {b} : \A p \in Taken(o) : payment'[p] = payment[p]
    <3>1. \A o \in Poster \ {b} : \A p \in Taken(o) : p \in Payment /\ p \notin poster[b].done
      BY <1>a, <1>b, <1>10, CommitIs
    <3>2. QED
      BY <1>10, <3>1, CommitIs
  <2>3. QED
    BY <1>a, <2>1, <2>2
<1>11. ASSUME NEW b \in Poster, AbortPost(b)
       PROVE  Alone' /\ Held'
  <2>1. Taken(b)' = {} /\ \A o \in Poster \ {b} : Taken(o)' = Taken(o)
    BY <1>0, <1>11 DEF AbortPost, Columns, IdlePoster, Taken
  <2>2. payment' = payment
    BY <1>11 DEF AbortPost
  <2>3. QED
    BY <1>a, <2>1, <2>2
<1>12. ASSUME NEW u \in User, Skip(u)
       PROVE  Alone' /\ Held'
  BY <1>c, <1>12 DEF Skip
<1>13. ASSUME NEW a \in Achievement, SetAchievement(a)
       PROVE  Alone' /\ Held'
  BY <1>c, <1>13 DEF SetAchievement
<1>14. ASSUME Tick
       PROVE  Alone' /\ Held'
  BY <1>c, <1>14 DEF Tick
<1>15. ASSUME UNCHANGED vars
       PROVE  Alone' /\ Held'
  BY <1>c, <1>15 DEF vars
<1>16. ASSUME NEW s \in Guest, NEW t \in User, Merge(s, t)
       PROVE  Alone' /\ Held'
  <2>1. \A b \in Poster : \A p \in Taken(b) : payment'[p] = payment[p]
    BY <1>0, <1>b, <1>16, MergeMoves
  <2>2. QED
    BY <1>c, <1>16, <2>1 DEF Merge
<1>17. Alone' /\ Held'
  BY <1>1, <1>2, <1>3, <1>4, <1>5, <1>6, <1>7, <1>8, <1>9, <1>10, <1>11, <1>12, <1>13,
     <1>14, <1>15, <1>16 DEF Next, BeginDonation, BeginLink, Source
<1>18. QED
  BY <1>17 DEF TakenByOne

\* RowBy looks at the columns of the streak alone.
LEMMA SameRow ==
  ASSUME NEW row, NEW other, NEW day, RowBy(row, day),
         other.streak = row.streak, other.last = row.last, other.days = row.days,
         other.skips = row.skips, other.unclear = row.unclear
  PROVE  RowBy(other, day)
<1>1. StreakOK(other)
  BY Zenon DEF RowBy, StreakOK
<1>2. QED
  BY <1>1 DEF RowBy

\* What update_user_streak and mark_streak_no_campaigns write is right, and
\* stays so until it is committed.
LEMMA RowsStep == Inv /\ [Next]_vars => RowsRight'
<1> SUFFICES ASSUME Inv, [Next]_vars PROVE RowsRight'
  OBVIOUS
<1>0. Columns /\ Owned /\ RowsRight
  BY DEF Inv
<1> DEFINE Users == \A u \in User : RowBy(user[u], Today)
           Rows == \A b \in Poster :
                     /\ poster[b].today <= Today
                     /\ \A u \in DOMAIN poster[b].row : RowBy(poster[b].row[u], Today)
<1>a. Users /\ Rows
  BY <1>0 DEF RowsRight, RowOK
<1>b. Today \in Nat /\ Today \in Date
  BY <1>0, TodayIs DEF Columns
<1>c. /\ \A b \in Poster : \A u \in DOMAIN poster[b].row : u \in User /\ poster[b].row[u] \in UserRow
      /\ \A b \in Poster : poster[b].row \in RowMap /\ poster[b].today \in Nat
      /\ \A u \in User : user[u] \in UserRow
  BY <1>0, MapsAre, DateNat DEF Columns, PosterState
<1>d. now' = now => Today' = Today
  BY DEF Today
<1>e. (now' = now /\ user' = user) => Users'
  BY <1>a, <1>d
<1>f. (now' = now /\ poster' = poster) => Rows'
  BY <1>a, <1>d
<1>1. ASSUME NEW k \in Creator, NEW u \in User, NEW kind \in Source, Begin(k, u, kind)
      PROVE  Users' /\ Rows'
  BY <1>e, <1>f, <1>1 DEF Begin
<1>2. ASSUME NEW k \in Creator, NEW p \in Payment, CommitDonation(k, p)
      PROVE  Users' /\ Rows'
  BY <1>e, <1>f, <1>2 DEF CommitDonation
<1>3. ASSUME NEW k \in Creator, AbortDonation(k)
      PROVE  Users' /\ Rows'
  BY <1>e, <1>f, <1>3 DEF AbortDonation
<1>4. ASSUME NEW p \in Payment, NEW u \in User, Charge(p, u)
      PROVE  Users' /\ Rows'
  BY <1>e, <1>f, <1>4 DEF Charge
<1>5. ASSUME NEW p \in Payment, Fail(p)
      PROVE  Users' /\ Rows'
  BY <1>e, <1>f, <1>5 DEF Fail
<1>6. ASSUME NEW p \in Payment, Refund(p)
      PROVE  Users' /\ Rows'
  <2>1. \A v \in User : /\ user'[v].streak = user[v].streak /\ user'[v].last = user[v].last
                        /\ user'[v].days = user[v].days /\ user'[v].skips = user[v].skips
                        /\ user'[v].unclear = user[v].unclear
    <3> DEFINE u == payment[p].owner
    <3>1. \A v \in User : user[v] \in UserRow
      BY <1>0 DEF Columns
    <3>2. user \in [User -> UserRow]
      BY <1>0 DEF Columns
    <3>3. PICK g : user' = [user EXCEPT ![u] = [user[u] EXCEPT !.gifts = g]]
      BY <1>6 DEF Refund
    <3>4. \A v \in User : user'[v] \in {user[v], [user[v] EXCEPT !.gifts = g]}
      BY <3>2, <3>3
    <3> HIDE DEF u
    <3> SUFFICES ASSUME NEW v \in User
                 PROVE  /\ user'[v].streak = user[v].streak /\ user'[v].last = user[v].last
                        /\ user'[v].days = user[v].days /\ user'[v].skips = user[v].skips
                        /\ user'[v].unclear = user[v].unclear
      OBVIOUS
    <3> DEFINE w == user[v]
    <3>5. w \in UserRow /\ user'[v] \in {w, [w EXCEPT !.gifts = g]}
      BY <3>1, <3>4
    <3> HIDE DEF w
    <3>6. CASE user'[v] = w
      BY <3>6 DEF w
    <3>7. CASE user'[v] = [w EXCEPT !.gifts = g]
      <4>1. /\ user'[v].streak = w.streak /\ user'[v].last = w.last
            /\ user'[v].days = w.days /\ user'[v].skips = w.skips
            /\ user'[v].unclear = w.unclear
        BY <3>5, <3>7 DEF UserRow
      <4>2. QED
        BY <4>1 DEF w
    <3>8. QED
      BY <3>5, <3>6, <3>7
  <2>2. Today' = Today
    BY <1>d, <1>6 DEF Refund
  <2>3. \A v \in User : RowBy(user'[v], Today)
    BY <1>a, <2>1, SameRow
  <2>4. Users'
    BY <2>2, <2>3
  <2>5. QED
    BY <1>f, <1>6, <2>4 DEF Refund
<1>7. ASSUME NEW b \in Poster, NEW P \in SUBSET Payment, NEW p \in Payment, BeginPost(b, P, p)
      PROVE  Users' /\ Rows'
  <2>1. \A o \in Poster : poster'[o].row = poster[o].row
    BY <1>0, <1>7 DEF BeginPost, Columns, PosterState
  <2>2. \A o \in Poster : poster'[o].today \in {Today, poster[o].today}
    BY <1>0, <1>7 DEF BeginPost, Columns, PosterState
  <2>3. Rows'
    <3>1. Today' = Today
      BY <1>d, <1>7 DEF BeginPost
    <3>2. \A o \in Poster : poster'[o].today <= Today
      BY <1>a, <1>b, <2>2
    <3>3. QED
      BY <1>a, <2>1, <3>1, <3>2
  <2>4. QED
    BY <1>e, <1>7, <2>3 DEF BeginPost
<1>8. ASSUME NEW b \in Poster, NEW p \in Payment, ReadDate(b, p)
      PROVE  Users' /\ Rows'
  <2>1. \A o \in Poster : poster'[o].row = poster[o].row
    BY <1>0, <1>8 DEF ReadDate, Columns, PosterState
  <2>2. \A o \in Poster : poster'[o].today \in {Today, poster[o].today}
    BY <1>0, <1>8 DEF ReadDate, Columns, PosterState
  <2>3. Rows'
    <3>1. Today' = Today
      BY <1>d, <1>8 DEF ReadDate
    <3>2. \A o \in Poster : poster'[o].today <= Today
      BY <1>a, <1>b, <2>2
    <3>3. QED
      BY <1>a, <2>1, <3>1, <3>2
  <2>4. QED
    BY <1>e, <1>8, <2>3 DEF ReadDate
<1>9. ASSUME NEW b \in Poster, Post(b)
      PROVE  Users' /\ Rows'
  <2>1. PICK u \in User, row \in UserRow, seen \in UserRow, won \in [Achievement -> Nat] :
              /\ RowOK(row)
              /\ poster' = [poster EXCEPT ![b] =
                   [todo   |-> poster[b].todo \ {poster[b].in},
                    in     |-> None,
                    today  |-> poster[b].today,
                    done   |-> poster[b].done \cup {poster[b].in},
                    row    |-> With(poster[b].row, u, row),
                    won    |-> With(poster[b].won, u, won),
                    before |-> With(poster[b].before, u, seen)]]
    BY <1>9, PostIs
  <2>2. /\ poster'[b].row = With(poster[b].row, u, row)
        /\ poster'[b].today = poster[b].today
        /\ \A o \in Poster \ {b} : poster'[o] = poster[o]
    BY <1>0, <2>1 DEF Columns
  <2>3. \A v \in DOMAIN With(poster[b].row, u, row) : RowBy(With(poster[b].row, u, row)[v], Today)
    BY <1>a, <2>1 DEF With, RowOK
  <2>4. Today' = Today
    BY <1>d, <1>9 DEF Post
  <2>5. Rows'
    BY <1>a, <2>2, <2>3, <2>4
  <2>6. QED
    BY <1>e, <1>9, <2>5 DEF Post
<1>10. ASSUME NEW b \in Poster, CommitPost(b)
       PROVE  Users' /\ Rows'
  <2>1. Today' = Today
    BY <1>d, <1>10 DEF CommitPost
  <2>2. \A u \in User : user'[u] = user[u] \/ (u \in DOMAIN poster[b].row
                                            /\ user'[u] = poster[b].row[u])
    BY <1>10, CommitIs
  <2>3. Users'
    BY <1>a, <2>1, <2>2
  <2>4. Rows'
    BY <1>0, <1>a, <1>b, <1>10, <2>1, NothingWritten DEF CommitPost, Columns, IdlePoster
  <2>5. QED
    BY <2>3, <2>4
<1>11. ASSUME NEW b \in Poster, AbortPost(b)
       PROVE  Users' /\ Rows'
  <2>1. Today' = Today
    BY <1>d, <1>11 DEF AbortPost
  <2>2. Rows'
    BY <1>0, <1>a, <1>b, <1>11, <2>1, NothingWritten DEF AbortPost, Columns, IdlePoster
  <2>3. QED
    BY <1>e, <1>11, <2>2 DEF AbortPost
<1>12. ASSUME NEW u \in User, Skip(u)
       PROVE  Users' /\ Rows'
  <2>1. user'[u] \in UserRow
    BY ColumnsStep DEF Columns
  <2>2. /\ user'[u].streak = user[u].streak /\ user'[u].last = Today
        /\ user'[u].days = user[u].days /\ user'[u].skips = user[u].skips \cup {Today}
        /\ user'[u].unclear = (user[u].unclear \/ user[u].last \notin {None, Today - 1})
    BY <1>0, <1>12 DEF Skip, Columns, UserRow
  <2>3. user[u].last # None => user[u].last < Today
    BY <1>12 DEF Skip
  <2>4. StreakOK(user[u])
    BY <1>a DEF RowBy
  <2> DEFINE new == user'[u]
  <2>5. StreakOK(new)
    <3>1. ~new.unclear => ~user[u].unclear /\ user[u].last \in {None, Today - 1}
      BY <2>2
    <3>2. new \in UserRow /\ new.streak = user[u].streak /\ new.last = Today
          /\ new.days = user[u].days /\ new.skips = user[u].skips \cup {Today}
      BY <2>1, <2>2
    <3> HIDE DEF new
    <3>3. QED
      BY <1>b, <1>c, <2>3, <2>4, <3>1, <3>2, SkippedOK
  <2>6. RowBy(user'[u], Today)
    BY <1>b, <2>2, <2>5 DEF RowBy
  <2>7. \A v \in User \ {u} : user'[v] = user[v]
    BY <1>0, <1>12 DEF Skip, Columns
  <2>8. Users'
    BY <1>a, <1>d, <1>12, <2>6, <2>7 DEF Skip
  <2>9. QED
    BY <1>f, <1>12, <2>8 DEF Skip
<1>13. ASSUME NEW a \in Achievement, SetAchievement(a)
       PROVE  Users' /\ Rows'
  BY <1>e, <1>f, <1>13 DEF SetAchievement
<1>14. ASSUME Tick
       PROVE  Users' /\ Rows'
  <2>1. now' \in {now, now + 1} /\ now' \in 0..MaxTime /\ user' = user /\ poster' = poster
    BY <1>0, <1>14, EngagementAssumption DEF Tick, Columns
  <2>2. Today <= Today' /\ Today' \in Nat
    <3>1. Today <= Today'
      BY <1>0, <2>1, TodayLasts DEF Columns
    <3>2. \A n \in Nat : n \div Day \in Nat
      BY EngagementAssumption
    <3>3. QED
      BY <2>1, <3>1, <3>2 DEF Today
  <2>3. \A row \in UserRow : RowBy(row, Today) => RowBy(row, Today')
    <3> SUFFICES ASSUME NEW row \in UserRow, RowBy(row, Today)
                 PROVE  row.last # None => row.last <= Today'
      BY DEF RowBy
    <3>1. row.last # None => row.last \in Nat /\ row.last <= Today
      BY DateNat DEF RowBy, UserRow
    <3>2. QED
      BY <1>b, <2>2, <3>1
  <2>4. \A b \in Poster : poster[b].today <= Today'
    BY <1>a, <1>b, <1>c, <2>2
  <2>5. QED
    BY <1>a, <1>c, <2>1, <2>3, <2>4
<1>15. ASSUME UNCHANGED vars
       PROVE  Users' /\ Rows'
  BY <1>e, <1>f, <1>15 DEF vars
<1>16. ASSUME NEW s \in Guest, NEW t \in User, Merge(s, t)
       PROVE  Users' /\ Rows'
  <2>1. s \in User /\ user \in [User -> UserRow]
    BY <1>0, EngagementAssumption DEF Columns
  <2> DEFINE new == MergedRow(s, t)
  <2>2. StreakOK(user[s]) /\ StreakOK(user[t])
    BY <1>a, <2>1 DEF RowBy
  <2>3. StreakOK(new)
    BY <2>1, <2>2, MergedOK
  <2>4. new.last \in {user[s].last, user[t].last}
    BY DEF MergedRow, Later
  <2>5. RowBy(new, Today)
    BY <1>a, <2>1, <2>3, <2>4 DEF RowBy
  <2>6. user'[t] = new /\ \A v \in User \ {t} : user'[v] = user[v]
    BY <1>16, <2>1 DEF Merge
  <2> HIDE DEF new
  <2>7. Users'
    BY <1>a, <1>d, <1>16, <2>5, <2>6 DEF Merge
  <2>8. QED
    BY <1>f, <1>16, <2>7 DEF Merge
<1>17. Users' /\ Rows'
  BY <1>1, <1>2, <1>3, <1>4, <1>5, <1>6, <1>7, <1>8, <1>9, <1>10, <1>11, <1>12, <1>13,
     <1>14, <1>15, <1>16 DEF Next, BeginDonation, BeginLink, Source
<1>18. QED
  BY <1>17 DEF RowsRight, RowOK

\* Nothing is created later than now.
LEMMA PastStep == Inv /\ [Next]_vars => Past'
<1> SUFFICES ASSUME Inv, [Next]_vars PROVE Past'
  OBVIOUS
<1>0. Columns /\ Past /\ now \in Nat
  BY DEF Inv, Columns
<1>a. /\ payment \in [Payment -> PaymentRow] /\ creator \in [Creator -> CreatorState]
      /\ \A p \in Payment : payment[p] \in PaymentRow /\ payment[p].at \in Nat /\ payment[p].at <= now
      /\ \A k \in Creator : creator[k].at \in Nat /\ creator[k].at <= now
  BY <1>0, EngagementAssumption DEF Columns, Past, PaymentRow, CreatorState
<1>b. ASSUME now' = now, creator' = creator, \A p \in Payment : payment'[p].at = payment[p].at
      PROVE  Past'
  BY <1>b, <1>0 DEF Past
<1>1. ASSUME NEW k \in Creator, NEW u \in User, NEW kind \in Source, Begin(k, u, kind)
      PROVE  Past'
  <2>1. /\ \A o \in Creator : creator'[o] \in {creator[o], [who |-> u, kind |-> kind, at |-> now]}
        /\ payment' = payment /\ now' = now
    BY <1>a, <1>1 DEF Begin
  <2>2. \A o \in Creator : creator'[o].at <= now
    BY <1>0, <1>a, <2>1
  <2>3. QED
    BY <1>a, <2>1, <2>2 DEF Past
<1>2. ASSUME NEW k \in Creator, NEW p \in Payment, CommitDonation(k, p)
      PROVE  Past'
  <2>1. payment'[p].at = creator[k].at /\ \A q \in Payment \ {p} : payment'[q] = payment[q]
    BY <1>a, <1>2 DEF CommitDonation
  <2>2. \A o \in Creator : creator'[o] \in {creator[o], IdleCreator} /\ IdleCreator.at <= now
    BY <1>0, <1>a, <1>2 DEF CommitDonation, IdleCreator
  <2>3. now' = now
    BY <1>2 DEF CommitDonation
  <2>4. QED
    BY <1>a, <2>1, <2>2, <2>3 DEF Past
<1>3. ASSUME NEW k \in Creator, AbortDonation(k)
      PROVE  Past'
  <2>1. \A o \in Creator : creator'[o] \in {creator[o], IdleCreator} /\ IdleCreator.at <= now
    BY <1>0, <1>a, <1>3 DEF AbortDonation, IdleCreator
  <2>2. QED
    BY <1>a, <1>3, <2>1 DEF AbortDonation, Past
<1>4. ASSUME NEW p \in Payment, NEW u \in User, Charge(p, u)
      PROVE  Past'
  <2>1. payment'[p].at = 0 /\ \A q \in Payment \ {p} : payment'[q] = payment[q]
    BY <1>a, <1>4 DEF Charge
  <2>2. QED
    BY <1>0, <1>a, <1>4, <2>1 DEF Charge, Past
<1>5. ASSUME NEW p \in Payment, Fail(p) \/ Refund(p)
      PROVE  Past'
  <2>1. \A q \in Payment : payment'[q].at = payment[q].at
    BY <1>a, <1>5 DEF Fail, Refund, PaymentRow
  <2>2. QED
    BY <1>b, <1>5, <2>1 DEF Fail, Refund
<1>6. ASSUME NEW b \in Poster, CommitPost(b)
      PROVE  Past'
  <2>0. \A r \in PaymentRow : [r EXCEPT !.status = "success"].at = r.at
    BY DEF PaymentRow
  <2>1. \A q \in Payment : payment'[q].at = payment[q].at
    BY <1>a, <1>6, <2>0, CommitIs
  <2>2. QED
    BY <1>b, <1>6, <2>1 DEF CommitPost
<1>7. ASSUME NEW s \in Guest, NEW t \in User, Merge(s, t)
      PROVE  Past'
  <2>1. \A q \in Payment : payment'[q].at = payment[q].at
    BY <1>0, <1>7, MergeMoves
  <2>2. QED
    BY <1>b, <1>7, <2>1 DEF Merge
<1>8. CASE Tick
  BY <1>0, <1>a, <1>8 DEF Tick, Past
<1>9. ASSUME UNCHANGED <<now, creator, payment>>
      PROVE  Past'
  BY <1>b, <1>9
<1>10. ASSUME NEW b \in Poster, NEW P \in SUBSET Payment, NEW p \in Payment,
              BeginPost(b, P, p) \/ ReadDate(b, p) \/ Post(b) \/ AbortPost(b)
       PROVE  Past'
  BY <1>9, <1>10 DEF BeginPost, ReadDate, Post, AbortPost
<1>11. ASSUME NEW u \in User, Skip(u)
       PROVE  Past'
  BY <1>9, <1>11 DEF Skip
<1>12. ASSUME NEW a \in Achievement, SetAchievement(a)
       PROVE  Past'
  BY <1>9, <1>12 DEF SetAchievement
<1>13. CASE UNCHANGED vars
  BY <1>9, <1>13 DEF vars
<1>14. ASSUME NEW b \in Poster, Post(b) \/ AbortPost(b)
       PROVE  Past'
  BY <1>9, <1>14 DEF Post, AbortPost
<1>15. QED
  BY <1>1, <1>2, <1>3, <1>4, <1>5, <1>6, <1>7, <1>8, <1>10, <1>11, <1>12, <1>13, <1>14
     DEF Next, BeginDonation, BeginLink, Source

\* The cooldown outlasts every step that makes no request and no donation.
LEMMA SpacedLasts ==
  ASSUME Inv, hasty' = hasty, brought' = brought,
         \A k \in Creator : creator'[k].who \in User => creator'[k] = creator[k],
         \A p \in Payment : payment'[p].kind \in Source =>
           /\ payment'[p].kind = payment[p].kind /\ payment'[p].owner = payment[p].owner
           /\ payment'[p].at = payment[p].at /\ (Live(p)' => Live(p))
  PROVE  Spaced'
<1>1. \A u \in User : \A p \in DonationsOf(u)' :
        /\ p \in DonationsOf(u) /\ payment'[p].kind = payment[p].kind
        /\ payment'[p].at = payment[p].at /\ (Live(p)' => Live(p))
  BY DEF DonationsOf, Source
<1>2. Spaced
  BY DEF Inv
<1> SUFFICES ASSUME NEW u \in User \ hasty
             PROVE  /\ \A p, q \in DonationsOf(u)' :
                         ( /\ p # q /\ {p, q} \notin brought /\ Live(p)' /\ Live(q)'
                           /\ payment'[q].at <= payment'[p].at ) => Apart(p, q)'
                    /\ \A k \in Creator : creator'[k].who = u =>
                         /\ \A p \in DonationsOf(u)' : Live(p)' => After(k, p)'
                         /\ \A o \in Creator \ {k} : creator'[o].who # u
  BY DEF Spaced
<1>3. ASSUME NEW p \in DonationsOf(u)', NEW q \in DonationsOf(u)',
             p # q, {p, q} \notin brought, Live(p)', Live(q)', payment'[q].at <= payment'[p].at
      PROVE  Apart(p, q)'
  <2>1. Apart(p, q)
    BY <1>1, <1>2, <1>3 DEF Spaced
  <2>2. /\ payment'[p].kind = payment[p].kind /\ payment'[p].at = payment[p].at
        /\ payment'[q].kind = payment[q].kind /\ payment'[q].at = payment[q].at
    BY <1>1
  <2>3. QED
    BY <2>1, <2>2 DEF Apart
<1>4. ASSUME NEW k \in Creator, creator'[k].who = u
      PROVE  /\ \A p \in DonationsOf(u)' : Live(p)' => After(k, p)'
             /\ \A o \in Creator \ {k} : creator'[o].who # u
  <2>1. creator'[k] = creator[k]
    BY <1>4
  <2>2. /\ \A p \in DonationsOf(u) : Live(p) => After(k, p)
        /\ \A o \in Creator \ {k} : creator[o].who # u
    BY <1>2, <1>4, <2>1 DEF Spaced
  <2>3. \A p \in DonationsOf(u)' : Live(p)' => After(k, p)'
    BY <1>1, <2>1, <2>2 DEF After
  <2>4. \A o \in Creator \ {k} : creator'[o].who # u
    BY <1>4, <2>2
  <2>5. QED
    BY <2>3, <2>4
<1>5. QED
  BY <1>3, <1>4

\* What a step must do for Spaced to hold after it.
LEMMA SpacedBy ==
  ASSUME \A u \in User \ hasty' : \A p, q \in DonationsOf(u)' :
           ( /\ p # q /\ {p, q} \notin brought' /\ Live(p)' /\ Live(q)'
             /\ payment'[q].at <= payment'[p].at ) => Apart(p, q)',
         \A u \in User \ hasty' : \A k \in Creator : creator'[k].who = u =>
           /\ \A p \in DonationsOf(u)' : Live(p)' => After(k, p)'
           /\ \A o \in Creator \ {k} : creator'[o].who # u
  PROVE  Spaced'
  BY DEF Spaced

\* A request begins: its user has no other, or is hasty.
LEMMA SpacedBegin ==
  ASSUME Inv, NEW k \in Creator, NEW u \in User, NEW kind \in Source, Begin(k, u, kind),
         kind = "donation" => ~Blocked(u)
  PROVE  Spaced'
<1>0. Columns /\ Past /\ Spaced
  BY DEF Inv
<1>c. now \in Nat /\ Cooldown \in Nat /\ \A p \in Payment : payment[p].at \in Nat
  BY <1>0, EngagementAssumption DEF Columns, PaymentRow
<1>1. /\ payment' = payment /\ brought' = brought /\ hasty \subseteq hasty'
      /\ creator[k] = IdleCreator
      /\ creator'[k] = [who |-> u, kind |-> kind, at |-> now]
      /\ \A o \in Creator \ {k} : creator'[o] = creator[o]
  BY <1>0 DEF Begin, Columns
<1>2. /\ \A v \in User : DonationsOf(v)' = DonationsOf(v)
      /\ \A p \in Payment : Live(p)' = Live(p)
      /\ \A p, q : Apart(p, q)' = Apart(p, q)
  BY <1>1 DEF DonationsOf, Live, Apart
<1>3. u \notin hasty' => \A o \in Creator : creator[o].who # u
  BY DEF Begin
<1>4. \A p \in DonationsOf(u) : Live(p) => After(k, p)'
  <2> SUFFICES ASSUME NEW p \in DonationsOf(u), Live(p) PROVE After(k, p)'
    OBVIOUS
  <2>1. p \in Payment /\ payment[p].at \in Nat /\ payment[p].at <= now
    BY <1>0, <1>c DEF DonationsOf, Past
  <2>2. kind = "donation" => ~(payment[p].at > now - Cooldown)
    BY DEF Blocked, Blocking, Live
  <2>3. QED
    BY <1>1, <1>c, <2>1, <2>2 DEF After
<1>5. ASSUME NEW v \in User \ hasty', NEW o \in Creator, creator'[o].who = v
      PROVE  /\ \A p \in DonationsOf(v)' : Live(p)' => After(o, p)'
             /\ \A l \in Creator \ {o} : creator'[l].who # v
  <2>1. CASE o = k
    <3>1. v = u
      BY <1>1, <1>5, <2>1
    <3>2. \A p \in DonationsOf(v)' : p \in Payment /\ p \in DonationsOf(u)
      BY <1>2, <3>1 DEF DonationsOf
    <3>3. QED
      BY <1>1, <1>2, <1>3, <1>4, <1>5, <2>1, <3>1, <3>2
  <2>2. CASE o # k
    <3>1. creator'[o] = creator[o] /\ creator[o].who = v /\ v \notin hasty
      BY <1>1, <1>5, <2>2
    <3>2. v # u
      BY <1>3, <1>5, <3>1
    <3>3. /\ \A p \in DonationsOf(v) : Live(p) => After(o, p)
          /\ \A l \in Creator \ {o} : creator[l].who # v
      BY <1>0, <3>1 DEF Spaced
    <3>4. \A p \in DonationsOf(v)' : Live(p)' => After(o, p)'
      <4>1. \A p \in DonationsOf(v)' : p \in Payment /\ p \in DonationsOf(v)
        BY <1>2 DEF DonationsOf
      <4>2. \A p : After(o, p)' = After(o, p)
        BY <1>1, <3>1 DEF After
      <4>3. QED
        BY <1>2, <3>3, <4>1, <4>2
    <3>5. QED
      BY <1>1, <3>2, <3>3, <3>4
  <2>3. QED
    BY <2>1, <2>2
<1>6. ASSUME NEW v \in User \ hasty', NEW p \in DonationsOf(v)', NEW q \in DonationsOf(v)',
             p # q, {p, q} \notin brought', Live(p)', Live(q)', payment'[q].at <= payment'[p].at
      PROVE  Apart(p, q)'
  <2>1. p \in DonationsOf(v) /\ q \in DonationsOf(v) /\ p \in Payment /\ q \in Payment /\ v \notin hasty
    BY <1>1, <1>2, <1>6 DEF DonationsOf
  <2>2. Apart(p, q)
    BY <1>0, <1>1, <1>2, <1>6, <2>1 DEF Spaced
  <2>3. QED
    BY <1>2, <2>2
<1>7. QED
  BY <1>5, <1>6, SpacedBy

\* Its commit: what it has checked still holds.
LEMMA SpacedCommit ==
  ASSUME Inv, NEW k \in Creator, NEW p \in Payment, CommitDonation(k, p)
  PROVE  Spaced'
<1>0. Columns /\ Owned /\ Past /\ Spaced
  BY DEF Inv
<1>a. IdleCreator.who \notin User
  BY EngagementAssumption DEF IdleCreator
<1>c. /\ Cooldown \in Nat /\ \A q \in Payment : payment[q].at \in Nat
      /\ \A o \in Creator : creator[o].at \in Nat
  BY <1>0, EngagementAssumption DEF Columns, PaymentRow, CreatorState
<1>1. PICK w \in User : w = creator[k].who
  BY <1>0 DEF CommitDonation, Owned
<1>2. /\ hasty' = hasty /\ brought' = brought
      /\ payment[p].kind = "none"
      /\ payment'[p].kind = creator[k].kind /\ payment'[p].owner = w
      /\ payment'[p].at = creator[k].at
      /\ \A q \in Payment \ {p} : payment'[q] = payment[q]
      /\ creator'[k] = IdleCreator
      /\ \A o \in Creator \ {k} : creator'[o] = creator[o]
      /\ creator[k].kind \in Source
  BY <1>0, <1>1 DEF CommitDonation, Columns, NoPayment, CreatorState
<1>3. /\ \A v \in User : p \notin DonationsOf(v)
      /\ \A v \in User : \A q \in DonationsOf(v)' : (q = p /\ v = w) \/ (q # p /\ q \in DonationsOf(v))
  BY <1>2 DEF DonationsOf, Source
<1>4. \A v \in User : \A q \in DonationsOf(v) :
        q # p /\ q \in Payment /\ payment'[q] = payment[q] /\ (Live(q)' = Live(q))
  BY <1>2, <1>3 DEF DonationsOf, Live
<1>5. w \notin hasty => /\ \A q \in DonationsOf(w) : Live(q) => After(k, q)
                       /\ \A o \in Creator \ {k} : creator[o].who # w
  BY <1>0, <1>1 DEF Spaced
<1>6. ASSUME NEW v \in User \ hasty', NEW q \in DonationsOf(v)', NEW r \in DonationsOf(v)',
             q # r, {q, r} \notin brought', Live(q)', Live(r)', payment'[r].at <= payment'[q].at
      PROVE  Apart(q, r)'
  <2>1. CASE q # p /\ r # p
    <3>1. q \in DonationsOf(v) /\ r \in DonationsOf(v)
      BY <1>3, <2>1
    <3>2. payment'[q] = payment[q] /\ payment'[r] = payment[r] /\ Live(q) /\ Live(r)
      BY <1>4, <1>6, <3>1
    <3>3. Apart(q, r)
      BY <1>0, <1>2, <1>6, <3>1, <3>2 DEF Spaced
    <3>4. QED
      BY <3>2, <3>3 DEF Apart
  <2>2. CASE q = p
    <3>1. v = w /\ r \in DonationsOf(w) /\ r # p
      BY <1>3, <1>6, <2>2
    <3>2. payment'[r] = payment[r] /\ Live(r) /\ r \in Payment
      BY <1>4, <1>6, <3>1
    <3>3. After(k, r)
      BY <1>2, <1>5, <1>6, <3>1, <3>2
    <3>4. creator[k].kind = "donation" => payment[r].at + Cooldown <= creator[k].at
      BY <3>3 DEF After
    <3>5. QED
      BY <1>2, <2>2, <3>2, <3>4 DEF Apart, Source
  <2>3. CASE r = p
    <3>1. v = w /\ q \in DonationsOf(w) /\ q # p
      BY <1>3, <1>6, <2>3
    <3>2. payment'[q] = payment[q] /\ Live(q) /\ q \in Payment
      BY <1>4, <1>6, <3>1
    <3>3. After(k, q)
      BY <1>2, <1>5, <1>6, <3>1, <3>2
    <3>4. payment[q].at = creator[k].at
      BY <1>2, <1>6, <1>c, <2>3, <3>2, <3>3 DEF After
    <3>5. creator[k].kind = "donation" => payment[q].at + Cooldown <= creator[k].at
      BY <3>3 DEF After
    <3>6. creator[k].kind = "donation" => creator[k].at + Cooldown <= payment[q].at
      BY <1>c, <3>2, <3>4, <3>5
    <3>7. QED
      BY <1>2, <2>3, <3>2, <3>4, <3>6 DEF Apart, Source
  <2>4. QED
    BY <2>1, <2>2, <2>3
<1>7. ASSUME NEW v \in User \ hasty', NEW o \in Creator, creator'[o].who = v
      PROVE  /\ \A q \in DonationsOf(v)' : Live(q)' => After(o, q)'
             /\ \A l \in Creator \ {o} : creator'[l].who # v
  <2>1. o # k /\ creator'[o] = creator[o] /\ creator[o].who = v
    BY <1>a, <1>2, <1>7
  <2>2. v # w
    BY <1>2, <1>5, <1>7, <2>1
  <2>3. /\ \A q \in DonationsOf(v) : Live(q) => After(o, q)
        /\ \A l \in Creator \ {o} : creator[l].who # v
    BY <1>0, <1>2, <2>1 DEF Spaced
  <2>4. \A q \in DonationsOf(v)' : Live(q)' => After(o, q)'
    BY <1>3, <1>4, <2>1, <2>2, <2>3 DEF After
  <2>5. \A l \in Creator : creator'[l].who = v => creator[l].who = v
    BY <1>a, <1>2
  <2>6. QED
    BY <2>1, <2>3, <2>4, <2>5
<1>8. QED
  BY <1>6, <1>7, SpacedBy

\* A merge: what came from both accounts is brought together, and a target with
\* a request in progress is hasty.
LEMMA SpacedMerge ==
  ASSUME Inv, NEW s \in Guest, NEW t \in User, Merge(s, t)
  PROVE  Spaced'
<1>0. Columns /\ Spaced /\ s \in User
  BY EngagementAssumption DEF Inv
<1>1. /\ creator' = creator /\ hasty \subseteq hasty' /\ brought \subseteq brought'
      /\ \A p \in DonationsOf(s), q \in DonationsOf(t) : {p, q} \in brought'
      /\ t \notin hasty' => s \notin hasty /\ \A k \in Creator : creator[k].who # t
      /\ s # t
  <2>1. brought' = brought \cup {{p, q} : p \in DonationsOf(s), q \in DonationsOf(t)}
    BY DEF Merge
  <2>2. hasty' = IF t \in {creator[k].who : k \in Creator} \/ s \in hasty THEN hasty \cup {t} ELSE hasty
    BY DEF Merge
  <2>3. creator' = creator /\ s # t
    BY DEF Merge
  <2>4. QED
    BY <2>1, <2>2, <2>3
<1>2. \A p \in Payment :
        /\ payment'[p].kind = payment[p].kind /\ payment'[p].at = payment[p].at
        /\ payment'[p].status = payment[p].status
        /\ payment'[p].owner = IF payment[p].owner = s THEN t ELSE payment[p].owner
  BY <1>0, MergeMoves
<1>3. /\ \A p \in Payment : Live(p)' = Live(p)
      /\ \A p, q \in Payment : Apart(p, q)' = Apart(p, q)
      /\ \A k \in Creator, p \in Payment : After(k, p)' = After(k, p)
  BY <1>1, <1>2 DEF Live, Apart, After
<1>4. \A v \in User : \A p \in DonationsOf(v)' :
        p \in Payment /\ (p \in DonationsOf(v) \/ (v = t /\ p \in DonationsOf(s)))
  <2> SUFFICES ASSUME NEW v \in User, NEW p \in DonationsOf(v)'
               PROVE  p \in Payment /\ (p \in DonationsOf(v) \/ (v = t /\ p \in DonationsOf(s)))
    OBVIOUS
  <2>1. p \in Payment /\ payment'[p].kind \in Source /\ payment'[p].owner = v
    BY DEF DonationsOf, Source
  <2>2. payment[p].kind \in Source /\ v = IF payment[p].owner = s THEN t ELSE payment[p].owner
    BY <1>2, <2>1
  <2>3. QED
    BY <2>1, <2>2 DEF DonationsOf, Source
<1>5. ASSUME NEW v \in User \ hasty', NEW p \in DonationsOf(v)', NEW q \in DonationsOf(v)',
             p # q, {p, q} \notin brought', Live(p)', Live(q)', payment'[q].at <= payment'[p].at
      PROVE  Apart(p, q)'
  <2>1. /\ {p, q} \notin brought /\ Live(p) /\ Live(q) /\ payment[q].at <= payment[p].at
        /\ p \in Payment /\ q \in Payment
    BY <1>1, <1>2, <1>3, <1>4, <1>5
  <2>2. PICK x \in User \ hasty : p \in DonationsOf(x) /\ q \in DonationsOf(x)
    <3>1. CASE p \in DonationsOf(v) /\ q \in DonationsOf(v)
      BY <1>1, <3>1
    <3>2. CASE v = t /\ p \in DonationsOf(s) /\ q \in DonationsOf(s)
      BY <1>0, <1>1, <3>2
    <3>3. CASE v = t /\ p \in DonationsOf(s) /\ q \in DonationsOf(t)
      BY <1>1, <1>5, <3>3
    <3>4. CASE v = t /\ p \in DonationsOf(t) /\ q \in DonationsOf(s)
      <4>1. {q, p} \in brought'
        BY <1>1, <3>4
      <4>2. {q, p} = {p, q}
        OBVIOUS
      <4>3. QED
        BY <1>5, <4>1, <4>2
    <3>5. QED
      BY <1>4, <3>1, <3>2, <3>3, <3>4
  <2>3. Apart(p, q)
    BY <1>0, <1>5, <2>1, <2>2 DEF Spaced
  <2>4. QED
    BY <1>3, <2>1, <2>3
<1>6. ASSUME NEW v \in User \ hasty', NEW k \in Creator, creator'[k].who = v
      PROVE  /\ \A p \in DonationsOf(v)' : Live(p)' => After(k, p)'
             /\ \A o \in Creator \ {k} : creator'[o].who # v
  <2>1. creator[k].who = v /\ v # t /\ v \notin hasty
    BY <1>1, <1>6
  <2>2. /\ \A p \in DonationsOf(v) : Live(p) => After(k, p)
        /\ \A o \in Creator \ {k} : creator[o].who # v
    BY <1>0, <2>1 DEF Spaced
  <2>3. QED
    BY <1>1, <1>3, <1>4, <2>1, <2>2
<1>7. QED
  BY <1>5, <1>6, SpacedBy

LEMMA SpacedStep == Inv /\ [Next]_vars => Spaced'
<1> SUFFICES ASSUME Inv, [Next]_vars PROVE Spaced'
  OBVIOUS
<1>0. Columns /\ Owned /\ TakenByOne /\ Spaced
  BY DEF Inv
<1>a. IdleCreator.who \notin User
  BY EngagementAssumption DEF IdleCreator
<1>b. UNCHANGED <<payment, creator, hasty, brought>> => Spaced'
  <2>1. payment' = payment => \A p \in Payment : Live(p)' = Live(p)
    BY DEF Live
  <2>2. QED
    BY <2>1, SpacedLasts
<1>1. ASSUME NEW k \in Creator, NEW u \in User, BeginDonation(k, u) \/ BeginLink(k, u)
      PROVE  Spaced'
  BY <1>1, SpacedBegin DEF BeginDonation, BeginLink, Source
<1>2. ASSUME NEW k \in Creator, NEW p \in Payment, CommitDonation(k, p)
      PROVE  Spaced'
  BY <1>2, SpacedCommit
<1>3. ASSUME NEW k \in Creator, AbortDonation(k)
      PROVE  Spaced'
  <2>1. payment' = payment /\ hasty' = hasty /\ brought' = brought
        /\ \A o \in Creator : creator'[o].who \in User => creator'[o] = creator[o]
    BY <1>0, <1>a, <1>3 DEF AbortDonation, Columns
  <2>2. \A p \in Payment : Live(p)' = Live(p)
    BY <2>1 DEF Live
  <2>3. QED
    BY <2>1, <2>2, SpacedLasts
<1>d. ASSUME creator' = creator, hasty' = hasty, brought' = brought,
             \A p \in Payment : payment'[p].kind \in Source =>
               /\ payment'[p].kind = payment[p].kind /\ payment'[p].owner = payment[p].owner
               /\ payment'[p].at = payment[p].at
               /\ (payment'[p].status \in {"success", "pending"} =>
                      payment[p].status \in {"success", "pending"})
      PROVE  Spaced'
  <2>1. \A p \in Payment : payment'[p].kind \in Source => (Live(p)' => Live(p))
    BY <1>d DEF Live
  <2>2. QED
    BY <1>d, <2>1, SpacedLasts
<1>4. ASSUME NEW p \in Payment, NEW u \in User, Charge(p, u)
      PROVE  Spaced'
  <2>1. payment'[p].kind = "charge" /\ \A q \in Payment \ {p} : payment'[q] = payment[q]
    BY <1>0, <1>4 DEF Charge, Columns
  <2>2. QED
    BY <1>d, <1>4, <2>1 DEF Charge, Source
<1>5. ASSUME NEW p \in Payment, Fail(p)
      PROVE  Spaced'
  <2>1. \A q \in Payment : /\ payment'[q].kind = payment[q].kind
                           /\ payment'[q].owner = payment[q].owner
                           /\ payment'[q].at = payment[q].at
                           /\ payment'[q].status \in {payment[q].status, "failed"}
    BY <1>0, <1>5 DEF Fail, Columns, PaymentRow
  <2>2. QED
    BY <1>d, <1>5, <2>1 DEF Fail
<1>6. ASSUME NEW p \in Payment, Refund(p)
      PROVE  Spaced'
  <2>1. \A q \in Payment : /\ payment'[q].kind = payment[q].kind
                           /\ payment'[q].owner = payment[q].owner
                           /\ payment'[q].at = payment[q].at
                           /\ payment'[q].status \in {payment[q].status, "refunded"}
    BY <1>0, <1>6 DEF Refund, Columns, PaymentRow
  <2>2. QED
    BY <1>d, <1>6, <2>1 DEF Refund
<1>7. ASSUME NEW b \in Poster, NEW P \in SUBSET Payment, NEW p \in Payment, BeginPost(b, P, p)
      PROVE  Spaced'
  BY <1>b, <1>7 DEF BeginPost
<1>8. ASSUME NEW b \in Poster, NEW p \in Payment, ReadDate(b, p)
      PROVE  Spaced'
  BY <1>b, <1>8 DEF ReadDate
<1>9. ASSUME NEW b \in Poster, Post(b)
      PROVE  Spaced'
  BY <1>b, <1>9 DEF Post
<1>10. ASSUME NEW b \in Poster, CommitPost(b)
       PROVE  Spaced'
  <2>1. \A p \in poster[b].done : payment[p].status = "pending"
    BY <1>0, <1>10, CommitIs DEF TakenByOne
  <2>2. \A p \in Payment : payment'[p] = IF p \in poster[b].done
                             THEN [payment[p] EXCEPT !.status = "success"] ELSE payment[p]
    BY <1>10, CommitIs
  <2>3. \A p \in Payment : payment[p] \in PaymentRow
    BY <1>0 DEF Columns
  <2>4. \A p \in Payment : /\ payment'[p].kind = payment[p].kind
                           /\ payment'[p].owner = payment[p].owner
                           /\ payment'[p].at = payment[p].at
                           /\ payment'[p].status = payment[p].status \/ payment[p].status = "pending"
    BY <2>1, <2>2, <2>3 DEF PaymentRow
  <2>5. QED
    BY <1>d, <1>10, <2>4 DEF CommitPost
<1>11. ASSUME NEW b \in Poster, AbortPost(b)
       PROVE  Spaced'
  BY <1>b, <1>11 DEF AbortPost
<1>12. ASSUME NEW u \in User, Skip(u)
       PROVE  Spaced'
  BY <1>b, <1>12 DEF Skip
<1>13. ASSUME NEW a \in Achievement, SetAchievement(a)
       PROVE  Spaced'
  BY <1>b, <1>13 DEF SetAchievement
<1>14. CASE Tick
  BY <1>b, <1>14 DEF Tick
<1>15. CASE UNCHANGED vars
  BY <1>b, <1>15 DEF vars
<1>16. ASSUME NEW s \in Guest, NEW t \in User, Merge(s, t)
       PROVE  Spaced'
  BY <1>16, SpacedMerge
<1>17. QED
  BY <1>1, <1>2, <1>3, <1>4, <1>5, <1>6, <1>7, <1>8, <1>9, <1>10, <1>11, <1>12, <1>13,
     <1>14, <1>15, <1>16 DEF Next

LEMMA InvHolds == Spec => []Inv
<1>1. Inv /\ [Next]_vars => Inv'
  BY ColumnsStep, OwnedStep, TakenStep, RowsStep, PastStep, SpacedStep DEF Inv
<1>2. QED
  BY InvInit, <1>1, PTL DEF Spec

-----------------------------------------------------------------------------
(***************************************************************************)
(* The last donation.                                                      *)
(***************************************************************************)

\* A bounded set of numbers has a largest one.
LEMMA Largest ==
  ASSUME NEW S \in SUBSET Nat, NEW n \in Nat, \A s \in S : s <= n, S # {}
  PROVE  \E x \in S : \A y \in S : y <= x
<1> DEFINE R == {ss \in Nat \X Nat : ss[1] < ss[2]}
           T == {n - s : s \in S}
<1>1. IsWellFoundedOn(R, Nat)
  BY NatLessThanWellFounded DEF OpToRel
<1>2. T \subseteq Nat /\ T # {}
  <2>1. \A s \in S : n - s \in Nat
    OBVIOUS
  <2>2. QED
    BY <2>1
<1> HIDE DEF R
<1>3. PICK x \in T : \A y \in T : <<y, x>> \notin R
  <2> HIDE DEF T
  <2>1. QED
    BY <1>1, <1>2, WFMin
<1>4. PICK m \in S : x = n - m
  OBVIOUS
<1>5. ASSUME NEW y \in S, ~(y <= m)
      PROVE  FALSE
  <2>1. n - y \in T /\ n - y \in Nat /\ x \in Nat
    BY <1>2
  <2>2. n - y < x
    BY <1>4, <1>5
  <2>3. <<n - y, x>> \in R
    BY <2>1, <2>2 DEF R
  <2>4. QED
    BY <1>3, <2>1, <2>3
<1>6. QED
  BY <1>5

\* Who has given has given last.
LEMMA LastGivenIs ==
  ASSUME Columns, NEW u \in User, NEW p \in DonationsOf(u), payment[p].status = "success"
  PROVE  \E m \in LastGiven(u) : payment[p].at <= payment[m].at
<1> DEFINE given == {q \in DonationsOf(u) : payment[q].status = "success"}
           S == {payment[q].at : q \in given}
<1>1. \A q \in Payment : payment[q].at \in 0..MaxTime
  BY DEF Columns, PaymentRow
<1>2. given \subseteq Payment /\ p \in given
  BY DEF DonationsOf
<1>3. S \in SUBSET Nat /\ MaxTime \in Nat /\ (\A s \in S : s <= MaxTime) /\ S # {}
  <2>1. MaxTime \in Nat
    BY EngagementAssumption
  <2>2. \A q \in given : payment[q].at \in Nat /\ payment[q].at <= MaxTime
    BY <1>1, <1>2, <2>1
  <2>3. payment[p].at \in S
    BY <1>2
  <2> HIDE DEF given
  <2>4. S \in SUBSET Nat /\ \A s \in S : s <= MaxTime
    BY <2>2
  <2>5. QED
    BY <2>1, <2>3, <2>4
<1>4. PICK x \in S : \A y \in S : y <= x
  <2> HIDE DEF S
  <2>1. QED
    BY <1>3, Largest
<1>5. PICK m \in given : x = payment[m].at
  OBVIOUS
<1>6. m \in LastGiven(u) /\ payment[p].at <= payment[m].at
  BY <1>2, <1>4, <1>5 DEF LastGiven
<1>7. QED
  BY <1>6

-----------------------------------------------------------------------------
(***************************************************************************)
(* Achievements.                                                           *)
(***************************************************************************)
\* The dates before t have the runs they had.
LEMMA RunBefore ==
  ASSUME NEW D \in SUBSET Nat, NEW t \in Nat, NEW d \in Nat, d < t
  PROVE  RunOf(D \cup {t}, d) = RunOf(D, d)
<1>1. ASSUME NEW e \in Nat, e <= d
      PROVE  e..d \subseteq D \cup {t} <=> e..d \subseteq D
  <2>1. t \notin e..d
    OBVIOUS
  <2>2. QED
    BY <2>1
<1>2. QED
  BY <1>1 DEF RunOf

LEMMA ReachedIs ==
  ASSUME NEW row, NEW n
  PROVE  Reached(row, n) <=>
           \E d \in row.days : Cardinality(row.days \cap RunOf(row.days \cup row.skips, d)) >= n
  BY RunIs DEF Reached

\* A payment reaches what its streak reaches, and what was reached before.
LEMMA ReachedByPost ==
  ASSUME NEW row \in UserRow, StreakOK(row), NEW today \in Date, NEW n \in Int,
         ~Posted(row, today).unclear
  PROVE  Reached(Posted(row, today), n) <=>
           Reached(row, n) \/ Posted(row, today).streak >= n
<1> DEFINE new == Posted(row, today)
           D == row.days \cup row.skips
<1>1. /\ row.last \in Date \cup {None} /\ row.days \subseteq Date /\ row.skips \subseteq Date
      /\ today \in Nat /\ D \subseteq Nat /\ None \notin Date /\ Date \subseteq Nat
  BY DateNat DEF UserRow
<1>2. /\ new.last = today /\ new.days = row.days \cup {today} /\ new.skips = row.skips
      /\ ~row.unclear /\ InOrder(row, today)
  BY DEF Posted
<1>3. new \in UserRow /\ StreakOK(new)
  BY PostedOK
<1>4. ~new.unclear
  OBVIOUS
<1> HIDE DEF new
<1>5. new.streak = Cardinality(new.days \cap RunOf(new.days \cup new.skips, today))
  BY <1>1, <1>2, <1>3, <1>4 DEF StreakOK
<1>6. new.days \cup new.skips = D \cup {today}
  BY <1>2
<1>7. CASE today \in row.days
  <2>1. new.days = row.days /\ new.days \cup new.skips = D
    BY <1>2, <1>7
  <2>2. Reached(new, n) <=> Reached(row, n)
    BY <2>1, ReachedIs
  <2>3. new.streak >= n => Reached(new, n)
    BY <1>5, <1>7, <2>1, ReachedIs
  <2>4. QED
    BY <2>2, <2>3 DEF new
<1>8. CASE today \notin row.days
  <2>1. \A d \in D : d < today
    <3>1. CASE row.last = None
      BY <3>1 DEF StreakOK
    <3>2. CASE row.last # None
      <4>1. row.last \in Nat /\ row.last < today
        <5>1. row.last <= today /\ row.last # today
          BY <1>2, <1>8, <3>2 DEF InOrder
        <5>2. row.last \in Nat
          BY <1>1, <3>2
        <5>3. QED
          BY <1>1, <5>1, <5>2
      <4>2. \A d \in D : d <= row.last
        BY <1>2, <3>2 DEF StreakOK
      <4>3. QED
        BY <1>1, <4>1, <4>2
    <3>3. QED
      BY <3>1, <3>2
  <2>2. ASSUME NEW d \in row.days
        PROVE  new.days \cap RunOf(new.days \cup new.skips, d) = row.days \cap RunOf(D, d)
    <3>1. d \in Nat /\ d < today
      BY <1>1, <2>1
    <3>2. RunOf(D \cup {today}, d) = RunOf(D, d)
      <4>1. D \in SUBSET Nat
        BY <1>1
      <4> HIDE DEF D
      <4>2. QED
        BY <1>1, <3>1, <4>1, RunBefore
    <3>3. today \notin RunOf(D, d)
      BY <1>1, <3>1 DEF RunOf
    <3>4. QED
      BY <1>2, <1>6, <3>2, <3>3
  <2>3. Reached(new, n) <=>
          \/ \E d \in row.days : Cardinality(new.days \cap RunOf(new.days \cup new.skips, d)) >= n
          \/ Cardinality(new.days \cap RunOf(new.days \cup new.skips, today)) >= n
    BY <1>2, ReachedIs
  <2>4. QED
    BY <1>5, <2>2, <2>3, ReachedIs DEF new
<1>9. QED
  BY <1>7, <1>8

\* A skip reaches nothing.
LEMMA ReachedBySkip ==
  ASSUME NEW row \in UserRow, StreakOK(row), ~row.unclear, NEW today \in Date, NEW n,
         row.last # None => row.last < today,
         NEW new, new.days = row.days, new.skips = row.skips \cup {today}
  PROVE  Reached(new, n) <=> Reached(row, n)
<1> DEFINE D == row.days \cup row.skips
<1>1. /\ row.last \in Date \cup {None} /\ row.days \subseteq Date /\ row.skips \subseteq Date
      /\ today \in Nat /\ D \subseteq Nat /\ None \notin Date /\ Date \subseteq Nat
  BY DateNat DEF UserRow
<1>2. \A d \in D : d < today
  <2>1. CASE row.last = None
    BY <2>1 DEF StreakOK
  <2>2. CASE row.last # None
    <3>1. row.last \in Nat /\ \A d \in D : d <= row.last
      BY <1>1, <2>2 DEF StreakOK
    <3>2. QED
      BY <1>1, <2>2, <3>1
  <2>3. QED
    BY <2>1, <2>2
<1>3. ASSUME NEW d \in row.days
      PROVE  RunOf(new.days \cup new.skips, d) = RunOf(D, d)
  <2>1. d \in Nat /\ d < today /\ D \in SUBSET Nat
    BY <1>1, <1>2
  <2>2. new.days \cup new.skips = D \cup {today}
    OBVIOUS
  <2> HIDE DEF D
  <2>3. QED
    BY <1>1, <2>1, <2>2, RunBefore
<1>4. QED
  BY <1>3, ReachedIs

\* The achievements that were always active.
Lasting == Achievement \ changed

\* won are, for the achievements L, the awards of a user with this row who has
\* had m payments at a time.
AwardsBy(L, row, won, m) ==
  \A a \in L :
    /\ Condition[a].type = "donations_count" =>
         won[a] = IF m > 0 /\ m >= Condition[a].value THEN 1 ELSE 0
    /\ (Condition[a].type = "streak_days" /\ ~row.unclear) =>
         won[a] = IF Reached(row, Condition[a].value) THEN 1 ELSE 0

Peak(m, row) == IF m >= row.gifts THEN m ELSE row.gifts

\* The row of a user who has given G, and the awards for m payments at a time.
Right(L, row, won, m, G) == row.gifts = Cardinality(G) /\ AwardsBy(L, row, won, m)

LEMMA ConditionIs ==
  \A a \in Achievement : /\ Condition[a].type \in {"streak_days", "donations_count"}
                         /\ Condition[a].value \in Int
  BY EngagementAssumption

LEMMA GiftsAre ==
  \A G \in SUBSET Payment : IsFiniteSet(G) /\ Cardinality(G) \in Nat
  BY EngagementAssumption, FS_Subset, FS_CardinalityType

\* check_and_award_achievements makes the awards right, those that a merge has
\* left behind included.
LEMMA AwardedRight ==
  ASSUME NEW row \in UserRow, StreakOK(row), NEW today \in Date, NEW m \in Nat,
         NEW G \in SUBSET Payment, NEW p \in Payment \ G,
         NEW won \in [Achievement -> Nat], NEW seen, NEW k \in {m, Peak(m, row)},
         NEW L \in SUBSET Achievement, L \subseteq active, Right(L, row, won, k, G)
  PROVE  Right(L, Posted(row, today), Awarded(seen, Posted(row, today), won),
               Peak(m, Posted(row, today)), G \cup {p})
<1> DEFINE new == Posted(row, today)
           aw == Awarded(seen, new, won)
<1>1. new \in UserRow /\ new.gifts = row.gifts + 1 /\ row.gifts \in Nat
      /\ (~new.unclear => ~row.unclear)
  BY PostedOK DEF Posted, UserRow
<1>2. Cardinality(G \cup {p}) = Cardinality(G) + 1
  <2>1. IsFiniteSet(G)
    BY GiftsAre
  <2>2. QED
    BY <2>1, FS_AddElement
<1>3. new.gifts = Cardinality(G \cup {p})
  BY <1>1, <1>2 DEF Right
<1>4. ASSUME NEW a \in L
      PROVE  aw[a] = IF won[a] = 0 /\ Qualifies(a, new) THEN 1 ELSE won[a]
  <2>1. a \in active /\ a \in Achievement
    OBVIOUS
  <2> HIDE DEF new
  <2>2. QED
    BY <2>1 DEF Awarded, Statistics
<1>5. ASSUME NEW a \in L, Condition[a].type = "donations_count"
      PROVE  aw[a] = IF Peak(m, new) > 0 /\ Peak(m, new) >= Condition[a].value THEN 1 ELSE 0
  <2> DEFINE v == Condition[a].value
  <2>1. v \in Int
    BY ConditionIs
  <2>2. won[a] = IF k > 0 /\ k >= v THEN 1 ELSE 0
    BY <1>5 DEF Right, AwardsBy
  <2>3. Qualifies(a, new) <=> new.gifts >= v
    BY <1>5 DEF Qualifies
  <2> HIDE DEF new, aw, v
  <2>4. aw[a] = IF Peak(m, new) > 0 /\ Peak(m, new) >= v THEN 1 ELSE 0
    BY <1>1, <1>4, <2>1, <2>2, <2>3 DEF Peak
  <2>5. QED
    BY <2>4 DEF v
<1>6. ASSUME NEW a \in L, Condition[a].type = "streak_days", ~new.unclear
      PROVE  aw[a] = IF Reached(new, Condition[a].value) THEN 1 ELSE 0
  <2> DEFINE v == Condition[a].value
  <2>1. v \in Int
    BY ConditionIs
  <2>2. won[a] = IF Reached(row, v) THEN 1 ELSE 0
    BY <1>1, <1>6 DEF Right, AwardsBy
  <2>3. Qualifies(a, new) <=> new.streak >= v
    BY <1>6 DEF Qualifies
  <2>4. Reached(new, v) <=> Reached(row, v) \/ new.streak >= v
    BY <1>6, <2>1, ReachedByPost
  <2> HIDE DEF new, aw, v
  <2>5. aw[a] = IF Reached(new, v) THEN 1 ELSE 0
    BY <1>4, <2>2, <2>3, <2>4
  <2>6. QED
    BY <2>5 DEF v
<1>7. AwardsBy(L, new, aw, Peak(m, new))
  BY <1>5, <1>6 DEF AwardsBy
<1>8. QED
  BY <1>3, <1>7 DEF Right

\* ... so does a skip, ...
LEMMA SkippedRight ==
  ASSUME NEW row \in UserRow, StreakOK(row), NEW today \in Date, NEW m, NEW G, NEW won,
         row.last # None => row.last < today,
         NEW new, new.days = row.days, new.skips = row.skips \cup {today},
         new.gifts = row.gifts, ~new.unclear => ~row.unclear,
         NEW L, Right(L, row, won, m, G)
  PROVE  Right(L, new, won, m, G)
<1>1. ASSUME ~new.unclear, NEW n
      PROVE  Reached(new, n) <=> Reached(row, n)
  BY <1>1, ReachedBySkip
<1>2. AwardsBy(L, new, won, m)
  BY <1>1 DEF AwardsBy, Right
<1>3. QED
  BY <1>2 DEF Right

\* ... and a refund, which takes a gift and leaves the most there were, ...
LEMMA RefundedRight ==
  ASSUME NEW row, NEW m, NEW G \in SUBSET Payment, NEW p \in G, NEW won,
         NEW new, new.days = row.days, new.skips = row.skips, new.unclear = row.unclear,
         new.gifts = IF row.gifts = 0 THEN 0 ELSE row.gifts - 1,
         NEW L, Right(L, row, won, m, G)
  PROVE  Right(L, new, won, m, G \ {p})
<1>1. IsFiniteSet(G) /\ Cardinality(G) \in Nat
  BY GiftsAre
<1>2. Cardinality(G \ {p}) = Cardinality(G) - 1
  BY <1>1, FS_RemoveElement
<1>3. Cardinality(G) # 0
  BY <1>1, FS_EmptySet
<1>4. new.gifts = Cardinality(G \ {p})
  BY <1>1, <1>2, <1>3 DEF Right
<1>5. \A n : Reached(new, n) <=> Reached(row, n)
  BY ReachedIs
<1>6. AwardsBy(L, new, won, m)
  BY <1>5 DEF AwardsBy, Right
<1>7. QED
  BY <1>4, <1>6 DEF Right

\* ... and a merge, which brings gifts, and days that count for no streak.
LEMMA MergedRight ==
  ASSUME user \in [User -> UserRow], NEW s \in User, NEW t \in User, StreakOK(user[s]),
         NEW m, NEW G \in SUBSET Payment, NEW H \in SUBSET Payment, G \cap H = {}, NEW won,
         user[s].gifts = Cardinality(H), NEW L, Right(L, user[t], won, m, G)
  PROVE  Right(L, MergedRow(s, t), won, m, G \cup H)
<1> DEFINE new == MergedRow(s, t)
           row == user[t]
<1>1. /\ new.gifts = user[t].gifts + user[s].gifts
      /\ new.unclear = (user[t].unclear \/ user[s].last # None)
      /\ new.days = user[t].days \cup user[s].days /\ new.skips = user[t].skips \cup user[s].skips
  BY DEF MergedRow
<1>2. Cardinality(G \cup H) = Cardinality(G) + Cardinality(H)
  <2>1. IsFiniteSet(G) /\ IsFiniteSet(H) /\ Cardinality(G) \in Nat /\ Cardinality(H) \in Nat
    BY GiftsAre
  <2>2. Cardinality(G \cup H) = Cardinality(G) + Cardinality(H) - Cardinality(G \cap H)
    BY <2>1, FS_Union
  <2>3. Cardinality(G \cap H) = 0
    BY FS_EmptySet
  <2>4. QED
    BY <2>1, <2>2, <2>3
<1>3. ASSUME ~new.unclear, NEW n
      PROVE  ~row.unclear /\ (Reached(new, n) <=> Reached(row, n))
  <2>1. user[s].days = {} /\ user[s].skips = {} /\ ~row.unclear
    BY <1>1, <1>3 DEF StreakOK
  <2>2. new.days = row.days /\ new.skips = row.skips
    BY <1>1, <2>1
  <2> HIDE DEF new, row
  <2>3. QED
    BY <2>1, <2>2, ReachedIs
<1>4. AwardsBy(L, row, won, m) /\ row.gifts = Cardinality(G)
  BY DEF Right
<1> HIDE DEF new, row
<1>5. AwardsBy(L, new, won, m)
  BY <1>3, <1>4 DEF AwardsBy
<1>6. new.gifts = Cardinality(G \cup H)
  BY <1>1, <1>2, <1>4 DEF row
<1>7. QED
  BY <1>5, <1>6 DEF Right, new

\* What poster b has posted for user u.
DoneOf(b, u) == {p \in poster[b].done : payment[p].owner = u}

\* A poster has the rows of those it posts for, and nobody else has them.
Locks ==
  \A b \in Poster :
    /\ poster[b].in \in poster[b].todo \cup {None}
    /\ poster[b].todo \cap poster[b].done = {}
    /\ \A p \in poster[b].done : payment[p].owner \in DOMAIN poster[b].row
    /\ \A o \in Poster \ {b} : DOMAIN poster[b].row \cap DOMAIN poster[o].row = {}

\* The rows are right, for what is committed ...
Settled(u) == Right(Lasting, user[u], earned[u], most[u], Given(u))

\* ... and, where a poster has put them aside, for what will be.
Pending(b, u) == Right(Lasting, poster[b].row[u], poster[b].won[u],
                       Peak(most[u], poster[b].row[u]), Given(u) \cup DoneOf(b, u))

AwardsInv ==
  /\ Lasting \subseteq active
  /\ Locks
  /\ \A u \in User \ merged : Settled(u)
  /\ \A b \in Poster : \A u \in DOMAIN poster[b].row \ merged : Pending(b, u)

LEMMA AwardsInit == Init => AwardsInv
<1> SUFFICES ASSUME Init PROVE AwardsInv
  OBVIOUS
<1>1. \A b \in Poster : /\ poster[b].in = None /\ poster[b].todo = {} /\ poster[b].done = {}
                        /\ DOMAIN poster[b].row = {}
  BY NothingWritten DEF Init, IdlePoster
<1>2. Locks
  BY <1>1 DEF Locks
<1>3. ASSUME NEW u \in User
      PROVE  Settled(u)
  <2>1. user[u] = NewUser /\ most[u] = 0 /\ Given(u) = {}
    BY <1>3 DEF Init, Given, NoPayment
  <2>2. \A a \in Achievement : earned[u][a] = 0
    BY <1>3 DEF Init
  <2>3. NewUser.gifts = 0 /\ NewUser.days = {} /\ Cardinality({}) = 0
    BY FS_EmptySet DEF NewUser
  <2>4. \A n : ~Reached(NewUser, n)
    BY <2>3 DEF Reached
  <2>5. AwardsBy(Lasting, NewUser, earned[u], 0)
    <3>1. \A a \in Lasting : earned[u][a] = 0
      BY <2>2 DEF Lasting
    <3>2. QED
      BY <2>4, <3>1 DEF AwardsBy
  <2>6. QED
    BY <2>1, <2>3, <2>4, <2>5 DEF Settled, Right
<1>4. Lasting \subseteq active
  BY DEF Init, Lasting
<1>5. QED
  BY <1>1, <1>2, <1>3, <1>4 DEF AwardsInv

\* What the awards of user u depend on is as it was.
SameUser(u) == /\ user'[u] = user[u] /\ earned'[u] = earned[u] /\ most'[u] = most[u]
               /\ Given(u)' = Given(u) /\ changed' = changed

\* The posters' part, when poster b is as it was or has nothing.
LEMMA LocksSame ==
  ASSUME Locks, \A b \in Poster :
           \/ poster'[b] = poster[b]
           \/ /\ poster'[b].in \in poster'[b].todo \cup {None}
              /\ poster'[b].done = poster[b].done /\ poster'[b].row = poster[b].row
              /\ poster'[b].todo \cap poster'[b].done = {}
           \/ poster'[b] = IdlePoster,
         \A b \in Poster : \A p \in poster[b].done : payment'[p].owner = payment[p].owner
  PROVE  Locks'
<1>1. /\ DOMAIN IdlePoster.row = {} /\ IdlePoster.done = {} /\ IdlePoster.todo = {}
      /\ IdlePoster.in = None
  BY NothingWritten DEF IdlePoster
<1>2. \A b \in Poster : DOMAIN poster'[b].row \in {{}, DOMAIN poster[b].row}
  BY <1>1
<1>3. \A b \in Poster : /\ poster'[b].in \in poster'[b].todo \cup {None}
                        /\ poster'[b].todo \cap poster'[b].done = {}
  BY <1>1 DEF Locks
<1>4. \A b \in Poster : \A p \in poster'[b].done : payment'[p].owner \in DOMAIN poster'[b].row
  BY <1>1 DEF Locks
<1>5. \A b \in Poster : \A o \in Poster \ {b} : DOMAIN poster'[b].row \cap DOMAIN poster'[o].row = {}
  BY <1>2 DEF Locks
<1>6. QED
  BY <1>3, <1>4, <1>5 DEF Locks

LEMMA SettledSame ==
  ASSUME NEW u \in User, Settled(u), SameUser(u)
  PROVE  Settled(u)'
  BY DEF Settled, SameUser, Lasting

\* What poster b has put aside for u is right while nobody else touches u.
LEMMA PendingSame ==
  ASSUME NEW b \in Poster, NEW u \in User, Pending(b, u),
         most'[u] = most[u], Given(u)' = Given(u), changed' = changed,
         poster'[b].row[u] = poster[b].row[u], poster'[b].won[u] = poster[b].won[u],
         DoneOf(b, u)' = DoneOf(b, u)
  PROVE  Pending(b, u)'
  BY DEF Pending, Lasting

\* The posters are as they were, up to what they are still to post, or idle.
Posters ==
  \A b \in Poster :
    \/ poster'[b] = poster[b]
    \/ /\ poster'[b].in \in poster'[b].todo \cup {None}
       /\ poster'[b].done = poster[b].done /\ poster'[b].row = poster[b].row
       /\ poster'[b].won = poster[b].won
       /\ poster'[b].todo \cap poster'[b].done = {}
    \/ poster'[b] = IdlePoster

\* Payments keep their owner.
OwnersStay ==
  \A p \in Payment : payment[p].kind # "none" => payment'[p].owner = payment[p].owner

LEMMA DoneIs ==
  ASSUME Inv, NEW b \in Poster
  PROVE  \A p \in poster[b].done : /\ p \in Payment /\ payment[p].kind # "none"
                                   /\ payment[p].status = "pending" /\ payment[p].owner \in User
<1>1. poster[b].done \subseteq Payment
  BY DEF Inv, Columns, PosterState
<1>2. QED
  BY <1>1 DEF Inv, TakenByOne, Taken, Owned

LEMMA DoneSame ==
  ASSUME Inv, OwnersStay, NEW b \in Poster, NEW u, poster'[b].done = poster[b].done
  PROVE  DoneOf(b, u)' = DoneOf(b, u)
<1>1. \A p \in poster[b].done : payment'[p].owner = payment[p].owner
  BY DoneIs DEF OwnersStay
<1>2. QED
  BY <1>1 DEF DoneOf

LEMMA LocksStay ==
  ASSUME Inv, Locks, OwnersStay, Posters
  PROVE  Locks'
<1>1. \A b \in Poster : \A p \in poster[b].done : payment'[p].owner = payment[p].owner
  BY DoneIs DEF OwnersStay
<1>2. QED
  BY <1>1, LocksSame DEF Posters

\* Posters that stay as they are keep what they have put aside for u, if nothing
\* else happens to u.
LEMMA PendingStays ==
  ASSUME Inv, OwnersStay, Posters, changed' = changed,
         NEW b \in Poster, NEW u \in User, u \in DOMAIN poster[b].row => Pending(b, u),
         u \in DOMAIN poster[b].row => most'[u] = most[u] /\ Given(u)' = Given(u)
  PROVE  u \in DOMAIN poster'[b].row => Pending(b, u)'
<1>1. SUFFICES ASSUME u \in DOMAIN poster'[b].row
               PROVE  Pending(b, u)'
  OBVIOUS
<1>2. DOMAIN IdlePoster.row = {}
  BY NothingWritten DEF IdlePoster
<1>3. /\ poster'[b].done = poster[b].done /\ poster'[b].row = poster[b].row
      /\ poster'[b].won = poster[b].won
  BY <1>1, <1>2 DEF Posters
<1>4. DoneOf(b, u)' = DoneOf(b, u)
  BY <1>3, DoneSame
<1>5. QED
  BY <1>1, <1>3, <1>4, PendingSame

\* A step that posts, gives back and awards nothing.
LEMMA Quiet ==
  ASSUME Inv, AwardsInv, OwnersStay, Posters,
         UNCHANGED <<user, earned, most, changed, active, merged>>,
         \A p \in Payment : payment'[p].status = "success" <=> payment[p].status = "success"
  PROVE  AwardsInv'
<1>1. ASSUME NEW u \in User
      PROVE  Given(u)' = Given(u)
  <2>1. ASSUME NEW p \in Payment, payment[p].status = "success"
        PROVE  payment'[p].owner = payment[p].owner
    BY <2>1 DEF Inv, Owned, OwnersStay
  <2>2. QED
    BY <2>1 DEF Given
<1>2. Lasting' \subseteq active'
  BY DEF AwardsInv, Lasting
<1>3. Locks'
  BY LocksStay DEF AwardsInv
<1>4. \A u \in User \ merged : Settled(u)'
  BY <1>1, SettledSame DEF AwardsInv, SameUser
<1>5. ASSUME NEW b \in Poster, NEW u \in DOMAIN poster'[b].row \ merged
      PROVE  Pending(b, u)'
  <2>1. u \in DOMAIN poster[b].row
    <3>1. DOMAIN IdlePoster.row = {}
      BY NothingWritten DEF IdlePoster
    <3>2. QED
      BY <3>1 DEF Posters
  <2>2. u \in User
    BY <2>1, MapsAre DEF Inv, Columns, PosterState
  <2>3. QED
    BY <1>1, <2>1, <2>2, PendingStays DEF AwardsInv
<1>6. QED
  BY <1>2, <1>3, <1>4, <1>5 DEF AwardsInv

\* Such are all but these.
Loud ==
  \/ \E p \in Payment : Refund(p)
  \/ \E b \in Poster : Post(b) \/ CommitPost(b)
  \/ \E u \in User : Skip(u)
  \/ \E s \in Guest, t \in User : Merge(s, t)
  \/ \E a \in Achievement : SetAchievement(a)

LEMMA QuietStep ==
  ASSUME Inv, AwardsInv, [Next]_vars, ~Loud
  PROVE  AwardsInv'
<1> DEFINE Successes ==
      \A p \in Payment : payment'[p].status = "success" <=> payment[p].status = "success"
<1>0. payment \in [Payment -> PaymentRow] /\ poster \in [Poster -> PosterState]
  BY DEF Inv, Columns
<1>a. payment' = payment => OwnersStay /\ Successes
  BY DEF OwnersStay
<1>b. poster' = poster => Posters
  BY DEF Posters
<1>1. ASSUME NEW k \in Creator, NEW u \in User, NEW kind \in Source, Begin(k, u, kind)
      PROVE  AwardsInv'
  BY <1>a, <1>b, <1>1, Quiet DEF Begin
<1>2. ASSUME NEW k \in Creator, NEW p \in Payment, CommitDonation(k, p)
      PROVE  AwardsInv'
  <2>1. payment[p].kind = "none" /\ payment[p].status = "pending" /\ payment'[p].status = "pending"
        /\ \A q \in Payment \ {p} : payment'[q] = payment[q]
    BY <1>0, <1>2 DEF CommitDonation, NoPayment
  <2>2. OwnersStay /\ Successes
    BY <2>1 DEF OwnersStay
  <2>3. QED
    BY <1>b, <1>2, <2>2, Quiet DEF CommitDonation
<1>3. ASSUME NEW k \in Creator, AbortDonation(k)
      PROVE  AwardsInv'
  BY <1>a, <1>b, <1>3, Quiet DEF AbortDonation
<1>4. ASSUME NEW p \in Payment, NEW u \in User, Charge(p, u)
      PROVE  AwardsInv'
  <2>1. payment[p].kind = "none" /\ payment[p].status = "pending" /\ payment'[p].status = "pending"
        /\ \A q \in Payment \ {p} : payment'[q] = payment[q]
    BY <1>0, <1>4 DEF Charge, NoPayment
  <2>2. OwnersStay /\ Successes
    BY <2>1 DEF OwnersStay
  <2>3. QED
    BY <1>b, <1>4, <2>2, Quiet DEF Charge
<1>5. ASSUME NEW p \in Payment, Fail(p)
      PROVE  AwardsInv'
  <2>1. payment[p].status = "pending" /\ payment'[p].status = "failed"
        /\ payment'[p].owner = payment[p].owner
        /\ \A q \in Payment \ {p} : payment'[q] = payment[q]
    BY <1>0, <1>5 DEF Fail, PaymentRow
  <2>2. OwnersStay /\ Successes
    BY <2>1 DEF OwnersStay
  <2>3. QED
    BY <1>b, <1>5, <2>2, Quiet DEF Fail
<1>6. ASSUME NEW b \in Poster, NEW P \in SUBSET Payment, NEW p \in Payment, BeginPost(b, P, p)
      PROVE  AwardsInv'
  <2>1. /\ poster'[b].in = p /\ poster'[b].todo = P /\ p \in P
        /\ poster'[b].done = poster[b].done /\ poster'[b].row = poster[b].row
        /\ poster'[b].won = poster[b].won /\ poster[b].done = {}
        /\ \A o \in Poster \ {b} : poster'[o] = poster[o]
    <3>1. poster[b].done = {} /\ p \in P
      <4>1. poster[b] = IdlePoster /\ p \in P
        BY <1>6 DEF BeginPost
      <4>2. IdlePoster.done = {}
        BY DEF IdlePoster
      <4>3. QED
        BY <4>1, <4>2
    <3>2. poster' = [poster EXCEPT ![b].todo = P, ![b].in = p, ![b].today = Today]
      BY <1>6 DEF BeginPost
    <3>3. /\ poster'[b].in = p /\ poster'[b].todo = P
          /\ poster'[b].done = poster[b].done /\ poster'[b].row = poster[b].row
          /\ poster'[b].won = poster[b].won
          /\ \A o \in Poster \ {b} : poster'[o] = poster[o]
      BY <1>0, <3>2 DEF PosterState
    <3>4. QED
      BY <3>1, <3>3
  <2>2. Posters
    BY <2>1 DEF Posters
  <2>3. QED
    BY <1>a, <1>6, <2>2, Quiet DEF BeginPost
<1>7. ASSUME NEW b \in Poster, NEW p \in Payment, ReadDate(b, p)
      PROVE  AwardsInv'
  <2>1. /\ poster'[b].in = p /\ poster'[b].todo = poster[b].todo /\ p \in poster[b].todo
        /\ poster'[b].done = poster[b].done /\ poster'[b].row = poster[b].row
        /\ poster'[b].won = poster[b].won /\ poster[b].todo \cap poster[b].done = {}
        /\ \A o \in Poster \ {b} : poster'[o] = poster[o]
    BY <1>0, <1>7 DEF ReadDate, PosterState, AwardsInv, Locks
  <2>2. Posters
    BY <2>1 DEF Posters
  <2>3. QED
    BY <1>a, <1>7, <2>2, Quiet DEF ReadDate
<1>8. ASSUME NEW b \in Poster, AbortPost(b)
      PROVE  AwardsInv'
  <2>1. Posters
    BY <1>0, <1>8 DEF AbortPost, Posters
  <2>2. QED
    BY <1>a, <1>8, <2>1, Quiet DEF AbortPost
<1>9. ASSUME Tick \/ UNCHANGED vars
      PROVE  AwardsInv'
  BY <1>a, <1>b, <1>9, Quiet DEF Tick, vars
<1>10. QED
  BY <1>1, <1>2, <1>3, <1>4, <1>5, <1>6, <1>7, <1>8, <1>9
     DEF Next, Loud, BeginDonation, BeginLink, Source

\* An achievement that is switched off was not always active.
LEMMA SwitchStep ==
  ASSUME Inv, AwardsInv, NEW a \in Achievement, SetAchievement(a)
  PROVE  AwardsInv'
<1>1. Lasting' \subseteq Lasting /\ Lasting' \subseteq active'
  BY DEF SetAchievement, AwardsInv, Lasting
<1>2. \A row, won, m, G : Right(Lasting, row, won, m, G) => Right(Lasting', row, won, m, G)
  BY <1>1 DEF Right, AwardsBy
<1>3. /\ user' = user /\ earned' = earned /\ most' = most /\ payment' = payment /\ poster' = poster
      /\ merged' = merged
  BY DEF SetAchievement
<1>4. \A u : Given(u)' = Given(u)
  BY <1>3 DEF Given
<1>5. \A b \in Poster : \A u : DoneOf(b, u)' = DoneOf(b, u)
  BY <1>3 DEF DoneOf
<1>6. \A u \in User \ merged : Settled(u)'
  BY <1>2, <1>3, <1>4 DEF Settled, AwardsInv
<1>7. \A b \in Poster : \A u \in DOMAIN poster'[b].row \ merged : Pending(b, u)'
  BY <1>2, <1>3, <1>4, <1>5 DEF Pending, AwardsInv
<1>8. Locks'
  BY <1>3 DEF AwardsInv, Locks
<1>9. QED
  BY <1>1, <1>3, <1>6, <1>7, <1>8 DEF AwardsInv

\* A refund or a skip changes the row of a user whom nobody has locked.
LEMMA FreeStep ==
  ASSUME Inv, AwardsInv, NEW u \in User, Free(u), OwnersStay,
         UNCHANGED <<earned, most, changed, active, poster, merged>>,
         \A v \in User \ {u} : user'[v] = user[v] /\ Given(v)' = Given(v),
         u \notin merged => Settled(u)'
  PROVE  AwardsInv'
<1>1. Lasting' \subseteq active'
  BY DEF AwardsInv, Lasting
<1>2. Posters
  BY DEF Posters
<1>3. Locks'
  BY <1>2, LocksStay DEF AwardsInv
<1>4. \A v \in User \ (merged \cup {u}) : Settled(v)'
  BY SettledSame DEF AwardsInv, SameUser
<1>5. ASSUME NEW b \in Poster, NEW v \in DOMAIN poster'[b].row \ merged
      PROVE  Pending(b, v)'
  <2>1. v \in DOMAIN poster[b].row /\ v # u
    BY DEF Free, LockedBy
  <2>2. v \in User
    BY <2>1, MapsAre DEF Inv, Columns, PosterState
  <2>3. QED
    BY <1>2, <2>1, <2>2, PendingStays DEF AwardsInv
<1>6. QED
  BY <1>1, <1>3, <1>4, <1>5 DEF AwardsInv

LEMMA RefundStep ==
  ASSUME Inv, AwardsInv, NEW p \in Payment, NEW u \in User, payment[p].owner = u, Refund(p)
  PROVE  AwardsInv'
<1> DEFINE G == Given(u)
           old == user[u]
           new == user'[u]
<1>1. /\ payment \in [Payment -> PaymentRow] /\ user \in [User -> UserRow]
      /\ most \in [User -> Nat] /\ payment[p].status = "success" /\ Free(u)
  BY DEF Inv, Columns, Owned, Refund
<1>2. /\ payment'[p].status = "refunded" /\ payment'[p].owner = payment[p].owner
      /\ \A q \in Payment \ {p} : payment'[q] = payment[q]
  BY <1>1 DEF Refund, PaymentRow
<1>3. user' = [user EXCEPT ![u].gifts = IF @ = 0 THEN 0 ELSE @ - 1]
  BY DEF Refund
<1>4. /\ \A v \in User \ {u} : user'[v] = user[v]
      /\ new.days = old.days /\ new.skips = old.skips /\ new.unclear = old.unclear
      /\ new.gifts = (IF old.gifts = 0 THEN 0 ELSE old.gifts - 1)
      /\ old.gifts \in Nat
  <2>1. user[u] \in UserRow
    BY <1>1
  <2>2. user'[u] = [user[u] EXCEPT !.gifts = IF @ = 0 THEN 0 ELSE @ - 1]
    BY <1>1, <1>3
  <2>3. \A v \in User \ {u} : user'[v] = user[v]
    BY <1>1, <1>3
  <2>4. QED
    BY <2>1, <2>2, <2>3 DEF UserRow
<1>5. p \in G /\ G \in SUBSET Payment /\ Given(u)' = G \ {p}
      /\ \A v \in User \ {u} : Given(v)' = Given(v)
  <2>1. \A v : \A q \in Payment : q \in Given(v)' <=> q \in Given(v) /\ q # p
    BY <1>1, <1>2 DEF Given
  <2>2. \A v \in User \ {u} : p \notin Given(v)
    BY DEF Given
  <2>3. \A v : Given(v) \subseteq Payment /\ Given(v)' \subseteq Payment
    BY DEF Given
  <2>4. p \in G
    BY <1>1 DEF Given
  <2>5. ASSUME NEW v \in User \ {u}
        PROVE  Given(v)' = Given(v)
    BY <2>1, <2>2, <2>3
  <2>6. Given(u)' = Given(u) \ {p}
    BY <2>1, <2>3
  <2>7. QED
    BY <2>3, <2>4, <2>5, <2>6
<1>6. OwnersStay
  BY <1>2 DEF OwnersStay
<1>7. UNCHANGED <<earned, most, changed, active, poster, merged>>
  BY DEF Refund
<1>9. ASSUME u \notin merged
      PROVE  Settled(u)'
  <2>1. Right(Lasting, old, earned[u], most[u], G)
    BY <1>9 DEF AwardsInv, Settled
  <2> HIDE DEF G, old, new
  <2>2. Right(Lasting, new, earned[u], most[u], G \ {p})
    BY <1>4, <1>5, <2>1, RefundedRight
  <2>3. Lasting' = Lasting
    BY <1>7 DEF Lasting
  <2>4. QED
    BY <1>5, <1>7, <2>2, <2>3 DEF Settled, new
<1>10. QED
  BY <1>1, <1>4, <1>5, <1>6, <1>7, <1>9, FreeStep

LEMMA SkipStep ==
  ASSUME Inv, AwardsInv, NEW u \in User, Skip(u)
  PROVE  AwardsInv'
<1> DEFINE old == user[u]
           new == user'[u]
<1>1. /\ user \in [User -> UserRow] /\ Free(u) /\ u \notin merged /\ old \in UserRow /\ StreakOK(old)
      /\ Today \in Date /\ (old.last # None => old.last < Today)
  BY TodayIs DEF Inv, Columns, Skip, RowsRight, RowOK, RowBy
<1>2. /\ \A v \in User \ {u} : user'[v] = user[v]
      /\ new.days = old.days /\ new.skips = old.skips \cup {Today} /\ new.gifts = old.gifts
      /\ new.unclear = (old.unclear \/ old.last \notin {None, Today - 1})
  BY <1>1 DEF Skip, UserRow
<1>3. UNCHANGED <<earned, most, changed, active, poster, payment, merged>>
  BY DEF Skip
<1>4. OwnersStay /\ \A v : Given(v)' = Given(v)
  BY <1>3 DEF OwnersStay, Given
<1>5. Settled(u)'
  <2>1. Right(Lasting, old, earned[u], most[u], Given(u))
    BY <1>1 DEF AwardsInv, Settled
  <2>2. ~new.unclear => ~old.unclear
    BY <1>2
  <2> HIDE DEF old, new
  <2>3. Right(Lasting, new, earned[u], most[u], Given(u))
    BY <1>1, <1>2, <2>1, <2>2, SkippedRight
  <2>4. Lasting' = Lasting
    BY <1>3 DEF Lasting
  <2>5. QED
    BY <1>2, <1>3, <1>4, <2>1, <2>3, <2>4 DEF Settled, new
<1>6. QED
  BY <1>1, <1>2, <1>3, <1>4, <1>5, FreeStep

\* A posting writes one more row and its awards, for whoever the payment is of.
LEMMA PostWrites ==
  ASSUME Inv, Locks, NEW b \in Poster, Post(b)
  PROVE  LET q    == poster[b]
             u    == payment[q.in].owner
             old  == IF u \in DOMAIN q.row THEN q.row[u] ELSE user[u]
             won  == IF u \in DOMAIN q.row THEN q.won[u] ELSE earned[u]
             seen == IF u \in DOMAIN q.row THEN q.before[u] ELSE user[u]
         IN  /\ q.in \in Payment /\ q.in \in q.todo /\ q.today \in Date
             /\ u \in User /\ payment[q.in].status = "pending"
             /\ \A o \in Poster \ {b} : u \notin DOMAIN poster[o].row
             /\ old \in UserRow /\ StreakOK(old) /\ won \in [Achievement -> Nat]
             /\ poster'[b].in = None /\ poster'[b].todo = q.todo \ {q.in}
             /\ poster'[b].done = q.done \cup {q.in}
             /\ poster'[b].row = With(q.row, u, Posted(old, q.today))
             /\ poster'[b].won = With(q.won, u, Awarded(seen, Posted(old, q.today), won))
             /\ \A o \in Poster \ {b} : poster'[o] = poster[o]
<1> DEFINE q    == poster[b]
           u    == payment[q.in].owner
           old  == IF u \in DOMAIN q.row THEN q.row[u] ELSE user[u]
           won  == IF u \in DOMAIN q.row THEN q.won[u] ELSE earned[u]
           seen == IF u \in DOMAIN q.row THEN q.before[u] ELSE user[u]
<1>1. /\ q \in PosterState /\ q.in # None /\ q.in \in q.todo
      /\ q.in \in Payment /\ q.today \in Date
      /\ q.row \in RowMap /\ q.won \in WonMap
  BY DEF Post, Inv, Columns, Locks, PosterState
<1>2. u \in User /\ payment[q.in].status = "pending"
  BY <1>1 DEF Inv, TakenByOne, Taken, Owned
<1>3. DOMAIN q.won = DOMAIN q.row
  BY DEF Inv, Owned
<1>4. old \in UserRow /\ StreakOK(old)
  BY <1>1, <1>2, MapsAre DEF Inv, Columns, RowsRight, RowOK, RowBy
<1>5. won \in [Achievement -> Nat]
  BY <1>1, <1>2, <1>3, MapsAre DEF Inv, Columns
<1>6. poster' = [poster EXCEPT ![b] =
         [todo |-> q.todo \ {q.in}, in |-> None, today |-> q.today,
          done |-> q.done \cup {q.in}, row |-> With(q.row, u, Posted(old, q.today)),
          won |-> With(q.won, u, Awarded(seen, Posted(old, q.today), won)),
          before |-> With(q.before, u, seen)]]
  BY DEF Post, LockedBy, With
<1>7. \A o \in Poster \ {b} : u \notin DOMAIN poster[o].row
  BY DEF Post, LockedBy
<1>8. poster \in [Poster -> PosterState]
  BY DEF Inv, Columns
<1> HIDE DEF u, old, won, seen
<1>9. /\ poster'[b].in = None /\ poster'[b].todo = q.todo \ {q.in}
      /\ poster'[b].done = q.done \cup {q.in}
      /\ poster'[b].row = With(q.row, u, Posted(old, q.today))
      /\ poster'[b].won = With(q.won, u, Awarded(seen, Posted(old, q.today), won))
      /\ \A o \in Poster \ {b} : poster'[o] = poster[o]
  BY <1>6, <1>8
<1>10. QED
  BY <1>1, <1>2, <1>4, <1>5, <1>7, <1>9 DEF u, old, won, seen

LEMMA PostStep ==
  ASSUME Inv, AwardsInv, NEW b \in Poster, NEW u \in User, payment[poster[b].in].owner = u, Post(b)
  PROVE  AwardsInv'
<1> DEFINE q   == poster[b]
           p   == q.in
           old == IF u \in DOMAIN q.row THEN q.row[u] ELSE user[u]
           won == IF u \in DOMAIN q.row THEN q.won[u] ELSE earned[u]
           new == Posted(old, q.today)
           G   == Given(u) \cup DoneOf(b, u)
<1>1. PICK seen :
        /\ p \in Payment /\ p \in q.todo /\ q.today \in Date
        /\ payment[p].status = "pending"
        /\ \A o \in Poster \ {b} : u \notin DOMAIN poster[o].row
        /\ old \in UserRow /\ StreakOK(old) /\ won \in [Achievement -> Nat]
        /\ poster'[b].in = None /\ poster'[b].todo = q.todo \ {p}
        /\ poster'[b].done = q.done \cup {p}
        /\ poster'[b].row = With(q.row, u, new)
        /\ poster'[b].won = With(q.won, u, Awarded(seen, new, won))
        /\ \A o \in Poster \ {b} : poster'[o] = poster[o]
  BY PostWrites DEF AwardsInv
<1>2. UNCHANGED <<user, earned, most, changed, active, payment, merged>>
  BY DEF Post
<1>3. Locks /\ \A v \in User \ merged : Settled(v)
  BY DEF AwardsInv
<1>4. OwnersStay /\ Lasting' = Lasting /\ \A v : Given(v)' = Given(v)
  BY <1>2 DEF OwnersStay, Lasting, Given
<1>5. ASSUME u \notin merged
      PROVE  \E k \in {most[u], Peak(most[u], old)} : Right(Lasting, old, won, k, G)
  <2>1. CASE u \in DOMAIN q.row
    BY <1>5, <2>1 DEF AwardsInv, Pending
  <2>2. CASE u \notin DOMAIN q.row
    <3>1. DoneOf(b, u) = {}
      BY <1>3, <2>2 DEF Locks, DoneOf
    <3>2. G = Given(u)
      BY <3>1
    <3>3. QED
      BY <1>3, <1>5, <2>2, <3>2 DEF Settled
  <2>3. QED
    BY <2>1, <2>2
<1>6. G \in SUBSET Payment /\ p \notin G
  <2>1. p \notin Given(u)
    BY <1>1 DEF Given
  <2>2. p \notin q.done
    BY <1>1, <1>3 DEF Locks
  <2>3. Given(u) \subseteq Payment /\ DoneOf(b, u) \subseteq q.done /\ q.done \subseteq Payment
    BY DoneIs DEF Given, DoneOf
  <2>4. QED
    BY <2>1, <2>2, <2>3
<1>7. ASSUME u \notin merged
      PROVE  Right(Lasting, new, Awarded(seen, new, won), Peak(most[u], new), G \cup {p})
  <2>0. PICK k \in {most[u], Peak(most[u], old)} : Right(Lasting, old, won, k, G)
    BY <1>5, <1>7
  <2>1. most[u] \in Nat /\ Lasting \in SUBSET Achievement /\ Lasting \subseteq active
    BY DEF Inv, Columns, AwardsInv, Lasting
  <2> HIDE DEF q, p, old, won, G
  <2>2. QED
    BY <1>1, <1>6, <2>0, <2>1, AwardedRight
<1>8. /\ DoneOf(b, u)' = DoneOf(b, u) \cup {p}
      /\ \A v \in User \ {u} : DoneOf(b, v)' = DoneOf(b, v)
      /\ \A o \in Poster \ {b} : \A v : DoneOf(o, v)' = DoneOf(o, v)
  BY <1>1, <1>2 DEF DoneOf
<1>w. /\ poster'[b].row[u] = new /\ poster'[b].won[u] = Awarded(seen, new, won)
      /\ DOMAIN poster'[b].row = DOMAIN q.row \cup {u}
      /\ \A v \in DOMAIN q.row \ {u} : poster'[b].row[v] = q.row[v]
      /\ \A v \in DOMAIN q.won \ {u} : poster'[b].won[v] = q.won[v]
  <2> DEFINE aw == Awarded(seen, new, won)
  <2>1. poster'[b].row = With(q.row, u, new) /\ poster'[b].won = With(q.won, u, aw)
    BY <1>1
  <2> HIDE DEF new, aw, q
  <2>2. /\ With(q.row, u, new)[u] = new
        /\ DOMAIN With(q.row, u, new) = DOMAIN q.row \cup {u}
        /\ \A v \in DOMAIN q.row \ {u} : With(q.row, u, new)[v] = q.row[v]
    BY DEF With
  <2>3. /\ With(q.won, u, aw)[u] = aw
        /\ \A v \in DOMAIN q.won \ {u} : With(q.won, u, aw)[v] = q.won[v]
    BY DEF With
  <2>4. QED
    BY <2>1, <2>2, <2>3 DEF aw
<1>d. \A o \in Poster : DOMAIN poster[o].row \subseteq User /\ DOMAIN poster[o].won = DOMAIN poster[o].row
  BY MapsAre DEF Inv, Columns, PosterState, Owned
<1>9. ASSUME u \notin merged
      PROVE  Pending(b, u)'
  <2>1. poster'[b].row[u] = new /\ poster'[b].won[u] = Awarded(seen, new, won)
    BY <1>w
  <2>2. Given(u)' \cup DoneOf(b, u)' = G \cup {p}
    BY <1>4, <1>8
  <2> HIDE DEF new, G
  <2>3. QED
    BY <1>2, <1>4, <1>7, <1>9, <2>1, <2>2 DEF Pending
<1>10. ASSUME NEW o \in Poster, NEW v \in DOMAIN poster'[o].row \ merged, o # b \/ v # u
       PROVE  Pending(o, v)'
  <2>1. v \in DOMAIN poster[o].row
    BY <1>1, <1>10, <1>w
  <2>2. v \in User /\ v \in DOMAIN poster[o].won
    BY <2>1, <1>d
  <2>3. poster'[o].row[v] = poster[o].row[v] /\ poster'[o].won[v] = poster[o].won[v]
    BY <1>1, <1>10, <1>w, <2>1, <2>2
  <2>4. DoneOf(o, v)' = DoneOf(o, v)
    BY <1>8, <1>10, <2>2
  <2>5. QED
    BY <1>2, <1>4, <2>1, <2>2, <2>3, <2>4, PendingSame DEF AwardsInv
<1>11. Locks'
  <2>1. DOMAIN poster'[b].row = DOMAIN q.row \cup {u}
    BY <1>w
  <2>2. \A o \in Poster : \A r \in Poster \ {o} : DOMAIN poster'[o].row \cap DOMAIN poster'[r].row = {}
    BY <1>1, <1>3, <2>1 DEF Locks
  <2>3. \A o \in Poster : \A r \in poster'[o].done : payment'[r].owner \in DOMAIN poster'[o].row
    BY <1>1, <1>2, <1>3, <2>1 DEF Locks
  <2>4. \A o \in Poster : /\ poster'[o].in \in poster'[o].todo \cup {None}
                          /\ poster'[o].todo \cap poster'[o].done = {}
    BY <1>1, <1>3 DEF Locks
  <2>5. QED
    BY <2>2, <2>3, <2>4 DEF Locks
<1>12. \A v \in User \ merged : Settled(v)'
  BY <1>2, <1>3, <1>4, SettledSame DEF SameUser
<1>13. \A o \in Poster : \A v \in DOMAIN poster'[o].row \ merged : Pending(o, v)'
  BY <1>9, <1>10
<1>14. Lasting' \subseteq active'
  BY <1>2, <1>4 DEF AwardsInv
<1>15. QED
  BY <1>2, <1>11, <1>12, <1>13, <1>14 DEF AwardsInv

\* A commit makes what was put aside the rows.
LEMMA CommitStep ==
  ASSUME Inv, AwardsInv, NEW b \in Poster, CommitPost(b)
  PROVE  AwardsInv'
<1> DEFINE q == poster[b]
<1>1. /\ payment \in [Payment -> PaymentRow] /\ poster \in [Poster -> PosterState]
      /\ most \in [User -> Nat] /\ q.done \subseteq Payment
  BY DEF Inv, Columns, PosterState
<1>2. \A p \in Payment : /\ payment'[p].owner = payment[p].owner
                         /\ payment'[p].status = IF p \in q.done THEN "success" ELSE payment[p].status
  <2>1. ASSUME NEW p \in Payment
        PROVE  payment'[p] = IF p \in q.done THEN [payment[p] EXCEPT !.status = "success"]
                                             ELSE payment[p]
    BY DEF CommitPost
  <2>2. QED
    BY <1>1, <2>1 DEF PaymentRow
<1>3. /\ \A u \in User : user'[u] = IF u \in DOMAIN q.row THEN q.row[u] ELSE user[u]
      /\ \A u \in User : earned'[u] = IF u \in DOMAIN q.row THEN q.won[u] ELSE earned[u]
      /\ \A u \in User : most'[u] = IF u \in DOMAIN q.row THEN Max({most[u], Cardinality(Given(u)')})
                                                         ELSE most[u]
      /\ poster' = [poster EXCEPT ![b] = IdlePoster]
      /\ UNCHANGED <<active, changed, merged>>
  BY DEF CommitPost, LockedBy
<1>4. ASSUME NEW u \in User
      PROVE  Given(u)' = Given(u) \cup DoneOf(b, u)
  <2>1. \A p \in Payment : p \in Given(u)' <=> p \in Given(u) \/ p \in DoneOf(b, u)
    BY <1>1, <1>2 DEF Given, DoneOf
  <2>2. Given(u)' \subseteq Payment /\ Given(u) \subseteq Payment /\ DoneOf(b, u) \subseteq Payment
    BY <1>1 DEF Given, DoneOf
  <2>3. QED
    BY <2>1, <2>2
<1>5. Locks /\ (\A u \in User \ merged : Settled(u)) /\ Lasting' = Lasting /\ Lasting' \subseteq active'
  BY <1>3 DEF AwardsInv, Lasting
<1>6. ASSUME NEW u \in User, u \notin DOMAIN q.row
      PROVE  Given(u)' = Given(u) /\ most'[u] = most[u] /\ user'[u] = user[u] /\ earned'[u] = earned[u]
  <2>1. DoneOf(b, u) = {}
    BY <1>5, <1>6 DEF Locks, DoneOf
  <2>2. Given(u)' = Given(u)
    BY <1>4, <2>1
  <2>3. QED
    BY <1>3, <1>6, <2>2
<1>7. ASSUME NEW u \in User \ merged, u \in DOMAIN q.row
      PROVE  Settled(u)'
  <2> DEFINE G == Given(u) \cup DoneOf(b, u)
             row == q.row[u]
  <2>1. Right(Lasting, row, q.won[u], Peak(most[u], row), G)
    BY <1>7 DEF AwardsInv, Pending
  <2>2. G \in SUBSET Payment
    BY <1>1 DEF Given, DoneOf
  <2>3. most[u] \in Nat /\ Cardinality(G) \in Nat
    <3> HIDE DEF G
    <3>1. QED
      BY <1>1, <2>2, GiftsAre
  <2>4. user'[u] = row /\ earned'[u] = q.won[u] /\ Given(u)' = G
        /\ most'[u] = Max({most[u], Cardinality(G)})
    BY <1>3, <1>4, <1>7
  <2> HIDE DEF G, row
  <2>5. row.gifts = Cardinality(G)
    BY <2>1 DEF Right
  <2>6. most'[u] = Peak(most[u], row)
    BY <2>3, <2>4, <2>5, MaxIsOne DEF Peak
  <2>7. QED
    BY <1>5, <2>1, <2>4, <2>6 DEF Settled
<1>8. \A u \in User \ merged : Settled(u)'
  BY <1>3, <1>5, <1>6, <1>7, SettledSame DEF SameUser
<1>9. OwnersStay /\ Posters
  BY <1>1, <1>2, <1>3 DEF OwnersStay, Posters
<1>10. ASSUME NEW o \in Poster, NEW u \in DOMAIN poster'[o].row \ merged
       PROVE  Pending(o, u)'
  <2>1. o # b /\ poster'[o] = poster[o] /\ u \in DOMAIN poster[o].row
    <3>1. poster'[b] = IdlePoster /\ DOMAIN IdlePoster.row = {}
      BY <1>1, <1>3, NothingWritten DEF IdlePoster
    <3>2. QED
      BY <1>1, <1>3, <3>1
  <2>2. u \notin DOMAIN q.row
    BY <1>5, <2>1 DEF Locks
  <2>3. u \in User
    BY <2>1, MapsAre DEF Inv, Columns, PosterState
  <2>4. Given(u)' = Given(u) /\ most'[u] = most[u]
    BY <1>6, <2>2, <2>3
  <2>5. QED
    BY <1>3, <1>9, <2>1, <2>3, <2>4, PendingStays DEF AwardsInv
<1>11. Locks'
  BY <1>5, <1>9, LocksStay
<1>12. QED
  BY <1>3, <1>5, <1>8, <1>10, <1>11 DEF AwardsInv

\* The target of a merge has what both have given; its awards follow later.
LEMMA MergeStep ==
  ASSUME Inv, AwardsInv, NEW s \in Guest, NEW t \in User, Merge(s, t)
  PROVE  AwardsInv'
<1> DEFINE G == Given(t)
           H == Given(s)
<1>1. /\ user \in [User -> UserRow] /\ s \in User /\ StreakOK(user[s])
      /\ s # t /\ s \notin merged /\ t \notin merged /\ Free(s) /\ Free(t)
      /\ user' = [user EXCEPT ![t] = MergedRow(s, t)] /\ merged' = merged \cup {s}
      /\ UNCHANGED <<earned, active, poster, most, changed>>
  BY EngagementAssumption DEF Inv, Columns, RowsRight, RowOK, RowBy, Merge
<1>2. \A p \in Payment :
        /\ payment'[p].status = payment[p].status
        /\ payment'[p].owner = IF payment[p].owner = s THEN t ELSE payment[p].owner
  BY MergeMoves DEF Inv
<1>3. Given(t)' = G \cup H /\ \A u \in User \ {s, t} : Given(u)' = Given(u)
  BY <1>1, <1>2 DEF Given
<1>4. \A b \in Poster, u \in User : DoneOf(b, u)' = DoneOf(b, u)
  <2>1. \A b \in Poster : \A p \in poster[b].done :
          p \in Payment /\ payment'[p].owner = payment[p].owner
    BY DoneIs, MergeMoves DEF Inv, Taken
  <2>2. QED
    BY <1>1, <2>1 DEF DoneOf
<1>5. Locks'
  <2>1. \A b \in Poster : \A p \in poster[b].done : payment'[p].owner = payment[p].owner
    BY DoneIs, MergeMoves DEF Inv, Taken
  <2>2. QED
    BY <1>1, <2>1 DEF AwardsInv, Locks
<1>6. Lasting' = Lasting /\ Lasting' \subseteq active'
  BY <1>1 DEF AwardsInv, Lasting
<1>7. Settled(t)'
  <2>1. Right(Lasting, user[t], earned[t], most[t], G) /\ user[s].gifts = Cardinality(H)
    BY <1>1 DEF AwardsInv, Settled, Right
  <2>2. G \in SUBSET Payment /\ H \in SUBSET Payment /\ G \cap H = {}
    BY <1>1 DEF Given
  <2> HIDE DEF G, H
  <2>3. Right(Lasting, MergedRow(s, t), earned[t], most[t], G \cup H)
    BY <1>1, <2>1, <2>2, MergedRight
  <2>4. user'[t] = MergedRow(s, t)
    BY <1>1
  <2>5. QED
    BY <1>1, <1>3, <1>6, <2>3, <2>4 DEF Settled
<1>8. ASSUME NEW u \in User \ merged', u # t
      PROVE  Settled(u)'
  <2>1. user'[u] = user[u] /\ Given(u)' = Given(u) /\ Settled(u)
    BY <1>1, <1>3, <1>8 DEF AwardsInv
  <2>2. QED
    BY <1>1, <2>1, SettledSame DEF SameUser
<1>9. ASSUME NEW b \in Poster, NEW u \in DOMAIN poster'[b].row \ merged'
      PROVE  Pending(b, u)'
  <2>1. u \in DOMAIN poster[b].row /\ u \notin {s, t} /\ u \notin merged
    BY <1>1 DEF Free, LockedBy
  <2>2. u \in User
    BY <2>1, MapsAre DEF Inv, Columns, PosterState
  <2>3. QED
    BY <1>1, <1>3, <1>4, <2>1, <2>2, PendingSame DEF AwardsInv
<1>10. QED
  BY <1>5, <1>6, <1>7, <1>8, <1>9 DEF AwardsInv

LEMMA AwardsStep == Inv /\ AwardsInv /\ [Next]_vars => AwardsInv'
<1> SUFFICES ASSUME Inv, AwardsInv, [Next]_vars PROVE AwardsInv'
  OBVIOUS
<1>1. ASSUME NEW p \in Payment, Refund(p)
      PROVE  AwardsInv'
  <2>1. payment[p].owner \in User
    BY <1>1 DEF Inv, Owned, Refund
  <2>2. QED
    BY <1>1, <2>1, RefundStep
<1>2. ASSUME NEW b \in Poster, Post(b)
      PROVE  AwardsInv'
  <2>1. payment[poster[b].in].owner \in User
    BY <1>2, PostWrites DEF AwardsInv
  <2>2. QED
    BY <1>2, <2>1, PostStep
<1>3. ASSUME NEW b \in Poster, CommitPost(b)
      PROVE  AwardsInv'
  BY <1>3, CommitStep
<1>4. ASSUME NEW u \in User, Skip(u)
      PROVE  AwardsInv'
  BY <1>4, SkipStep
<1>5. ASSUME NEW a \in Achievement, SetAchievement(a)
      PROVE  AwardsInv'
  BY <1>5, SwitchStep
<1>6. ASSUME NEW s \in Guest, NEW t \in User, Merge(s, t)
      PROVE  AwardsInv'
  BY <1>6, MergeStep
<1>7. CASE ~Loud
  BY <1>7, QuietStep
<1>8. CASE Loud
  BY <1>1, <1>2, <1>3, <1>4, <1>5, <1>6, <1>8 DEF Loud
<1>9. QED
  BY <1>7, <1>8

-----------------------------------------------------------------------------
(***************************************************************************)
(* The theorems.                                                           *)
(***************************************************************************)

\* Every variable keeps its type, and no streak is longer than the days that
\* have passed (services/payment.py:105-166).
THEOREM TypeCorrect == Spec => []TypeOK
<1>1. Inv => TypeOK
  <2> SUFFICES ASSUME Inv PROVE TypeOK
    OBVIOUS
  <2>1. Columns /\ RowsRight
    BY DEF Inv
  <2>2. ASSUME NEW u \in User
        PROVE  user[u].streak <= Today + 1
    <3>1. user[u] \in UserRow /\ StreakOK(user[u])
          /\ (user[u].last # None => user[u].last <= Today)
      BY <2>1 DEF Columns, RowsRight, RowOK, RowBy
    <3>2. Today \in Nat
      BY <2>1, TodayIs DEF Columns
    <3> DEFINE row == user[u]
               t   == Today
    <3>3. row \in UserRow /\ StreakOK(row) /\ (row.last # None => row.last <= t) /\ t \in Nat
      BY <3>1, <3>2
    <3> HIDE DEF row, t
    <3>4. row.streak <= t + 1
      BY <3>3, StreakBound
    <3>5. QED
      BY <3>4 DEF row, t
  <2>3. \A b \in Poster : poster[b].todo \cup poster[b].done \subseteq Payment
    BY <2>1 DEF Columns, PosterState
  <2>4. QED
    BY <2>1, <2>2, <2>3 DEF Columns, TypeOK, PaymentRow, CreatorState, Source
<1>2. QED
  BY <1>1, InvHolds, PTL

\* Donations of one user to a campaign keep the cooldown apart, unless the later
\* is by a link, two accounts brought them, or two requests overlapped
\* (services/donation.py:37-52, services/patron.py:30-43).
THEOREM CooldownCorrect == Spec => []CooldownKept
<1>1. Inv => CooldownKept
  <2> SUFFICES ASSUME Inv, NEW u \in User \ hasty,
                      NEW p \in DonationsOf(u), NEW q \in DonationsOf(u),
                      p # q, {p, q} \notin brought,
                      {payment[p].status, payment[q].status} \subseteq {"success", "pending"},
                      payment[q].at <= payment[p].at
               PROVE  Apart(p, q)
    BY DEF CooldownKept, Apart
  <2>1. Live(p) /\ Live(q)
    BY DEF Live
  <2>2. QED
    BY <2>1 DEF Inv, Spaced
<1>2. QED
  BY <1>1, InvHolds, PTL

\* The streak is the number of days with a payment in the run of consecutive
\* days that ends with the last one, and after a merge or with dates out of
\* order still no more than the days with a payment
\* (services/payment.py:105-131, 153-166, services/account_merge.py:139-145).
THEOREM StreakCorrect == Spec => []StreakExact
<1>1. Inv => StreakExact
  <2> SUFFICES ASSUME Inv, NEW u \in User
               PROVE  /\ user[u].streak <= Cardinality(user[u].days)
                      /\ user[u].last = None => user[u].streak = 0
                      /\ (user[u].last # None /\ ~user[u].unclear) =>
                           user[u].streak = Cardinality(user[u].days \cap Run(user[u], user[u].last))
    BY DEF StreakExact
  <2> DEFINE row == user[u]
  <2>1. row \in UserRow /\ StreakOK(row)
    BY DEF Inv, Columns, RowsRight, RowOK, RowBy
  <2>2. row.streak \in Nat /\ row.days \subseteq Date
    BY <2>1 DEF UserRow
  <2> HIDE DEF row
  <2>3. IsFiniteSet(row.days) /\ Cardinality(row.days) \in Nat
    BY <2>2, DateNat
  <2>4. row.streak <= Cardinality(row.days)
    <3>1. CASE row.last = None
      BY <2>1, <2>2, <2>3, <3>1 DEF StreakOK
    <3>2. CASE row.last # None
      <4> DEFINE old == row.days \cap 0..row.last
      <4>1. Cardinality(old) <= Cardinality(row.days) /\ Cardinality(old) \in Nat
        BY <2>3, FS_Subset, FS_CardinalityType
      <4>2. row.streak <= Cardinality(old)
        BY <2>1, <3>2 DEF StreakOK
      <4>3. QED
        BY <2>2, <2>3, <4>1, <4>2
    <3>3. QED
      BY <3>1, <3>2
  <2>5. (row.last # None /\ ~row.unclear) =>
          row.streak = Cardinality(row.days \cap Run(row, row.last))
    BY <2>1, RunIs DEF StreakOK
  <2>6. row.last = None => row.streak = 0
    BY <2>1 DEF StreakOK
  <2>7. QED
    BY <2>4, <2>5, <2>6 DEF row
<1>2. QED
  BY <1>1, InvHolds, PTL

\* List, detail and the check of create_donation agree on who can donate
\* (services/campaign.py:30-49, 275-277, services/donation.py:37-52).
THEOREM FeedCorrect == Spec => []FeedAgrees
<1>1. Inv => FeedAgrees
  <2> SUFFICES ASSUME Inv, NEW u \in User
               PROVE  /\ CanDonateNow(u) <=> CanDonateNowInDetail(u)
                      /\ (\A p \in DonationsOf(u) : payment[p].status # "pending") =>
                            (CanDonateNow(u) <=> ~Blocked(u))
    BY DEF FeedAgrees
  <2>1. Columns
    BY DEF Inv
  <2>2. /\ now \in Nat /\ Cooldown \in Nat
        /\ \A p \in DonationsOf(u) : payment[p].at \in Nat
        /\ \A p \in LastGiven(u) : p \in DonationsOf(u) /\ payment[p].status = "success"
    BY <2>1, EngagementAssumption DEF Columns, PaymentRow, DonationsOf, LastGiven
  <2>3. CanDonateNow(u) <=> CanDonateNowInDetail(u)
    <3>1. CanDonateNow(u) <=> \A p \in LastGiven(u) : ~(payment[p].at + Cooldown > now)
      BY DEF CanDonateNow, NextAvailable
    <3>2. CanDonateNowInDetail(u) <=>
            \A p \in LastGiven(u) : payment[p].at + Cooldown > now => payment[p].at + Cooldown <= now
      BY DEF CanDonateNowInDetail, NextInDetail
    <3>3. QED
      BY <2>2, <3>1, <3>2
  <2>4. ASSUME \A p \in DonationsOf(u) : payment[p].status # "pending"
        PROVE  CanDonateNow(u) <=> ~Blocked(u)
    <3>1. ASSUME CanDonateNow(u), NEW p \in DonationsOf(u), Blocking(p)
          PROVE  FALSE
      <4>1. payment[p].status = "success" /\ payment[p].at > now - Cooldown
        BY <2>4, <3>1 DEF Blocking
      <4>2. PICK m \in LastGiven(u) : payment[p].at <= payment[m].at
        BY <2>1, <4>1, LastGivenIs
      <4>3. ~(payment[m].at + Cooldown > now)
        BY <3>1 DEF CanDonateNow, NextAvailable
      <4>4. payment[m].at \in Nat /\ payment[p].at \in Nat
        BY <2>2
      <4>5. QED
        BY <2>2, <4>1, <4>2, <4>3, <4>4
    <3>2. ASSUME ~Blocked(u), NEW p \in LastGiven(u)
          PROVE  ~NextAvailable(p)
      <4>1. p \in DonationsOf(u) /\ payment[p].status = "success" /\ payment[p].at \in Nat
        BY <2>2
      <4>2. ~(payment[p].at > now - Cooldown)
        BY <3>2, <4>1 DEF Blocked, Blocking
      <4>3. QED
        BY <2>2, <4>1, <4>2 DEF NextAvailable
    <3>3. QED
      BY <3>1, <3>2 DEF CanDonateNow, Blocked
  <2>5. QED
    BY <2>3, <2>4
<1>2. QED
  BY <1>1, InvHolds, PTL

\* Neither two notifications nor a batch award an achievement twice or miss the
\* payment that meets its condition, and no refund takes it back
\* (services/impact.py:46-101).
THEOREM AwardsCorrect == Spec => []AwardsExact
<1>1. Inv /\ AwardsInv => AwardsExact
  <2> SUFFICES ASSUME Inv, AwardsInv, NEW u \in User \ merged, NEW a \in Achievement \ changed,
                      Condition[a].type = "donations_count" \/ ~user[u].unclear
               PROVE  earned[u][a] =
                        IF IF Condition[a].type = "donations_count"
                           THEN most[u] > 0 /\ most[u] >= Condition[a].value
                           ELSE Reached(user[u], Condition[a].value)
                        THEN 1 ELSE 0
    BY DEF AwardsExact
  <2>2. AwardsBy(Lasting, user[u], earned[u], most[u])
    BY DEF AwardsInv, Settled, Right
  <2>3. a \in Lasting /\ Condition[a].type \in {"streak_days", "donations_count"}
    BY ConditionIs DEF Lasting
  <2>4. QED
    BY <2>2, <2>3 DEF AwardsBy
<1>2. Init => Inv /\ AwardsInv
  BY InvInit, AwardsInit
<1>3. Inv /\ AwardsInv /\ [Next]_vars => AwardsInv'
  BY AwardsStep
<1>4. QED
  BY <1>1, <1>2, <1>3, InvHolds, PTL DEF Spec

=============================================================================
