----------------------------- MODULE BooksProof ------------------------------
(***************************************************************************)
(* Facts about the operators of Books: they stay within BooksType, they    *)
(* keep donors_count in step with the campaign_donors rows, and what they  *)
(* do to the rows.                                                         *)
(***************************************************************************)
EXTENDS Books, FiniteSetTheorems, TLAPS

\* Every set of users, and every set of contributions, has a cardinality.
LEMMA SubsetsAreFinite ==
  /\ \A S \in SUBSET User : IsFiniteSet(S) /\ Cardinality(S) \in Nat
  /\ \A S \in SUBSET Contribution : IsFiniteSet(S) /\ Cardinality(S) \in Nat
<1>1. ASSUME NEW S \in SUBSET User
      PROVE  IsFiniteSet(S) /\ Cardinality(S) \in Nat
  BY FS_Subset, FS_CardinalityType, ContributionAssumption
<1>2. ASSUME NEW S \in SUBSET Contribution
      PROVE  IsFiniteSet(S) /\ Cardinality(S) \in Nat
  BY FS_Subset, FS_CardinalityType, ContributionAssumption
<1>3. QED BY <1>1, <1>2

\* What the counters grow by is a natural number.
LEMMA SharesType ==
  ASSUME NEW S \in SUBSET Contribution
  PROVE  /\ \A c \in Campaign : To(S, c) \in SUBSET Contribution /\ SumOf[To(S, c)] \in Nat
         /\ \A u \in User : /\ From(S, u) \in SUBSET Contribution
                            /\ SumOf[From(S, u)] \in Nat
                            /\ Cardinality(From(S, u)) \in Nat
<1>1. \A c \in Campaign : To(S, c) \in SUBSET Contribution
  BY DEF To
<1>2. \A u \in User : From(S, u) \in SUBSET Contribution
  BY DEF From
<1>3. QED BY <1>1, <1>2, SumAssumption, SubsetsAreFinite

\* SUM over no rows is 0 (COALESCE).
LEMMA SumOfNone == SumOf[{}] = 0
<1>1. {} \in SUBSET Contribution /\ {} \cap {} = {} /\ {} \cup {} = {}
  OBVIOUS
<1>2. SumOf[{}] \in Nat /\ SumOf[{}] = SumOf[{}] + SumOf[{}]
  BY <1>1, SumAssumption
<1>3. ASSUME NEW z \in Nat, z = z + z
      PROVE  z = 0
  BY <1>3
<1>4. QED BY <1>2, <1>3

\* The campaign_donors rows that process_successful_payment inserts.
LEMMA RowsType ==
  ASSUME NEW W \in SUBSET Contribution
  PROVE  {<<Target[d], Owner[d]>> : d \in W} \in SUBSET (Campaign \X User)
  BY ContributionAssumption

LEMMA EmptyBooksType == \A goal \in [Campaign -> Goals] : EmptyBooks(goal) \in BooksType
  BY DEF EmptyBooks, BooksType

LEMMA DonorsAreUsers ==
  ASSUME NEW rows, NEW c
  PROVE  DonorsOf(rows, c) \in SUBSET User
  BY DEF DonorsOf

\* process_successful_payment keeps the columns within their types.
LEMMA ProcessType ==
  ASSUME NEW b \in BooksType, NEW W \in SUBSET Contribution
  PROVE  Process(b, W) \in BooksType
<1> DEFINE rows     == {<<Target[d], Owner[d]>> : d \in W}
           inserted == rows \ b.donors
           n        == [c \in Campaign |-> b.collected[c] + SumOf[To(W, c)]]
           touched  == {Target[d] : d \in W}
<1>1. n \in [Campaign -> Nat]
  <2>1. ASSUME NEW c \in Campaign
        PROVE  b.collected[c] \in Nat /\ SumOf[To(W, c)] \in Nat
    BY SharesType DEF BooksType
  <2>2. QED BY <2>1
<1>2. b.donors \cup rows \in SUBSET (Campaign \X User)
  BY RowsType DEF BooksType
<1>3. [c \in Campaign |-> b.donorsCount[c] + Cardinality(DonorsOf(inserted, c))]
        \in [Campaign -> Nat]
  <2>1. ASSUME NEW c \in Campaign
        PROVE  /\ b.donorsCount[c] \in Nat
               /\ Cardinality(DonorsOf(inserted, c)) \in Nat
    <3>1. b.donorsCount[c] \in Nat
      BY DEF BooksType
    <3>2. QED BY <3>1, DonorsAreUsers, SubsetsAreFinite
  <2>2. QED BY <2>1
<1>4. /\ b.active \ {c \in touched : GoalReached(b.goal[c], n[c])} \in SUBSET Campaign
      /\ b.goal \in [Campaign -> Goals]
  BY DEF BooksType
<1>5. [u \in User |-> b.donated[u] + SumOf[From(W, u)]] \in [User -> Nat]
  <2>1. ASSUME NEW u \in User
        PROVE  b.donated[u] \in Nat /\ SumOf[From(W, u)] \in Nat
    BY SharesType DEF BooksType
  <2>2. QED BY <2>1
<1>6. [u \in User |-> b.gifts[u] + Cardinality(From(W, u))] \in [User -> Nat]
  <2>1. ASSUME NEW u \in User
        PROVE  b.gifts[u] \in Nat /\ Cardinality(From(W, u)) \in Nat
    BY SharesType DEF BooksType
  <2>2. QED BY <2>1
<1>7. QED BY <1>1, <1>2, <1>3, <1>4, <1>5, <1>6 DEF Process, BooksType

\* GREATEST(0, ...) keeps a counter natural whatever is subtracted.
LEMMA FloorType == \A n \in Int : Floor(n) \in Nat
  BY DEF Floor

\* reverse_successful_payment keeps the columns within their types.
LEMMA ReverseType ==
  ASSUME NEW b \in BooksType, NEW d \in Contribution, NEW remaining \in BOOLEAN
  PROVE  Reverse(b, d, remaining) \in BooksType
<1>1. Target[d] \in Campaign /\ Owner[d] \in User /\ Amount[d] \in Nat
  BY ContributionAssumption
<1>2. /\ Floor(b.collected[Target[d]] - Amount[d]) \in Nat
      /\ Floor(b.donated[Owner[d]] - Amount[d]) \in Nat
      /\ Floor(b.gifts[Owner[d]] - 1) \in Nat
      /\ Floor(b.donorsCount[Target[d]] - 1) \in Nat
  BY <1>1, FloorType DEF BooksType
<1>3. QED BY <1>1, <1>2 DEF Reverse, BooksType

-----------------------------------------------------------------------------
\* donors_count of every campaign is the number of its campaign_donors rows.
CountMatches(b) ==
  \A c \in Campaign : b.donorsCount[c] = Cardinality(DonorsOf(b.donors, c))

LEMMA EmptyBooksCount == \A goal : CountMatches(EmptyBooks(goal))
<1>1. \A c \in Campaign : DonorsOf({}, c) = {}
  BY DEF DonorsOf
<1>2. QED BY <1>1, FS_EmptySet DEF EmptyBooks, CountMatches

\* The increment of donors_count is the number of rows really inserted.
LEMMA ProcessCount ==
  ASSUME NEW b \in BooksType, NEW W \in SUBSET Contribution, CountMatches(b)
  PROVE  CountMatches(Process(b, W))
<1> DEFINE rows     == {<<Target[d], Owner[d]>> : d \in W}
           inserted == rows \ b.donors
<1>1. SUFFICES ASSUME NEW c \in Campaign
               PROVE  b.donorsCount[c] + Cardinality(DonorsOf(inserted, c))
                        = Cardinality(DonorsOf(b.donors \cup rows, c))
  BY DEF Process, CountMatches
<1> DEFINE old == DonorsOf(b.donors, c)
           new == DonorsOf(inserted, c)
<1>2. DonorsOf(b.donors \cup rows, c) = old \cup new /\ old \cap new = {}
  BY DEF DonorsOf
<1>3. IsFiniteSet(old) /\ IsFiniteSet(new) /\ Cardinality(old) \in Nat /\ Cardinality(new) \in Nat
  BY DonorsAreUsers, SubsetsAreFinite
<1>4. Cardinality(old \cup new) = Cardinality(old) + Cardinality(new)
  <2> HIDE DEF old, new
  <2>1. Cardinality(old \cup new)
          = Cardinality(old) + Cardinality(new) - Cardinality(old \cap new)
    BY <1>3, FS_Union
  <2>2. Cardinality(old \cap new) = 0
    BY <1>2, FS_EmptySet
  <2>3. QED BY <1>3, <2>1, <2>2
<1>5. b.donorsCount[c] = Cardinality(old)
  BY DEF CountMatches
<1>6. QED BY <1>2, <1>4, <1>5

\* The decrement follows a row that DELETE really removed.
LEMMA ReverseCount ==
  ASSUME NEW b \in BooksType, NEW d \in Contribution, NEW remaining \in BOOLEAN,
         CountMatches(b)
  PROVE  CountMatches(Reverse(b, d, remaining))
<1> DEFINE k    == Target[d]
           u    == Owner[d]
           gone == ~remaining /\ <<k, u>> \in b.donors
           r    == Reverse(b, d, remaining)
<1>1. SUFFICES ASSUME NEW c \in Campaign
               PROVE  r.donorsCount[c] = Cardinality(DonorsOf(r.donors, c))
  BY DEF CountMatches
<1>2. k \in Campaign /\ u \in User
  BY ContributionAssumption
<1>3. b.donorsCount[c] = Cardinality(DonorsOf(b.donors, c))
  BY DEF CountMatches
<1>4. CASE ~gone
  <2>1. r.donors = b.donors /\ r.donorsCount[c] = b.donorsCount[c]
    BY <1>2, <1>4 DEF Reverse, BooksType
  <2>2. QED BY <2>1, <1>3
<1>5. CASE gone /\ c # k
  <2>1. r.donors = b.donors \ {<<k, u>>} /\ r.donorsCount[c] = b.donorsCount[c]
    BY <1>2, <1>5 DEF Reverse, BooksType
  <2>2. DonorsOf(b.donors \ {<<k, u>>}, c) = DonorsOf(b.donors, c)
    BY <1>5 DEF DonorsOf
  <2>3. QED BY <2>1, <2>2, <1>3
<1>6. CASE gone /\ c = k
  <2>1. r.donors = b.donors \ {<<k, u>>} /\ r.donorsCount[c] = Floor(b.donorsCount[c] - 1)
    BY <1>2, <1>6 DEF Reverse, BooksType
  <2>2. DonorsOf(b.donors \ {<<k, u>>}, c) = DonorsOf(b.donors, c) \ {u}
    BY <1>6 DEF DonorsOf
  <2>3. u \in DonorsOf(b.donors, c)
    BY <1>2, <1>6 DEF DonorsOf
  <2>4. /\ IsFiniteSet(DonorsOf(b.donors, c))
        /\ Cardinality(DonorsOf(b.donors, c) \ {u}) \in Nat
    BY DonorsAreUsers, SubsetsAreFinite
  <2>5. Cardinality(DonorsOf(b.donors, c) \ {u}) = b.donorsCount[c] - 1
    <3> DEFINE D == DonorsOf(b.donors, c)
    <3>1. Cardinality(D) = b.donorsCount[c]
      BY <1>3
    <3>2. IsFiniteSet(D) /\ u \in D
      BY <2>3, <2>4
    <3> HIDE DEF D
    <3>3. Cardinality(D \ {u}) = Cardinality(D) - 1
      BY <3>2, FS_RemoveElement
    <3>4. QED
      BY <3>1, <3>3 DEF D
  <2>6. Floor(b.donorsCount[c] - 1) = b.donorsCount[c] - 1
    BY <2>4, <2>5 DEF Floor
  <2>7. QED BY <2>1, <2>2, <2>5, <2>6
<1>7. QED BY <1>4, <1>5, <1>6

-----------------------------------------------------------------------------
\* The sums of disjoint sets of contributions add up, per campaign and per user.
LEMMA SharesAdd ==
  ASSUME NEW S \in SUBSET Contribution, NEW T \in SUBSET Contribution, S \cap T = {}
  PROVE  /\ \A c \in Campaign : SumOf[To(S \cup T, c)] = SumOf[To(S, c)] + SumOf[To(T, c)]
         /\ \A u \in User : SumOf[From(S \cup T, u)] = SumOf[From(S, u)] + SumOf[From(T, u)]
         /\ \A u \in User : Cardinality(From(S \cup T, u))
                              = Cardinality(From(S, u)) + Cardinality(From(T, u))
<1>1. ASSUME NEW c \in Campaign
      PROVE  SumOf[To(S \cup T, c)] = SumOf[To(S, c)] + SumOf[To(T, c)]
  <2>1. To(S \cup T, c) = To(S, c) \cup To(T, c) /\ To(S, c) \cap To(T, c) = {}
    BY DEF To
  <2>2. To(S, c) \in SUBSET Contribution /\ To(T, c) \in SUBSET Contribution
    BY DEF To
  <2>3. QED BY <2>1, <2>2, SumAssumption
<1>2. ASSUME NEW u \in User
      PROVE  /\ SumOf[From(S \cup T, u)] = SumOf[From(S, u)] + SumOf[From(T, u)]
             /\ Cardinality(From(S \cup T, u)) = Cardinality(From(S, u)) + Cardinality(From(T, u))
  <2>1. From(S \cup T, u) = From(S, u) \cup From(T, u) /\ From(S, u) \cap From(T, u) = {}
    BY DEF From
  <2>2. From(S, u) \in SUBSET Contribution /\ From(T, u) \in SUBSET Contribution
    BY DEF From
  <2>3. SumOf[From(S \cup T, u)] = SumOf[From(S, u)] + SumOf[From(T, u)]
    BY <2>1, <2>2, SumAssumption
  <2>4. /\ IsFiniteSet(From(S, u)) /\ Cardinality(From(S, u)) \in Nat
        /\ IsFiniteSet(From(T, u)) /\ Cardinality(From(T, u)) \in Nat
    BY <2>2, SubsetsAreFinite
  <2>5. Cardinality(From(S, u) \cup From(T, u))
          = Cardinality(From(S, u)) + Cardinality(From(T, u)) - Cardinality(From(S, u) \cap From(T, u))
    BY <2>4, FS_Union
  <2>6. Cardinality(From(S, u) \cap From(T, u)) = 0
    BY <2>1, FS_EmptySet
  <2>7. Cardinality(From(S \cup T, u)) = Cardinality(From(S, u)) + Cardinality(From(T, u))
    BY <2>1, <2>4, <2>5, <2>6
  <2>8. QED BY <2>3, <2>7
<1>3. QED BY <1>1, <1>2

\* One contribution counts for its campaign and its user, and for no other.
LEMMA ShareOfOne ==
  ASSUME NEW d \in Contribution
  PROVE  /\ \A c \in Campaign : SumOf[To({d}, c)] = IF c = Target[d] THEN Amount[d] ELSE 0
         /\ \A u \in User : SumOf[From({d}, u)] = IF u = Owner[d] THEN Amount[d] ELSE 0
         /\ \A u \in User : Cardinality(From({d}, u)) = IF u = Owner[d] THEN 1 ELSE 0
<1>1. ASSUME NEW c \in Campaign
      PROVE  SumOf[To({d}, c)] = IF c = Target[d] THEN Amount[d] ELSE 0
  <2>1. To({d}, c) = IF c = Target[d] THEN {d} ELSE {}
    BY DEF To
  <2>2. QED BY <2>1, SumAssumption, SumOfNone
<1>2. ASSUME NEW u \in User
      PROVE  /\ SumOf[From({d}, u)] = IF u = Owner[d] THEN Amount[d] ELSE 0
             /\ Cardinality(From({d}, u)) = IF u = Owner[d] THEN 1 ELSE 0
  <2>1. From({d}, u) = IF u = Owner[d] THEN {d} ELSE {}
    BY DEF From
  <2>2. Cardinality({d}) = 1 /\ Cardinality({}) = 0
    BY FS_Singleton, FS_EmptySet
  <2>3. QED BY <2>1, <2>2, SumAssumption, SumOfNone
<1>3. QED BY <1>1, <1>2

\* A column that is the sum a plus n at x, and is taken back by n there.
LEMMA ColumnBack ==
  ASSUME NEW X, NEW f \in [X -> Nat], NEW a \in [X -> Nat], NEW x \in X, NEW n \in Nat,
         f[x] = a[x] + n, \A y \in X \ {x} : f[y] = a[y]
  PROVE  /\ f[x] - n \in Nat /\ Floor(f[x] - n) = f[x] - n
         /\ [f EXCEPT ![x] = Floor(@ - n)] = a
         /\ \A y \in X : a[y] <= f[y]
<1>1. f[x] - n = a[x] /\ a[x] \in Nat
  OBVIOUS
<1>2. Floor(f[x] - n) = a[x]
  BY <1>1 DEF Floor
<1>3. \A y \in X : [f EXCEPT ![x] = Floor(f[x] - n)][y] = a[y]
  BY <1>2
<1>4. [f EXCEPT ![x] = Floor(f[x] - n)] = a
  BY <1>3
<1>5. QED
  BY <1>1, <1>2, <1>4

LEMMA SharesBack ==
  ASSUME NEW S \in SUBSET Contribution, NEW k \in Contribution, k \notin S
  PROVE  /\ SumOf[To(S \cup {k}, Target[k])] = SumOf[To(S, Target[k])] + Amount[k]
         /\ \A c \in Campaign \ {Target[k]} : SumOf[To(S \cup {k}, c)] = SumOf[To(S, c)]
         /\ SumOf[From(S \cup {k}, Owner[k])] = SumOf[From(S, Owner[k])] + Amount[k]
         /\ \A u \in User \ {Owner[k]} : SumOf[From(S \cup {k}, u)] = SumOf[From(S, u)]
         /\ Cardinality(From(S \cup {k}, Owner[k])) = Cardinality(From(S, Owner[k])) + 1
         /\ \A u \in User \ {Owner[k]} : Cardinality(From(S \cup {k}, u)) = Cardinality(From(S, u))
<1>1. Target[k] \in Campaign /\ Owner[k] \in User /\ Amount[k] \in Nat
  BY ContributionAssumption
<1>2. {k} \in SUBSET Contribution /\ S \cap {k} = {}
  OBVIOUS
<1>3. /\ \A c \in Campaign : SumOf[To(S \cup {k}, c)] = SumOf[To(S, c)] + SumOf[To({k}, c)]
      /\ \A u \in User : SumOf[From(S \cup {k}, u)] = SumOf[From(S, u)] + SumOf[From({k}, u)]
      /\ \A u \in User : Cardinality(From(S \cup {k}, u))
                           = Cardinality(From(S, u)) + Cardinality(From({k}, u))
  BY <1>2, SharesAdd
<1>4. /\ \A c \in Campaign : SumOf[To(S, c)] \in Nat
      /\ \A u \in User : SumOf[From(S, u)] \in Nat /\ Cardinality(From(S, u)) \in Nat
  BY SharesType
<1>5. /\ \A c \in Campaign : SumOf[To({k}, c)] = IF c = Target[k] THEN Amount[k] ELSE 0
      /\ \A u \in User : SumOf[From({k}, u)] = IF u = Owner[k] THEN Amount[k] ELSE 0
      /\ \A u \in User : Cardinality(From({k}, u)) = IF u = Owner[k] THEN 1 ELSE 0
  BY ShareOfOne
<1>6. ASSUME NEW c \in Campaign \ {Target[k]} PROVE SumOf[To(S \cup {k}, c)] = SumOf[To(S, c)]
  <2>1. SumOf[To(S \cup {k}, c)] = SumOf[To(S, c)] + SumOf[To({k}, c)]
    BY <1>3
  <2>2. SumOf[To({k}, c)] = 0 /\ SumOf[To(S, c)] \in Nat
    BY <1>4, <1>5
  <2>3. QED
    BY <2>1, <2>2
<1>7. ASSUME NEW u \in User \ {Owner[k]}
      PROVE  /\ SumOf[From(S \cup {k}, u)] = SumOf[From(S, u)]
             /\ Cardinality(From(S \cup {k}, u)) = Cardinality(From(S, u))
  <2>1. SumOf[From({k}, u)] = 0 /\ Cardinality(From({k}, u)) = 0
    BY <1>5
  <2>2. SumOf[From(S \cup {k}, u)] = SumOf[From(S, u)]
    <3>1. SumOf[From(S \cup {k}, u)] = SumOf[From(S, u)] + SumOf[From({k}, u)]
      BY <1>3
    <3>2. SumOf[From(S, u)] \in Nat
      BY <1>4
    <3>3. QED
      BY <2>1, <3>1, <3>2
  <2>3. Cardinality(From(S \cup {k}, u)) = Cardinality(From(S, u))
    BY <1>3, <1>4, <2>1
  <2>4. QED
    BY <2>2, <2>3
<1>8. /\ SumOf[To({k}, Target[k])] = Amount[k]
      /\ SumOf[From({k}, Owner[k])] = Amount[k] /\ Cardinality(From({k}, Owner[k])) = 1
  BY <1>1, <1>5
<1>9. QED
  BY <1>1, <1>3, <1>6, <1>7, <1>8

\* The sums of the columns of b are those of the contributions S.
SumsOf(b, S) ==
  /\ \A c \in Campaign : b.collected[c] = SumOf[To(S, c)]
  /\ \A u \in User : b.donated[u] = SumOf[From(S, u)]
  /\ \A u \in User : b.gifts[u] = Cardinality(From(S, u))

LEMMA ReverseSums ==
  ASSUME NEW b \in BooksType, NEW S \in SUBSET Contribution, NEW k \in Contribution, k \notin S,
         NEW remaining \in BOOLEAN, SumsOf(b, S \cup {k})
  PROVE  /\ SumsOf(Reverse(b, k, remaining), S)
         /\ b.collected[Target[k]] - Amount[k] \in Nat
         /\ Reverse(b, k, remaining).collected = [b.collected EXCEPT ![Target[k]] = @ - Amount[k]]
         /\ \A c \in Campaign : Reverse(b, k, remaining).collected[c] <= b.collected[c]
<1> DEFINE t         == Target[k]
           o         == Owner[k]
           collected == [c \in Campaign |-> SumOf[To(S, c)]]
           donated   == [u \in User |-> SumOf[From(S, u)]]
           gifts     == [u \in User |-> Cardinality(From(S, u))]
<1>1. t \in Campaign /\ o \in User /\ Amount[k] \in Nat
  BY ContributionAssumption
<1>2. /\ Reverse(b, k, remaining).collected = [b.collected EXCEPT ![t] = Floor(@ - Amount[k])]
      /\ Reverse(b, k, remaining).donated = [b.donated EXCEPT ![o] = Floor(@ - Amount[k])]
      /\ Reverse(b, k, remaining).gifts = [b.gifts EXCEPT ![o] = Floor(@ - 1)]
  BY DEF Reverse, BooksType
<1>3. /\ collected \in [Campaign -> Nat] /\ b.collected \in [Campaign -> Nat]
      /\ b.collected[t] = collected[t] + Amount[k]
      /\ \A c \in Campaign \ {t} : b.collected[c] = collected[c]
  <2>1. collected \in [Campaign -> Nat] /\ b.collected \in [Campaign -> Nat]
    BY SharesType DEF BooksType
  <2>2. /\ SumOf[To(S \cup {k}, t)] = SumOf[To(S, t)] + Amount[k]
        /\ \A c \in Campaign \ {t} : SumOf[To(S \cup {k}, c)] = SumOf[To(S, c)]
    BY SharesBack
  <2>3. \A c \in Campaign : b.collected[c] = SumOf[To(S \cup {k}, c)] /\ collected[c] = SumOf[To(S, c)]
    BY DEF SumsOf
  <2> HIDE DEF collected, t
  <2>4. QED
    BY <1>1, <2>1, <2>2, <2>3
<1>4. /\ donated \in [User -> Nat] /\ b.donated \in [User -> Nat]
      /\ b.donated[o] = donated[o] + Amount[k]
      /\ \A u \in User \ {o} : b.donated[u] = donated[u]
  <2>1. donated \in [User -> Nat] /\ b.donated \in [User -> Nat]
    BY SharesType DEF BooksType
  <2>2. /\ SumOf[From(S \cup {k}, o)] = SumOf[From(S, o)] + Amount[k]
        /\ \A u \in User \ {o} : SumOf[From(S \cup {k}, u)] = SumOf[From(S, u)]
    BY SharesBack
  <2>3. \A u \in User : b.donated[u] = SumOf[From(S \cup {k}, u)] /\ donated[u] = SumOf[From(S, u)]
    BY DEF SumsOf
  <2> HIDE DEF donated, o
  <2>4. QED
    BY <1>1, <2>1, <2>2, <2>3
<1>5. /\ gifts \in [User -> Nat] /\ b.gifts \in [User -> Nat]
      /\ b.gifts[o] = gifts[o] + 1
      /\ \A u \in User \ {o} : b.gifts[u] = gifts[u]
  BY <1>1, SharesBack, SharesType DEF SumsOf, BooksType
<1> HIDE DEF collected, donated, gifts, t, o
<1>6. /\ [b.collected EXCEPT ![t] = Floor(@ - Amount[k])] = collected
      /\ b.collected[t] - Amount[k] \in Nat
      /\ Floor(b.collected[t] - Amount[k]) = b.collected[t] - Amount[k]
      /\ \A c \in Campaign : collected[c] <= b.collected[c]
  BY <1>1, <1>3, ColumnBack
<1>7. /\ [b.donated EXCEPT ![o] = Floor(@ - Amount[k])] = donated
      /\ [b.gifts EXCEPT ![o] = Floor(@ - 1)] = gifts
  <2>1. [b.donated EXCEPT ![o] = Floor(@ - Amount[k])] = donated
    BY <1>1, <1>4, ColumnBack
  <2>2. [b.gifts EXCEPT ![o] = Floor(@ - 1)] = gifts
    BY <1>1, <1>5, ColumnBack
  <2>3. QED
    BY <2>1, <2>2
<1>8. SumsOf(Reverse(b, k, remaining), S)
  BY <1>2, <1>6, <1>7 DEF SumsOf, collected, donated, gifts
<1>9. QED
  BY <1>2, <1>6, <1>8 DEF t

=============================================================================
