----------------------------- MODULE MCEngagement -----------------------------
(* A small instance of Engagement for TLC. *)
EXTENDS Engagement, TLC

CONSTANTS a1, a2

\* Two donations, and two days in a row.
TwoOfEach == [a \in {a1, a2} |-> [type |-> IF a = a1 THEN "donations_count" ELSE "streak_days",
                                  value |-> 2]]

\* Payments and requests may be exchanged independently; the users may not,
\* for one of them is a guest.
Interchangeable ==
  {p @@ b @@ k : p \in Permutations(Payment), b \in Permutations(Poster),
                 k \in Permutations(Creator)}

=============================================================================
