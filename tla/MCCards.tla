------------------------------- MODULE MCCards --------------------------------
(* A small instance of Cards for TLC. *)
EXTENDS Cards, TLC

\* Users, cards, payments and requests may be exchanged independently.
Interchangeable ==
  {p @@ q @@ c @@ r : p \in Permutations(User), q \in Permutations(Payment),
                      c \in Permutations(Card), r \in Permutations(Request)}
=============================================================================
