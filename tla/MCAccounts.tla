------------------------------ MODULE MCAccounts ------------------------------
(* A small instance of Accounts for TLC. *)
EXTENDS Accounts, TLC

\* Users, payments and requests may be exchanged independently.
Interchangeable ==
  {u @@ p @@ r : u \in Permutations(User), p \in Permutations(Payment),
                 r \in Permutations(Request)}
=============================================================================
