----------------------------- MODULE MCSessions ------------------------------
(* A small instance of Sessions for TLC. *)
EXTENDS Sessions, TLC

\* Requests, users, admins and e-mails may be exchanged independently.
Interchangeable ==
  {p @@ q @@ r @@ w : p \in Permutations(Request), q \in Permutations(User),
                      r \in Permutations(Admin), w \in Permutations(Email)}
=============================================================================
