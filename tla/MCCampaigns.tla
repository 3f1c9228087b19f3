----------------------------- MODULE MCCampaigns -----------------------------
(* A small instance of Campaigns for TLC. *)
EXTENDS Campaigns, TLC

\* Requests, campaigns, foundations and offline payments may be exchanged
\* independently.
Interchangeable ==
  {p @@ q @@ r @@ o : p \in Permutations(Request), q \in Permutations(Campaign),
                      r \in Permutations(Foundation), o \in Permutations(Offline)}
=============================================================================
