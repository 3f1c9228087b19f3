----------------------------- MODULE MCDonations -----------------------------
(* Small instances of Donations for TLC. *)
EXTENDS Donations, FiniteSetsExt, TLC

CONSTANTS d1, d2, u1, u2, c1

Sessions == Permutations(Session)

\* SUM over the rows, by its definition.
MCSumOf == [S \in SUBSET Contribution |-> MapThenSumSet(LAMBDA d : Amount[d], S)]

\* Two donations of one user to one campaign, the second from a patron's link.
MCContribution == {d1, d2}
SameUser == [d \in MCContribution |-> u1]
TwoUsers == [d \in MCContribution |-> IF d = d1 THEN u1 ELSE u2]
OneCampaign == [d \in MCContribution |-> c1]
Amounts == [d \in MCContribution |-> IF d = d1 THEN 1 ELSE 2]

=============================================================================
