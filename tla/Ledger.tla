------------------------------- MODULE Ledger --------------------------------
(***************************************************************************)
(* What donations promise, without requests, notifications and tasks: the  *)
(* life cycle that docs/technical/full_specification_and_demo.md draws     *)
(* (5.2), and a collected_amount that moves with it in the same step.      *)
(* Several donations may be resolved at once, as one batch does.           *)
(***************************************************************************)
EXTENDS Books

VARIABLES
  status,     \* donations.status
  collected   \* campaigns.collected_amount

vars == <<status, collected>>

Success == {d \in Contribution : status[d] = "success"}

TypeOK ==
  /\ status \in [Contribution -> {"none", "pending", "success", "failed", "refunded"}]
  /\ collected \in [Campaign -> Nat]

Init ==
  /\ status = [d \in Contribution |-> "none"]
  /\ collected = [c \in Campaign |-> 0]

Open(d) ==
  /\ status[d] = "none"
  /\ status' = [status EXCEPT ![d] = "pending"]
  /\ UNCHANGED collected

\* The donations S turn out paid, the donations F do not.
Resolve(S, F) ==
  /\ S \cap F = {}
  /\ \A d \in S \cup F : status[d] = "pending"
  /\ status' = [d \in Contribution |-> IF d \in S THEN "success"
                                       ELSE IF d \in F THEN "failed" ELSE status[d]]
  /\ collected' = [c \in Campaign |-> collected[c] + SumOf[To(S, c)]]

Return(d) ==
  /\ status[d] = "success"
  /\ status' = [status EXCEPT ![d] = "refunded"]
  /\ collected' = [collected EXCEPT ![Target[d]] = @ - Amount[d]]

Next ==
  \/ \E d \in Contribution : Open(d) \/ Return(d)
  \/ \E S, F \in SUBSET Contribution : Resolve(S, F)

Spec == Init /\ [][Next]_vars

\* collected_amount of a campaign is the sum of its successful donations, at
\* every moment and for every set of donations, campaigns and amounts.
Exact == \A c \in Campaign : collected[c] = SumOf[To(Success, c)]

=============================================================================
