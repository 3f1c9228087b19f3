------------------------------- MODULE Dunning -------------------------------
(***************************************************************************)
(* What recurring charges promise, without requests, runs of tasks and     *)
(* notifications: the life cycle of a transaction that                     *)
(* docs/technical/full_specification_and_demo.md draws (5.4), with the     *)
(* bound on its attempts.  The transactions of one task run move together. *)
(***************************************************************************)
EXTENDS Naturals

CONSTANTS
  Txn,          \* identifiers of transactions
  MaxAttempts   \* len(SOFT_DECLINE_RETRY_DAYS)

VARIABLES
  status,   \* transactions.status, "none" while there is no row
  attempt   \* transactions.attempt_number

vars == <<status, attempt>>

Init ==
  /\ status = [t \in Txn |-> "none"]
  /\ attempt = [t \in Txn |-> 0]

Becomes(t, s, n) == status'[t] = s /\ attempt'[t] = n

\* A charge is recorded, as made or as skipped for want of a campaign.
Record(t) ==
  status[t] = "none" /\ (Becomes(t, "pending", 1) \/ Becomes(t, "skipped", 1))

\* The provider has decided.
Settle(t) ==
  status[t] = "pending" /\ (Becomes(t, "success", attempt[t]) \/ Becomes(t, "failed", attempt[t]))

\* A declined charge is tried again while attempts are left.
Retry(t) ==
  status[t] = "failed" /\ attempt[t] < MaxAttempts /\ Becomes(t, "pending", attempt[t] + 1)

Return(t) == status[t] = "success" /\ Becomes(t, "refunded", attempt[t])

Next ==
  /\ \A t \in Txn : \/ Record(t) \/ Settle(t) \/ Retry(t) \/ Return(t)
                    \/ Becomes(t, status[t], attempt[t])
  /\ DOMAIN status' = Txn /\ DOMAIN attempt' = Txn

Spec == Init /\ [][Next]_vars

=============================================================================
