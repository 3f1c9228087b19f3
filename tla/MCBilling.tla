------------------------------ MODULE MCBilling ------------------------------
(* Small instances of Billing for TLC. *)
EXTENDS Billing, TLC

CONSTANTS s1

Sessions == Permutations(Session)

\* One subscription with all its transactions.
OneSubscription == [t \in Txn |-> s1]

=============================================================================
