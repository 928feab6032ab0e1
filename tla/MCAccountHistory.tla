-------------------------- MODULE MCAccountHistory --------------------------
(* Instances of AccountHistory: a history of five transactions in three
   ledgers.                                                                *)
EXTENDS AccountHistory

At(l, k) == [ledger |-> l, kind |-> k]

MCChain == <<At(1, "payment"), At(1, "failed"), At(2, "other"),
             At(2, "payment"), At(3, "payment")>>

\* The row of the payment with a result other than success, and the row of
\* one that is in no validated ledger.
MCRows == {[ledger |-> 1, hash |-> 2], [ledger |-> 3, hash |-> 9]}
=============================================================================
