-------------------------- MODULE MCNotifications --------------------------
(* Instances of Notifications: a history of six transactions in three
   ledgers, the second of which has three.                                 *)
EXTENDS Notifications

At(l) == [ledger |-> l, kind |-> "payment"]

MCChain == <<At(1), At(2), At(2), At(2), At(3), At(3)>>

\* A failed payment submitted in the second ledger.
OneRow == {[ledger |-> 2, hash |-> 9, id |-> 90]}
TwoRows == OneRow \cup {[ledger |-> 3, hash |-> 8, id |-> 80]}
=============================================================================
