---------------------------- MODULE AtomicStore ----------------------------
(***************************************************************************)
(* What the transaction_history table promises to the code that calls      *)
(* DatabaseInterface.saveTransaction (api/lib/db-interface.js).            *)
(*                                                                         *)
(* A save is a snapshot of one transaction.  The saves that carry the same *)
(* client_resource_id take effect one after the other, in the order of the *)
(* calls, each of them at one instant: it replaces the row of that         *)
(* identifier, or it is dropped and leaves the table alone.  A row never   *)
(* passes to another owner (source_account and type).  A crash forgets the *)
(* saves that have not taken effect and keeps every row.                   *)
(***************************************************************************)
EXTENDS Sequences

CONSTANTS
    Saves,      \* the snapshots that are given to saveTransaction
    Ids,        \* the values of client_resource_id
    ClientId,   \* [Saves -> Ids]: the client_resource_id of a snapshot
    Owner,      \* [Saves -> ...]: its source_account and type
    NoRow       \* an identifier that has no row

VARIABLES
    todo,       \* per identifier, the saves called and not yet in effect
    rows        \* per identifier, the snapshot its row holds, or NoRow

vars == <<todo, rows>>

TypeOK ==
    /\ todo \in [Ids -> Seq(Saves)]
    /\ rows \in [Ids -> Saves \cup {NoRow}]

-----------------------------------------------------------------------------
Init ==
    /\ todo = [i \in Ids |-> <<>>]
    /\ rows = [i \in Ids |-> NoRow]

\* The queues t after a further call of saveTransaction with snapshot s.
Requested(t, s) == [t EXCEPT ![ClientId[s]] = Append(@, s)]

Call(s) ==
    /\ todo' = Requested(todo, s)
    /\ UNCHANGED rows

\* The row of an identifier can take s: there is none, or it has s's owner.
Accepts(row, s) == row # NoRow => Owner[row] = Owner[s]

Apply(i) ==
    /\ todo[i] # <<>>
    /\ Accepts(rows[i], Head(todo[i]))
    /\ rows' = [rows EXCEPT ![i] = Head(todo[i])]
    /\ todo' = [todo EXCEPT ![i] = Tail(@)]

\* A failed query, or an insert the primary key refuses, is only logged.
Drop(i) ==
    /\ todo[i] # <<>>
    /\ todo' = [todo EXCEPT ![i] = Tail(@)]
    /\ UNCHANGED rows

Crash ==
    /\ todo' = [i \in Ids |-> <<>>]
    /\ UNCHANGED rows

Next ==
    \/ \E s \in Saves : Call(s)
    \/ \E i \in Ids : Apply(i) \/ Drop(i)
    \/ Crash

Fairness == \A i \in Ids : WF_vars(Apply(i) \/ Drop(i))

SafeSpec == Init /\ [][Next]_vars

Spec == SafeSpec /\ Fairness
=============================================================================
