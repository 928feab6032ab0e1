------------------------------- MODULE Lookup -------------------------------
(***************************************************************************)
(* The lookup of a transaction by its hash or of a payment by its          *)
(* client_resource_id: getTransaction (api/transactions.js), as called by  *)
(* getPayment, by GET transactions and by notifications.  A lookup reads   *)
(* the table and then asks the remote, and the payment goes on meanwhile:  *)
(* it is sent again under another hash, it is validated, its saves reach   *)
(* the table or are lost.                                                  *)
(*                                                                         *)
(* Of the submission (module Submission) only the hashes are kept.  A      *)
(* payment sent for the k-th time has the hash k.                          *)
(***************************************************************************)
EXTENDS Naturals, Sequences

CONSTANTS
    Payments,   \* payments, each with a client_resource_id of its own
    Lookups,    \* the lookups
    MaxSends,   \* bound on the submissions of one payment
    None

Sends == 1..MaxSends

VARIABLES
    tx,         \* per payment, its transaction object; lost at a restart
    saves,      \* per payment, the saves called and not yet in effect
    rows,       \* the rows of transaction_history
    validated,  \* per payment, the hash that is in a validated ledger
    look        \* per lookup, its handler

vars == <<tx, saves, rows, validated, look>>

States == {"unsubmitted", "pending", "validated", "failed"}
Final == {"validated", "failed"}
Rows == [hash : Sends, state : States]

\* result is the submission that transaction.result is about, if any.
Object == [sends : 0..MaxSends, result : Sends \cup {None},
           state : States, lost : BOOLEAN]

Places == {"idle", "table", "remote", "ledger", "over", "gone"}
Replies == {"unknown", "missing", "pending", "validated", "noLedger", "error"}

ASSUME LookupAssumption == MaxSends \in Nat \ {0} /\ None \notin Nat \cup Replies

\* A lookup: the payment it is for, by a hash of it or (None) by its
\* client_resource_id, the hash it asks the remote for, the hash that the
\* answer is about, and the answer.
Handlers == [at : Places, of : Payments, by : Sends \cup {None},
             hash : Sends \cup {None}, reply : Replies \cup {None}]

TypeOK ==
    /\ tx \in [Payments -> Object]
    /\ saves \in [Payments -> Seq(Rows)]
    /\ rows \in [Payments -> Rows \cup {None}]
    /\ validated \in [Payments -> Sends \cup {None}]
    /\ look \in [Lookups -> Handlers]
    /\ \A l \in Lookups :
          /\ look[l].reply # None <=> look[l].at = "over"
          /\ look[l].at \in {"remote", "ledger"} => look[l].hash # None

Init ==
    /\ tx = [p \in Payments |->
               [sends |-> 0, result |-> None, state |-> "unsubmitted", lost |-> FALSE]]
    /\ saves = [p \in Payments |-> <<>>]
    /\ rows = [p \in Payments |-> None]
    /\ validated = [p \in Payments |-> None]
    /\ look \in [Lookups -> {h \in Handlers : /\ h.at = "idle" /\ h.by = None
                                             /\ h.hash = None /\ h.reply = None}]

-----------------------------------------------------------------------------
(* The payment.  A definition whose name has a suffix after an underscore is
   a faulty variant of the one that follows it, a slip a property below must
   notice.                                                                  *)

\* The row always has the hash of the newest submission.
RowOf_Newest(t) == [hash |-> t.sends, state |-> t.state]

\* What saveTransaction writes: the hash of the result, if there is one, and
\* otherwise that of the newest submission, submittedIDs[0].
RowOf(t) == [hash  |-> IF t.result # None THEN t.result ELSE t.sends,
             state |-> t.state]

\* The transaction object becomes t, and is saved at a change of its state and
\* after a submission.
Become(p, t) ==
    /\ tx' = [tx EXCEPT ![p] = t]
    /\ saves' = [saves EXCEPT ![p] =
                   IF t.sends > 0 /\ (t.state # tx[p].state \/ t.sends > tx[p].sends)
                   THEN Append(@, RowOf(t)) ELSE @]

Live(p) == ~tx[p].lost /\ tx[p].state \notin Final

Send(p) ==
    /\ Live(p) /\ tx[p].sends < MaxSends
    /\ Become(p, [tx[p] EXCEPT !.sends = @ + 1])
    /\ UNCHANGED <<rows, validated, look>>

\* An answer to the newest submission that leaves the payment undecided.
Respond(p) ==
    /\ Live(p) /\ tx[p].sends > 0
    /\ Become(p, [tx[p] EXCEPT !.result = tx[p].sends, !.state = "pending"])
    /\ UNCHANGED <<rows, validated, look>>

\* One of the submissions enters a validated ledger; they share a sequence, so
\* no other can.
Validate(p, k) ==
    /\ k <= tx[p].sends /\ validated[p] = None /\ tx[p].state # "failed"
    /\ validated' = [validated EXCEPT ![p] = k]
    /\ UNCHANGED <<tx, saves, rows, look>>

\* The process learns of it: the 'success' event.
Succeed(p) ==
    /\ Live(p) /\ validated[p] # None
    /\ Become(p, [tx[p] EXCEPT !.result = validated[p], !.state = "validated"])
    /\ UNCHANGED <<rows, validated, look>>

\* The 'error' event.
Fail(p) ==
    /\ Live(p) /\ validated[p] = None
    /\ Become(p, [tx[p] EXCEPT !.state = "failed"])
    /\ UNCHANGED <<rows, validated, look>>

\* The oldest save reaches the table, or its query fails.
Save(p) ==
    /\ saves[p] # <<>>
    /\ saves' = [saves EXCEPT ![p] = Tail(@)]
    /\ \/ rows' = [rows EXCEPT ![p] = Head(saves[p])]
       \/ UNCHANGED rows
    /\ UNCHANGED <<tx, validated, look>>

-----------------------------------------------------------------------------
(* getTransaction.                                                          *)

Step(l, h) ==
    /\ look' = [look EXCEPT ![l] = h]
    /\ UNCHANGED <<tx, saves, rows, validated>>

Reply(l, what) == Step(l, [look[l] EXCEPT !.at = "over", !.reply = what])

\* The identifier is a hash or a client_resource_id; the parameters, and with
\* min_ledger and max_ledger the remote's ledgers, are checked first.
Ask(l, by) ==
    /\ look[l].at = "idle"
    /\ \/ Reply(l, "error")
       \/ Step(l, [look[l] EXCEPT !.at = "table", !.by = by])

\* The hash of the row is not taken.
TableAnswers_HashOnly(l) ==
    /\ look[l].at = "table"
    /\ Step(l, [look[l] EXCEPT !.at = "remote", !.hash = look[l].by])

\* queryTransaction: the answer of db.getTransaction.  A row that is found by
\* its hash has that hash.
TableAnswers(l) ==
    LET h == look[l]
        row == rows[h.of]
    IN
    /\ h.at = "table"
    /\ \/ /\ h.by = None /\ row = None
          /\ Reply(l, "unknown")
       \/ /\ h.by = None /\ row # None
          /\ Step(l, [h EXCEPT !.at = "remote", !.hash = row.hash])
       \/ /\ h.by # None
          /\ Step(l, [h EXCEPT !.at = "remote", !.hash = h.by])

TableFails(l) == look[l].at = "table" /\ Reply(l, "error")

\* The answer of requestTx.  A transaction that is not in a validated ledger
\* is not known, or known to be pending.  attachDate asks for the ledger of a
\* validated one if the answer has no date; formatPaymentHelper states what
\* was found.
RemoteAnswers(l) ==
    LET h == look[l]
        found == validated[h.of] = h.hash
    IN
    /\ h.at = "remote"
    /\ \/ /\ found
          /\ Reply(l, "validated") \/ Step(l, [h EXCEPT !.at = "ledger"])
       \/ /\ ~found
          /\ Reply(l, "missing")
       \/ /\ validated[h.of] = None /\ tx[h.of].state # "failed"
          /\ h.hash <= tx[h.of].sends
          /\ Reply(l, "pending")

\* The error of requestTx is dropped, and the lookup with it.
RemoteFails_Unanswered(l) ==
    look[l].at = "remote" /\ Step(l, [look[l] EXCEPT !.at = "idle"])

RemoteFails(l) == look[l].at = "remote" /\ Reply(l, "error")

\* attachDate.
LedgerAnswers(l) ==
    /\ look[l].at = "ledger"
    /\ Reply(l, "validated") \/ Reply(l, "noLedger")

\* The process ends: what it holds in memory is gone, the lookups too.
Crash ==
    /\ tx' = [p \in Payments |-> [tx[p] EXCEPT !.lost = TRUE]]
    /\ saves' = [p \in Payments |-> <<>>]
    /\ look' = [l \in Lookups |->
                  IF look[l].at \in {"idle", "over"} THEN look[l]
                  ELSE [look[l] EXCEPT !.at = "gone"]]
    /\ UNCHANGED <<rows, validated>>

Next ==
    \/ \E p \in Payments :
          \/ Send(p) \/ Respond(p) \/ Succeed(p) \/ Fail(p) \/ Save(p)
          \/ \E k \in Sends : Validate(p, k)
    \/ \E l \in Lookups :
          \/ \E by \in Sends \cup {None} : Ask(l, by)
          \/ TableAnswers(l) \/ TableFails(l)
          \/ RemoteAnswers(l) \/ RemoteFails(l) \/ LedgerAnswers(l)
    \/ Crash

\* The table and the remote answer or refuse.
Fairness ==
    \A l \in Lookups :
       /\ WF_vars(TableAnswers(l) \/ TableFails(l))
       /\ WF_vars(RemoteAnswers(l) \/ RemoteFails(l))
       /\ WF_vars(LedgerAnswers(l))

Spec == Init /\ [][Next]_vars /\ Fairness
-----------------------------------------------------------------------------
\* "You can also use the client_resource_id to retrieve a payment once it has
\* been submitted": once its row is final, a payment that was validated is
\* found by it, whichever of its submissions it was, also after a restart.  A
\* lookup fails for a refused query or an unknown ledger only.
FinalIsFound ==
    \A l \in Lookups :
       [](/\ look[l].at = "table" /\ look[l].by = None
          /\ rows[look[l].of] # None /\ rows[look[l].of].state = "validated"
          => [](look[l].reply \in {None, "validated", "noLedger", "error"}))

\* A lookup is answered, unless the process ends, whatever the table and the
\* remote refuse.
LookupAnswered ==
    \A l \in Lookups : look[l].at \in {"table", "remote", "ledger"} ~>
       look[l].at \in {"over", "gone"}
=============================================================================
