------------------------------ MODULE Prepare -------------------------------
(***************************************************************************)
(* Changes of one account's settings: submitted (changeSettings through    *)
(* transactions.submit), or only prepared (createTxJSON in                 *)
(* api/transaction/utils.js), signed and later relayed by the client       *)
(* (/transaction/submit).  Several prepares run at once, each with a       *)
(* question for the account's next sequence in the middle, and the account *)
(* and the ledger go on meanwhile.                                         *)
(***************************************************************************)
EXTENDS AccountSettings

CONSTANTS
    Requests,
    Asks,       \* [Requests -> SUBSET Settings]: the settings a request may give
    Offset,     \* the default of last_ledger_offset, 3 in the code
    MaxLedger,  \* bound on the ledgers that close
    MaxSequence,\* bound on the account's other transactions
    Accounts    \* the [flags, fields] an account may have to begin with

ASSUME PrepareAssumption ==
    /\ Asks \in [Requests -> SUBSET Settings]
    /\ None \notin Nat /\ Clear \notin Stored
    /\ Offset \in Nat /\ MaxLedger \in Nat \ {0} /\ MaxSequence \in Nat
    /\ \A a \in Accounts : /\ a.flags \subseteq Flags
                           /\ a.fields \in [Fields -> Stored \cup {Clear}]

VARIABLES
    flags, fields, sequence,    \* the account in the ledger
    ledger,                     \* remote.getLedgerSequence()
    req                         \* per request, its handler and transaction

vars == <<flags, fields, sequence, ledger, req>>
account == <<flags, fields, sequence>>

Places == {"idle", "asking", "prepared", "relayed", "submitted", "applied",
           "failed", "refused"}

\* A request: where its handler or its transaction is, the settings given, the
\* sequence and the last ledger of the transaction, whether the request gave
\* the sequence, the account's sequence when the question was sent, and
\* whether the remote refused to answer it.
Fresh == [at |-> "idle", settings |-> <<>>, Sequence |-> None, last |-> None,
          given |-> FALSE, since |-> None, error |-> FALSE]

TypeOK ==
    /\ flags \subseteq Flags
    /\ fields \in [Fields -> Stored \cup {Clear}]
    /\ sequence \in Nat /\ ledger \in 1..MaxLedger
    /\ \A r \in Requests :
          /\ req[r].at \in Places
          /\ req[r].at # "idle" => req[r].settings \in Asks[r]
          /\ req[r].Sequence \in Nat \cup {None}
          /\ req[r].last \in Nat \cup {None}
          /\ req[r].at = "relayed" => req[r].Sequence # None
          /\ req[r].given \in BOOLEAN /\ req[r].error \in BOOLEAN
          /\ req[r].since \in Nat \cup {None}

Init ==
    /\ \E a \in Accounts : flags = a.flags /\ fields = a.fields
    /\ sequence = 1 /\ ledger = 1
    /\ req = [r \in Requests |-> Fresh]

-----------------------------------------------------------------------------
Goes(r, c) == req' = [req EXCEPT ![r] = c]

\* POST settings, to be submitted.  A transaction_sequence among the settings
\* is the number of the transaction; without one ripple-lib numbers it.
Submit(r, s, number) ==
    /\ req[r].at = "idle"
    /\ Goes(r, [req[r] EXCEPT !.settings = s, !.Sequence = number,
                              !.at = IF SetCollision(s) THEN "refused"
                                                        ELSE "submitted"])
    /\ UNCHANGED <<account, ledger>>

\* POST settings with submit=false: prepareAndOptionallySign.  The last ledger
\* is fixed before the question for the sequence is sent.  The number is that
\* of the instructions; a transaction_sequence is overwritten.
Prepare(r, s, last, number) ==
    LET c == [req[r] EXCEPT !.settings = s,
                            !.last = IF last = None THEN ledger + Offset ELSE last] IN
    /\ req[r].at = "idle"
    /\ Goes(r, IF SetCollision(s) THEN [req[r] EXCEPT !.settings = s, !.at = "refused"]
               ELSE IF number = None THEN [c EXCEPT !.at = "asking", !.since = sequence]
               ELSE [c EXCEPT !.at = "prepared", !.Sequence = number, !.given = TRUE])
    /\ UNCHANGED <<account, ledger>>

\* The question of r for the sequence is not answered yet.
Open(r) == req[r].at = "asking" /\ ~req[r].error

\* The number after the one the remote gave.
SequenceArrives_Next(r) ==
    /\ Open(r)
    /\ Goes(r, [req[r] EXCEPT !.at = "prepared", !.Sequence = sequence + 1])
    /\ UNCHANGED <<account, ledger>>

\* The answer of getNextSequence: the transaction is complete and the client
\* is answered.
SequenceArrives(r) ==
    /\ Open(r)
    /\ Goes(r, [req[r] EXCEPT !.at = "prepared", !.Sequence = sequence])
    /\ UNCHANGED <<account, ledger>>

\* An error without an answer to the client.
SequenceFails_Unanswered(r, secret) ==
    /\ Open(r)
    /\ Goes(r, [req[r] EXCEPT !.error = TRUE])
    /\ UNCHANGED <<account, ledger>>

\* The error of getNextSequence is not looked at: the client gets a
\* transaction without a Sequence, or, if the request has a secret to sign it
\* with (which nothing before this looks at), the error that signing throws.
SequenceFails(r, secret) ==
    /\ Open(r)
    /\ Goes(r, [req[r] EXCEPT !.at = IF secret THEN "refused" ELSE "prepared",
                              !.error = TRUE])
    /\ UNCHANGED <<account, ledger>>

\* The client has the transaction signed and relays it, which needs a number.
Relay(r) ==
    /\ req[r].at = "prepared"
    /\ req[r].Sequence # None
    /\ Goes(r, [req[r] EXCEPT !.at = "relayed"])
    /\ UNCHANGED <<account, ledger>>

-----------------------------------------------------------------------------
(* The remote.                                                              *)

Applicable(r) ==
    \/ req[r].at = "submitted" /\ req[r].Sequence \in {None, sequence}
    \/ /\ req[r].at = "relayed"
       /\ req[r].Sequence = sequence /\ ledger <= req[r].last

Apply(r) ==
    /\ Applicable(r)
    /\ flags' = AppliedFlags(flags, Transaction(req[r].settings))
    /\ fields' = AppliedFields(fields, Transaction(req[r].settings))
    /\ sequence' = sequence + 1
    /\ Goes(r, [req[r] EXCEPT !.at = "applied"])
    /\ UNCHANGED ledger

\* The number has been used, the last ledger is past, or ripple-lib gives up.
Expire(r) ==
    /\ \/ req[r].at = "submitted"
       \/ /\ req[r].at = "relayed"
          /\ req[r].Sequence < sequence \/ ledger > req[r].last
    /\ Goes(r, [req[r] EXCEPT !.at = "failed"])
    /\ UNCHANGED <<account, ledger>>

\* Another transaction of the account, which changes no setting.
Spend ==
    /\ sequence < MaxSequence
    /\ sequence' = sequence + 1
    /\ UNCHANGED <<flags, fields, ledger, req>>

Close ==
    /\ ledger < MaxLedger
    /\ ledger' = ledger + 1
    /\ UNCHANGED <<account, req>>

Next ==
    \/ \E r \in Requests :
          \/ \E s \in Asks[r], number \in {None, sequence} :
                \/ Submit(r, s, number)
                \/ \E last \in {None, ledger} : Prepare(r, s, last, number)
          \/ SequenceArrives(r)
          \/ \E secret \in BOOLEAN : SequenceFails(r, secret)
          \/ Relay(r) \/ Apply(r) \/ Expire(r)
    \/ Spend \/ Close

\* The remote answers a question for a sequence, with a number or an error.
Fairness ==
    \A r \in Requests :
       WF_vars(SequenceArrives(r) \/ \E secret \in BOOLEAN : SequenceFails(r, secret))

Spec == Init /\ [][Next]_vars /\ Fairness
-----------------------------------------------------------------------------
\* r's transaction enters the ledger in this step.
Applied(r) == req[r].at # "applied" /\ req'[r].at = "applied"

\* Settings with at most one integer flag to set and one to clear: the
\* transaction that enters the ledger, whoever else has changed the account
\* since it was made, gives every setting named the value asked for and
\* touches no other; getSettings then tells it as it was given.  In two things
\* the code, and this, differ from README.old.md: disable_master (line 843)
\* is accepted and ignored, so that it stays as it was, and a transfer rate is
\* told in billionths, and not "between 1 and 2" (line 768).
ChangesAsAsked ==
    [][\A r \in Requests :
          Applied(r) /\ FitsOneTransaction(req[r].settings) =>
             ChangedAsAsked(req[r].settings, flags, fields, flags', fields')]_vars

\* "The settings that were changed, as provided in the request": an integer
\* flag that the response reports as set is set when the transaction is in the
\* ledger.
ReportedIsDone ==
    [][\A r \in Requests : Applied(r) =>
          LET s == req[r].settings IN
          \A f \in IntFlags \cap DOMAIN s :
             Reported(s, Transaction(s))[f] => f \in flags']_vars

\* The number of a prepared transaction was the account's next one at some
\* moment between the request and the answer; it is missing only when the
\* remote did not tell it.
SequenceOfThePrepare ==
    \A r \in Requests : req[r].at \in {"prepared", "relayed"} /\ ~req[r].given =>
       IF req[r].Sequence = None THEN req[r].error
       ELSE req[r].since <= req[r].Sequence /\ req[r].Sequence <= sequence

\* A client that asks for a prepared transaction is answered, even when the
\* remote fails.
PrepareAnswered ==
    \A r \in Requests : req[r].at = "asking" ~> req[r].at # "asking"
=============================================================================
