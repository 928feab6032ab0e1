----------------------------- MODULE Submission -----------------------------
(***************************************************************************)
(* The submission of transactions: submitPayment (api/payments.js) and the *)
(* other submitting handlers, through transact (api/transact.js), to       *)
(* submitTransaction (api/transactions.js), with the transaction object of *)
(* ripple-lib they listen to and the transaction_history table.            *)
(*                                                                         *)
(* Every request has a transaction object of its own.  JavaScript delivers *)
(* the events of one answer of the remote in one turn, so a turn is an     *)
(* action, and the cascade of events in it is a composition of operators   *)
(* on the record of the request.  Between turns anything may happen: the   *)
(* turns of other requests, the saves of the table, a restart.             *)
(*                                                                         *)
(* The table is AtomicStore, which TxStore (saveTransaction) implements.   *)
(***************************************************************************)
EXTENDS Naturals, Sequences

CONSTANTS
    Requests,   \* the HTTP requests that submit a transaction
    Ids,        \* values of client_resource_id
    IdOf,       \* [Requests -> Ids]
    AccountOf,  \* [Requests -> ...]: the source account
    Validated,  \* the requests made with validated=true
    Recorded,   \* those with blockDuplicates and saveTransaction: payments
    MaxSends,   \* bound on the submissions of one transaction
    Unsafe,     \* the requests whose saves may fail
    NoRow

TxStates == {"unsubmitted", "submitted", "pending", "validated", "failed"}

\* transaction.summary(), of which the table keeps the state; finalized is
\* set exactly in the final states.  The type is always 'payment'.
Snapshots == [req : Requests, state : TxStates]

ASSUME SubmissionAssumption ==
    /\ IdOf \in [Requests -> Ids]
    /\ Validated \subseteq Requests /\ Recorded \subseteq Requests
    /\ MaxSends \in Nat \ {0}
    /\ Unsafe \subseteq Requests
    /\ NoRow \notin Snapshots

VARIABLES
    req,        \* per request, its handler and its transaction object
    todo,       \* per identifier, the saves called and not yet in effect
    rows        \* transaction_history

vars == <<req, todo, rows>>

-----------------------------------------------------------------------------
Final == {"validated", "failed"}

Table == INSTANCE AtomicStore WITH
    Saves <- Snapshots,
    ClientId <- [s \in Snapshots |-> IdOf[s.req]],
    Owner <- [s \in Snapshots |-> AccountOf[s.req]]

Steps == {"idle", "checking", "checked", "active", "over", "crashed"}
Listeners == {"error", "aborted", "submitted", "proposed", "success"}
Replies == {"duplicate", "error", "pending", "validated"}

\* The classes of the answer to a submission.  terAbort stands for
\* terNO_ACCOUNT, terNO_AUTH, terNO_LINE and terINSUF_FEE_B; after any other
\* ter result ripple-lib retries; a tef, tem or tel result is an error.
Results == {"tes", "tec", "ter", "terAbort", "fatal"}

\* What the answers to the submissions of a transaction have said together: that
\* it is received, when one says tes or the first says tec ('submitted' is
\* listened to once).
Heard == {"nothing", "other", "received"}

Hears(heard, result) ==
    IF result = "tes" \/ (result = "tec" /\ heard = "nothing") THEN "received"
    ELSE IF heard = "nothing" THEN "other" ELSE heard

\* A request: the step of its waterfall, the replies its callback was given,
\* the listeners it still has on the transaction, and of the transaction the
\* state, the flag finalized, the number of submissions (submitIndex is set
\* by the first), whether an answer to the last one is awaited, what the answers
\* have said so far, and the saves made in the current turn.
Fresh == [step |-> "idle", replies |-> <<>>, on |-> {}, state |-> "unsubmitted",
          final |-> FALSE, sends |-> 0, awaits |-> FALSE, heard |-> "nothing",
          saves |-> <<>>]

TypeOK ==
    /\ \A r \in Requests :
          /\ req[r].step \in Steps
          /\ req[r].replies \in Seq(Replies)
          /\ req[r].on \subseteq Listeners
          /\ req[r].state \in TxStates
          /\ req[r].final \in BOOLEAN /\ req[r].awaits \in BOOLEAN
          /\ req[r].sends \in 0..MaxSends
          /\ req[r].heard \in Heard
          /\ req[r].saves = <<>>
    /\ Table!TypeOK

Init ==
    /\ req = [r \in Requests |-> Fresh]
    /\ Table!Init

-----------------------------------------------------------------------------
(* Events of the transaction object.  Its constructor registers listeners of
   its own, which run before those of submitTransaction.                    *)

(* A definition whose name has a suffix after an underscore is a faulty
   variant of the one that follows it, a slip a property below must notice. *)

Reply(c, what) == [c EXCEPT !.replies = Append(@, what)]

\* The summary is taken before the state changes.
SetState_Early(r, c, new) ==
    IF c.state = new THEN c
    ELSE [c EXCEPT !.state = new,
                   !.saves = IF r \in Recorded /\ c.sends > 0
                             THEN Append(@, c.state) ELSE @]

\* setState, and the 'state' listener: a transaction that has been submitted
\* is saved at each change of its state.
SetState(r, c, new) ==
    IF c.state = new THEN c
    ELSE [c EXCEPT !.state = new,
                   !.saves = IF r \in Recorded /\ c.sends > 0
                             THEN Append(@, new) ELSE @]

\* The failed transaction gets a state that no reader of the table knows.
EmitError_OtherState(r, c) ==
    LET f == SetState(r, [c EXCEPT !.final = TRUE], "error") IN
    IF f.on \cap {"error", "aborted"} = {} THEN f
    ELSE Reply([f EXCEPT !.on = @ \ {"error", "aborted"}], "error")

\* An 'error' event: the transaction is finalized as failed, and the callback
\* that listens, _callback or the one that stands in for it after an abort,
\* is given the error.
EmitError(r, c) ==
    LET f == SetState(r, [c EXCEPT !.final = TRUE], "failed") IN
    IF f.on \cap {"error", "aborted"} = {} THEN f
    ELSE Reply([f EXCEPT !.on = @ \ {"error", "aborted"}], "error")

\* The 'error' listener stays registered after an answer.
FormatResponse_Deaf(c, what) == Reply(c, what)

\* formatTransactionResponseWrapper
FormatResponse(c, what) == Reply([c EXCEPT !.on = @ \ {"error"}], what)

\* The listeners of submitTransaction run before that of the constructor.
OnSubmitted_UserFirst(r, c, result) ==
    LET d == [c EXCEPT !.on = @ \ {"submitted"}] IN
    IF "submitted" \notin c.on THEN c
    ELSE SetState(r,
           IF result = "tec" /\ r \notin Validated THEN FormatResponse(d, "pending")
           ELSE IF result = "terAbort"
                THEN EmitError(r, [d EXCEPT !.on = (@ \ {"error"}) \cup {"aborted"}])
           ELSE d, "submitted")

\* The listener removed for the abort is not replaced.
OnSubmitted_NoStandIn(r, c, result) ==
    LET d == SetState(r, [c EXCEPT !.on = @ \ {"submitted"}], "submitted") IN
    IF "submitted" \notin c.on THEN c
    ELSE IF result = "tec" /\ r \notin Validated THEN FormatResponse(d, "pending")
    ELSE IF result = "terAbort" THEN EmitError(r, [d EXCEPT !.on = @ \ {"error"}])
    ELSE d

\* The 'submitted' event, with the class of message.engine_result.
OnSubmitted(r, c, result) ==
    LET d == SetState(r, [c EXCEPT !.on = @ \ {"submitted"}], "submitted") IN
    IF "submitted" \notin c.on THEN c
    ELSE IF result = "tec" /\ r \notin Validated THEN FormatResponse(d, "pending")
    ELSE IF result = "terAbort"
         THEN EmitError(r, [d EXCEPT !.on = (@ \ {"error"}) \cup {"aborted"}])
    ELSE d

\* options.validated is not looked at.
OnProposed_Always(r, c) ==
    IF "proposed" \notin c.on THEN c
    ELSE FormatResponse(
           SetState(r, [c EXCEPT !.on = @ \ {"proposed"}], "pending"), "pending")

\* The 'proposed' event.
OnProposed(r, c) ==
    LET d == SetState(r, [c EXCEPT !.on = @ \ {"proposed"}], "pending") IN
    IF "proposed" \notin c.on THEN c
    ELSE IF r \in Validated THEN d
    ELSE FormatResponse(d, "pending")

\* The 'success' event, whose message has validated: true.
OnSuccess(r, c) ==
    LET f == SetState(r, [c EXCEPT !.final = TRUE, !.on = @ \ {"success"}],
                      "validated") IN
    IF r \in Validated THEN FormatResponse(f, "validated") ELSE f

\* The end of a turn that left request r as c: its saves are now called.
Commit(r, c) ==
    /\ req' = [req EXCEPT ![r] = [c EXCEPT !.saves = <<>>]]
    /\ todo' = [todo EXCEPT ![IdOf[r]] =
                   @ \o [k \in 1..Len(c.saves) |->
                            [req |-> r, state |-> c.saves[k]]]]
    /\ UNCHANGED rows

-----------------------------------------------------------------------------
(* The handler.                                                             *)

\* The request has passed validation; a payment sends the duplicate query.
Receive(r) ==
    /\ req[r].step = "idle"
    /\ Commit(r, [req[r] EXCEPT !.step = IF r \in Recorded THEN "checking"
                                                           ELSE "checked"])

\* A payment may be tried again when the row says that it failed.
CheckDuplicate_Again(r) ==
    /\ req[r].step = "checking"
    /\ Commit(r, IF rows[IdOf[r]] = NoRow \/ rows[IdOf[r]].state = "failed"
                 THEN [req[r] EXCEPT !.step = "checked"]
                 ELSE Reply([req[r] EXCEPT !.step = "over"], "duplicate"))

\* The answer of blockDuplicates: db.getTransaction finds by
\* client_resource_id, whatever the account and the type.
CheckDuplicate(r) ==
    /\ req[r].step = "checking"
    /\ Commit(r, IF rows[IdOf[r]] = NoRow
                 THEN [req[r] EXCEPT !.step = "checked"]
                 ELSE Reply([req[r] EXCEPT !.step = "over"], "duplicate"))

\* The duplicate query fails, or transaction.secret() throws.
Refuse(r) ==
    /\ req[r].step \in {"checking", "checked"}
    /\ Commit(r, Reply([req[r] EXCEPT !.step = "over"], "error"))

\* The third step of the waterfall, in a later turn than the answer: the
\* listeners are registered and transaction.submit() is called.
Submit(r) ==
    /\ req[r].step = "checked"
    /\ Commit(r, [req[r] EXCEPT
                    !.step = "active",
                    !.on = {"error", "submitted", "proposed", "success"}])

-----------------------------------------------------------------------------
(* What ripple-lib and the remote do with an active transaction.            *)

Live(r) == req[r].step = "active" /\ ~req[r].final

\* There is no 'postsubmit' listener.
Send_Unsaved(r) ==
    /\ Live(r)
    /\ req[r].sends < MaxSends
    /\ Commit(r, [req[r] EXCEPT !.sends = @ + 1, !.awaits = TRUE])

\* ripple-lib sends the transaction, for the first time or again (a retry, a
\* timeout or a reconnection); the answer to the former submission is muted.
\* The 'postsubmit' listener saves.
Send(r) ==
    /\ Live(r)
    /\ req[r].sends < MaxSends
    /\ Commit(r, [req[r] EXCEPT
                    !.sends = @ + 1,
                    !.awaits = TRUE,
                    !.saves = IF r \in Recorded THEN <<req[r].state>> ELSE <<>>])

\* The answer to the submission.
Respond(r, result) ==
    LET c == OnSubmitted(r, [req[r] EXCEPT !.awaits = FALSE,
                                           !.heard = Hears(@, result)], result) IN
    /\ Live(r)
    /\ req[r].awaits
    /\ Commit(r, CASE result = "tes"   -> OnProposed(r, c)
                   [] result = "fatal" -> EmitError(r, c)
                   [] OTHER            -> c)

\* The transaction appears in a validated ledger, with tesSUCCESS.
Validate(r) ==
    /\ Live(r)
    /\ req[r].sends > 0
    /\ Commit(r, OnSuccess(r, req[r]))

\* ripple-lib gives the transaction up: its fee is above max_fee, the server
\* answers with an error, it was sent too often, a ledger later than its last
\* ledger is validated, or it is in a validated ledger with a tec result.
Fail(r) ==
    /\ Live(r)
    /\ Commit(r, EmitError(r, req[r]))

-----------------------------------------------------------------------------
\* The next save of an identifier takes effect, or fails.
Save(i) ==
    /\ \/ Table!Apply(i)
       \/ /\ Table!Drop(i)
          /\ \/ Head(todo[i]).req \in Unsafe
             \/ ~Table!Accepts(rows[i], Head(todo[i]))
    /\ UNCHANGED req

\* The process ends; requests and transaction objects are gone.
Crash ==
    /\ Table!Crash
    /\ req' = [r \in Requests |->
                 IF req[r].step \in {"checking", "checked", "active"}
                 THEN [req[r] EXCEPT !.step = "crashed"] ELSE req[r]]

Handler(r) == Receive(r) \/ CheckDuplicate(r) \/ Refuse(r) \/ Submit(r)

RippleLib(r) ==
    \/ Send(r) \/ Validate(r) \/ Fail(r)
    \/ \E result \in Results : Respond(r, result)

Next ==
    \/ \E r \in Requests : Handler(r) \/ RippleLib(r)
    \/ \E i \in Ids : Save(i)
    \/ Crash

\* The table answers every query and the waterfall takes its next step.  A
\* transaction does not stay undecided: ripple-lib's last ledger sequence,
\* which a payment always sets, makes it fail if it is not validated.
Fairness ==
    /\ \A r \in Requests :
          /\ WF_vars(CheckDuplicate(r) \/ Refuse(r) \/ Submit(r))
          /\ WF_vars(Validate(r) \/ Fail(r))
    /\ \A i \in Ids : WF_vars(Save(i))

Spec == Init /\ [][Next]_vars /\ Fairness
-----------------------------------------------------------------------------
\* "ensures that you do not accidentally submit the same payment twice": of
\* the payments of one account with one client_resource_id at most one is
\* ever submitted.
NoDoubleSubmission ==
    \A r, s \in Recorded :
       /\ r # s /\ IdOf[r] = IdOf[s] /\ AccountOf[r] = AccountOf[s]
       => req[r].sends = 0 \/ req[s].sends = 0

\* What the duplicate query does ensure: a payment that arrives, or whose
\* query is not yet answered, when its client_resource_id has a row is never
\* submitted, not even after a restart, and whoever owns the row.
KnownIdRefused ==
    \A r \in Recorded :
       [](/\ rows[IdOf[r]] # NoRow
          /\ req[r].step \in {"idle", "checking"}
          => [](req[r].sends = 0))

\* The callback is called a second time in one case only: a request that does
\* not wait for validation was answered at a tec result, and a later
\* submission of the same transaction is proposed.  In particular an error
\* never follows another answer.
SecondReplyNeedsResend ==
    \A r \in Requests : Len(req[r].replies) > 1 =>
       /\ req[r].replies = <<"pending", "pending">>
       /\ r \notin Validated
       /\ req[r].sends > 1

\* A client that waits for validation is told nothing before the transaction
\* is final, and what it is told is how the transaction ended.
ValidatedReplyIsFinal ==
    \A r \in Validated : req[r].step = "active" /\ req[r].replies # <<>> =>
       /\ req[r].final
       /\ req[r].replies[1] = "validated" <=> req[r].state = "validated"

\* The places of the saves of r among those called and not yet in effect.
Called(r) == {k \in DOMAIN todo[IdOf[r]] : todo[IdOf[r]][k].req = r}

\* The newest snapshot of a submitted payment, in a save under way or in its
\* row, has the state the transaction has now, unless saves failed.
NewestSaveIsCurrent ==
    \A r \in Recorded \ Unsafe : req[r].step = "active" =>
       /\ \A k \in Called(r) :
             (\A j \in Called(r) : j <= k) => todo[IdOf[r]][k].state = req[r].state
       /\ Called(r) = {} /\ rows[IdOf[r]] # NoRow /\ rows[IdOf[r]].req = r =>
             rows[IdOf[r]].state = req[r].state

\* While the process lives, a payment that has been submitted has left a
\* trace under its client_resource_id: a row, or a save of its own under way.
SubmittedIsRecorded ==
    \A r \in Recorded \ Unsafe : req[r].step = "active" /\ req[r].sends > 0 =>
       rows[IdOf[r]] # NoRow \/ Called(r) # {}

\* The row of a payment that is final does not change any more, unless another
\* payment with the same client_resource_id takes it over.
FinalRowStays ==
    [][\A i \in Ids : rows[i] # NoRow /\ rows[i].state \in Final =>
          rows'[i].req # rows[i].req \/ rows'[i] = rows[i]]_vars

Answered(r) == req[r].replies # <<>> \/ req[r].step = "crashed"

\* The transaction of r, a client that does not wait for validation, is
\* validated before an answer says that it is received.
Unheard(r) ==
    r \notin Validated /\ req[r].state = "validated" /\ req[r].heard # "received"

\* While the process lives every client is answered, through retries, aborts
\* and errors of the table, except the clients that are Unheard: no answer the
\* handler listens to came before 'success', and these are never answered while
\* the process lives, whatever README.old.md:1051 says ("Otherwise, the server
\* responds immediately").
ClientAnswered ==
    \A r \in Requests :
       /\ req[r].step \in {"checking", "checked"} ~> Answered(r) \/ Unheard(r)
       /\ [](Unheard(r) /\ req[r].step = "active" => req[r].replies = <<>>)
=============================================================================
