------------------------------ MODULE Gateway -------------------------------
(***************************************************************************)
(* The HTTP layer (server/router.js, routes.js, error-handler.js,          *)
(* response-handler.js) over the connection, with the handlers that depend *)
(* on the connection itself: the server status (api/info.js), the check of *)
(* the remote's ledgers before a notification (server-lib.js) and path     *)
(* finding (api/payments.js).  The other handlers have modules of their    *)
(* own; here they are what their callback does.                            *)
(*                                                                         *)
(* A turn of JavaScript is an action.  Requests to the remote under way    *)
(* are a set of their own, for an answer may come when nobody waits for it *)
(* any more, and may never come when the connection was lost.              *)
(***************************************************************************)
EXTENDS Connection, Naturals, Sequences

CONSTANTS
    Requests,   \* the HTTP requests
    Top,        \* ledgers are numbered 1..Top
    None

ASSUME GatewayAssumption == Top \in Nat /\ None \notin Nat

VARIABLES
    req,        \* per request, its handler
    calls,      \* requests to the remote under way
    alive       \* the process has not ended with an uncaught exception

vars == <<connection, req, calls, alive>>

-----------------------------------------------------------------------------
\* now: answered in the turn they arrive (uuid, server/connected,
\* transaction-fee, wallet/new, transaction/sign).  xrpPaths is a path find for
\* an amount of XRP.  submit: whatever transact submits and 200 answers, a
\* payment, an order, its cancellation, settings; trustline: a trust line, whose
\* answer is 201.  history: the lists of payments and of notifications.  query:
\* the other handlers, which only read or submit a signed blob.
Submitting == {"submit", "trustline"}

\* What a handler of these kinds does with the transactions it has found may
\* throw in a callback of the remote, where nothing catches it.
Searching == {"history", "notification"}

Kinds == {"now", "status", "paths", "xrpPaths", "query"} \cup Submitting
            \cup Searching

\* What a handler's callback is called with: data, or an error by its name;
\* 'missing' is the remote's txnNotFound or actNotFound.
Errors == {"InvalidRequestError", "RippledNetworkError", "NotFoundError",
           "TimeOutError", "ApiError", "missing", "other"}
Outcomes == Errors \cup {"ok"}

\* respond.success or respond.created; handleError.
HttpStatus(kind, out) ==
    CASE out = "ok"                     -> IF kind = "trustline" THEN 201 ELSE 200
      [] out = "InvalidRequestError"    -> 400
      [] out \in {"NotFoundError", "missing"} -> 404
      [] out = "RippledNetworkError"    -> 502
      [] out = "TimeOutError"           -> 504
      [] out \in {"ApiError", "other"}  -> 500

\* What the handler of each kind asks the remote first.
Asks == [kind \in Kinds \ {"now"} |->
           CASE kind \in {"status", "notification"} -> "info"
             [] kind \in {"paths", "xrpPaths"}      -> "paths"
             [] OTHER                               -> "handler"]

Places == {"idle", "info", "paths", "balance", "handler", "over"}

\* A request: its kind (chosen on arrival), where its handler is, whether the
\* path request still has its listeners, whether paths were found, what the
\* callback was called with, and the status of the response.
Fresh == [kind |-> None, at |-> "idle", listens |-> FALSE, found |-> FALSE,
          replies |-> <<>>, status |-> None]

Call == [req : Requests, what : Places \ {"idle", "over"}]

Statuses == {200, 201, 400, 404, 500, 502, 504}

TypeOK ==
    /\ ConnectionTypeOK
    /\ \A r \in Requests :
          /\ req[r].kind \in Kinds \cup {None}
          /\ req[r].at \in Places
          /\ req[r].listens \in BOOLEAN /\ req[r].found \in BOOLEAN
          /\ req[r].replies \in Seq(Outcomes)
          /\ req[r].status \in Statuses \cup {None}
          /\ req[r].at \in {"idle", "info", "paths", "balance"} =>
                req[r].replies = <<>>
    /\ calls \subseteq Call
    /\ alive \in BOOLEAN

Init ==
    /\ ConnectionInit
    /\ req = [r \in Requests |-> Fresh]
    /\ calls = {}
    /\ alive = TRUE

-----------------------------------------------------------------------------
(* A definition whose name has a suffix after an underscore is a faulty
   variant of the one that follows it, a slip a property below must notice. *)

Alter(r, c) == req' = [req EXCEPT ![r] = c]

\* makeCallback: the first call sends the response.  An error after it goes
\* past handleError and is dropped; data after it is written to a response
\* that is sent, which throws, and nothing catches it.
CallBack(r, c, out) ==
    /\ Alter(r, [c EXCEPT
                   !.replies = Append(@, out),
                   !.status = IF @ = None THEN HttpStatus(c.kind, out) ELSE @])
    /\ alive' = (out # "ok" \/ c.status = None)

\* The handler does not stop after an answer.
Answer_GoingOn(r, c, out) == CallBack(r, c, out)

Answer(r, c, out) == CallBack(r, [c EXCEPT !.at = "over"], out)

\* The handler goes on with another request to the remote.
GoOn(r, c, what, left) ==
    /\ Alter(r, [c EXCEPT !.at = what])
    /\ calls' = left \cup {[req |-> r, what |-> what]}
    /\ UNCHANGED alive

Waiting(r, what) == [req |-> r, what |-> what] \in calls

Others(r, what) == calls \ {[req |-> r, what |-> what]}

-----------------------------------------------------------------------------
\* A request arrives: the middleware tests the connection, and the handler
\* runs in the same turn; it may refuse the parameters.
Arrive(r, kind) ==
    LET c == [req[r] EXCEPT !.kind = kind] IN
    /\ req[r].at = "idle"
    /\ UNCHANGED connection
    /\ \/ /\ ~IsConnected
          /\ Answer(r, c, "RippledNetworkError")
          /\ UNCHANGED calls
       \/ /\ IsConnected /\ kind # "status"
          /\ Answer(r, c, "InvalidRequestError")
          /\ UNCHANGED calls
       \/ /\ IsConnected /\ kind = "now"
          /\ Answer(r, c, "ok")
          /\ UNCHANGED calls
       \/ /\ IsConnected /\ kind # "now"
          /\ GoOn(r, [c EXCEPT !.listens = kind \in {"paths", "xrpPaths"}],
                  Asks[kind], calls)

-----------------------------------------------------------------------------
(* getStatus and remoteHasLedger.                                           *)

\* complete_ledgers lists the ledgers of the remote as runs, a run of one
\* ledger by its number alone.  The pattern takes the run at the end, and
\* only if it has two ends.
LastRun(complete) ==
    {l \in complete : \A k \in l..Top :
        (\E j \in complete : j >= k) => k \in complete}

NoMatch(complete) == \A l, k \in LastRun(complete) : l = k

\* serverInfo.info without a server to name: getStatus reads _url of null.
StatusArrives_Trusting(r, complete) ==
    /\ Waiting(r, "info")
    /\ calls' = Others(r, "info")
    /\ req[r].kind = "status"
    /\ IF HasServer THEN Answer(r, req[r], "ok")
                    ELSE UNCHANGED req /\ alive' = FALSE

\* The status of the server; complete stands for the ledgers in it.  The
\* server is asked for again, for it may be gone.
StatusArrives(r, complete) ==
    /\ Waiting(r, "info")
    /\ calls' = Others(r, "info")
    /\ req[r].kind = "status"
    /\ Answer(r, req[r], IF HasServer THEN "ok" ELSE "RippledNetworkError")

\* The same for the check of the ledger l before a notification, which goes
\* on with the searches.  Without a match match[1] is read of null.
LedgerStatusArrives(r, complete, l) ==
    /\ Waiting(r, "info")
    /\ req[r].kind = "notification"
    /\ \/ /\ ~HasServer
          /\ calls' = Others(r, "info")
          /\ Answer(r, req[r], "RippledNetworkError")
       \/ /\ HasServer /\ NoMatch(complete)
          /\ calls' = Others(r, "info")
          /\ alive' = FALSE
          /\ UNCHANGED req
       \/ /\ HasServer /\ ~NoMatch(complete) /\ l \notin LastRun(complete)
          /\ calls' = Others(r, "info")
          /\ Answer(r, req[r], "NotFoundError")
       \/ /\ HasServer /\ ~NoMatch(complete) /\ l \in LastRun(complete)
          /\ GoOn(r, req[r], "handler", Others(r, "info"))

\* The remote refuses the request; getServerStatus makes it a network error.
StatusFails(r) ==
    /\ Waiting(r, "info")
    /\ calls' = Others(r, "info")
    /\ Answer(r, req[r], IF req[r].kind = "status" THEN "RippledNetworkError"
                                                   ELSE "other")

-----------------------------------------------------------------------------
(* getPathFind.                                                             *)

\* formatPath: the paths, or why there are none.
FormatPath(found) == IF found THEN "ok" ELSE "NotFoundError"

\* addDirectXrpPath asks for the balance of the source account when XRP is to
\* be delivered and the destination takes it.
PathsArrive(r, found, takesXrp) ==
    LET c == [req[r] EXCEPT !.listens = FALSE, !.found = found]
        left == Others(r, "paths")
    IN
    /\ Waiting(r, "paths")
    /\ \/ /\ ~req[r].listens
          /\ calls' = left
          /\ UNCHANGED <<req, alive>>
       \/ /\ req[r].listens /\ req[r].kind = "xrpPaths" /\ takesXrp
          /\ GoOn(r, c, "balance", left)
       \/ /\ req[r].listens /\ ~(req[r].kind = "xrpPaths" /\ takesXrp)
          /\ calls' = left
          /\ Answer(r, c, FormatPath(found))

PathsFail(r) ==
    /\ Waiting(r, "paths")
    /\ calls' = Others(r, "paths")
    /\ IF req[r].listens
       THEN \E out \in {"missing", "other"} :
               Answer(r, [req[r] EXCEPT !.listens = FALSE], out)
       ELSE UNCHANGED <<req, alive>>

\* With enough XRP the direct payment is one more alternative.
BalanceArrives(r, enough) ==
    /\ Waiting(r, "balance")
    /\ calls' = Others(r, "balance")
    /\ Answer(r, req[r], FormatPath(enough \/ req[r].found))


\* An error, or an account without a balance.
BalanceFails(r) ==
    /\ Waiting(r, "balance")
    /\ calls' = Others(r, "balance")
    /\ Answer(r, req[r], "other")

\* The listeners stay.
Timeout_Listening(r) ==
    /\ req[r].at = "paths"
    /\ Answer(r, req[r], "TimeOutError")
    /\ link' = Disconnected
    /\ UNCHANGED <<index, fresh, calls>>

\* The path request is not given a timer.
Timeout_Never(r) == FALSE /\ UNCHANGED vars

\* CONNECTION_TIMEOUT has passed and the path request has emitted nothing: its
\* listeners are removed, the remote is disconnected, whoever else uses it, to
\* be connected again, and the request is answered.
Timeout(r) ==
    /\ req[r].at = "paths"
    /\ Answer(r, [req[r] EXCEPT !.listens = FALSE], "TimeOutError")
    /\ link' = Disconnected
    /\ UNCHANGED <<index, fresh, calls>>

-----------------------------------------------------------------------------
\* A handler with a module of its own calls back.  One that submits may be
\* given data twice, whatever the type of its transaction
\* (SecondReplyNeedsResend of Submission): it stays until that is over.
HandlerAnswers(r, out) ==
    /\ Waiting(r, "handler")
    /\ \/ /\ calls' = Others(r, "handler")
          /\ req[r].replies = <<>>
          /\ Answer(r, req[r], out)
       \/ /\ req[r].kind \in Submitting /\ out = "ok"
          /\ Len(req[r].replies) < 2
          /\ UNCHANGED calls
          /\ CallBack(r, req[r], out)

\* The filter of the transactions, their comparison or the parser of a
\* notification reads a field of what is not there: the failed row of the table
\* or the transaction that was not found (AnswersOrErrors of AccountHistory,
\* Notifications).
HandlerThrows(r) ==
    /\ Waiting(r, "handler")
    /\ req[r].kind \in Searching
    /\ calls' = Others(r, "handler")
    /\ alive' = FALSE
    /\ UNCHANGED req

\* The transaction is over; its request was answered.
HandlerEnds(r) ==
    /\ Waiting(r, "handler")
    /\ req[r].replies # <<>>
    /\ calls' = Others(r, "handler")
    /\ Alter(r, [req[r] EXCEPT !.at = "over"])
    /\ UNCHANGED alive

\* The remote answers over a connection, or while it is being closed.
Remote(r) ==
    /\ link \in {"up", "closing"}
    /\ UNCHANGED connection
    /\ \/ \E complete \in SUBSET (1..Top) :
             \/ StatusArrives(r, complete)
             \/ \E l \in 1..Top : LedgerStatusArrives(r, complete, l)
       \/ \E found, takesXrp \in BOOLEAN : PathsArrive(r, found, takesXrp)
       \/ \E enough \in BOOLEAN : BalanceArrives(r, enough)
       \/ \E out \in Outcomes \ {"TimeOutError", "RippledNetworkError"} :
             HandlerAnswers(r, out)
       \/ StatusFails(r) \/ PathsFail(r) \/ BalanceFails(r)
       \/ HandlerThrows(r) \/ HandlerEnds(r)

\* With a connection go the answers of some of the requests made over it.
ConnectionStep ==
    /\ \/ (Lose \/ Close) /\ calls' \in SUBSET calls
       \/ (Connect \/ LedgerClosed \/ Silence) /\ UNCHANGED calls
    /\ UNCHANGED <<req, alive>>

Next ==
    /\ alive
    /\ \/ \E r \in Requests :
             \/ \E kind \in Kinds : Arrive(r, kind)
             \/ Remote(r)
             \/ Timeout(r)
       \/ ConnectionStep

\* Timers run out, ripple-lib goes on trying to connect and a remote that is
\* connected answers what it was asked.  No connection is assumed to last.
Fairness ==
    /\ WF_vars(alive /\ (Connect \/ Close) /\ ConnectionStep)
    /\ \A r \in Requests :
          /\ WF_vars(alive /\ Timeout(r))
          /\ WF_vars(alive /\ link = "up" /\ Remote(r))

Spec == Init /\ [][Next]_vars /\ Fairness
-----------------------------------------------------------------------------
\* A callback is called once, whatever comes late: only that of a request that
\* submits a transaction is called again, with data both times.
CalledOnce ==
    \A r \in Requests : Len(req[r].replies) > 1 =>
       req[r].kind \in Submitting /\ req[r].replies = <<"ok", "ok">>

\* What ends the process: the second answer of a request that submits, a
\* notification when the last run of the remote's ledgers is not a pair of
\* numbers, and a search for transactions, by what the remote answers it.  No
\* answer that comes after the connection or the client's answer is gone does,
\* and no path find, status or other query.
EndsForAReason ==
    [][~alive' => \E r \in Requests :
          \/ req[r].kind \in Submitting /\ req'[r].replies = <<"ok", "ok">>
          \/ /\ req[r].kind = "notification" /\ HasServer
             /\ [req |-> r, what |-> "info"] \in calls \ calls'
          \/ /\ req[r].kind \in Searching /\ req[r].replies = <<>>
             /\ [req |-> r, what |-> "handler"] \in calls \ calls']_vars

\* A path find never waits for ever for paths, not even when its request was
\* lost with the connection.
PathsAnswered ==
    \A r \in Requests : req[r].at = "paths" ~> req[r].at # "paths" \/ ~alive

\* The time-out of a path find does not leave the process disconnected.
LinkRestored == []<>(link = "up" \/ ~alive)

=============================================================================
