--------------------------- MODULE AccountHistory ---------------------------
(***************************************************************************)
(* The list of an account's payments, page by page: getAccountPayments     *)
(* (api/payments.js) through getAccountTransactions (api/transactions.js)  *)
(* to attachDate (api/lib/utils.js).                                       *)
(*                                                                         *)
(* A round of the pager asks the remote for the next transactions of the   *)
(* account and the table for its failed ones, in parallel; filters, sorts  *)
(* and merges what it got; and starts the next round until the page is     *)
(* full or the remote gives no marker.  Meanwhile ledgers close and        *)
(* payments fail.  A request keeps all it knows in its options, so one     *)
(* request beside this environment is the general case.                    *)
(***************************************************************************)
EXTENDS AccountChain

CONSTANTS
    Rows,       \* the rows of failed payments the table may come to hold
    Limit,      \* the largest answer of account_tx
    Sizes,      \* values of results_per_page
    Pages,      \* values of page
    Starts,     \* values of start_ledger
    Ends        \* values of end_ledger

\* The filters of the request reject a transaction of kind "other".  A row
\* may have the hash of a transaction of Chain, or one of no validated ledger.
ASSUME HistoryAssumption ==
    /\ \A row \in Rows : row.hash \in Nat /\ row.ledger \in Nat
    /\ Limit \in Nat \ {0}
    /\ Sizes \subseteq Nat \ {0} /\ Pages \subseteq Nat \ {0}
    /\ Starts \subseteq Nat /\ Ends \subseteq Nat

VARIABLES
    height,     \* the validated ledgers are 1..height
    rows,       \* the rows of the account with state 'failed'
    call        \* the request

vars == <<height, rows, call>>

None == -1

Steps == {"querying", "again", "dating", "answered", "error", "thrown", "gone"}

\* A marker names the next transaction to give.
Markers == {None} \cup 0..Len(Chain) + 1

\* A request: its step, "thrown" when it has ended the process and "gone" in the
\* next process; the validated ledgers when it came; the options of the
\* client; the options the pager rewrites (offset, marker); the answers of the
\* two queries, if they are there; and previous_transactions, at last the
\* result, as a list of hashes.
Calls ==
    [step : Steps, asked : 0..MaxLedger, per : Sizes, earliest : BOOLEAN,
     exclude : BOOLEAN, start : Starts, end : Ends, first : Nat, offset : Int,
     marker : Markers,
     remote : {<<>>} \cup {<<got>> : got \in SUBSET DOMAIN Chain},
     local : {<<>>} \cup {<<got>> : got \in SUBSET {row.hash : row \in Rows}},
     list : Seq(DOMAIN Chain)]

TypeOK ==
    /\ height \in 0..MaxLedger
    /\ rows \subseteq Rows
    /\ call \in Calls

-----------------------------------------------------------------------------
\* getAccountPayments: what the query string gives, and the arguments of the
\* pager, where min and max are both results_per_page.
Request(per, page, earliest, exclude, start, end) ==
    [step |-> "querying", asked |-> height, per |-> per, earliest |-> earliest,
     exclude |-> exclude, start |-> start, end |-> end,
     first |-> per * (page - 1),
     offset |-> per * (page - 1), marker |-> None,
     remote |-> <<>>, local |-> <<>>, list |-> <<>>]

Requests ==
    {Request(per, page, earliest, exclude, start, end) :
        per \in Sizes, page \in Pages, earliest \in BOOLEAN,
        exclude \in BOOLEAN, start \in Starts, end \in Ends}

Init ==
    /\ height \in 0..MaxLedger
    /\ rows = {}
    /\ call \in Requests

-----------------------------------------------------------------------------
(* The environment.                                                         *)

Close ==
    /\ height < MaxLedger
    /\ height' = height + 1
    /\ UNCHANGED <<rows, call>>

\* A save of the process reaches the table with state 'failed'.  That of a
\* transaction with a place in the ledgers comes after its ledger.
FailLocally(row) ==
    /\ call.step # "thrown"
    /\ row \notin rows
    /\ row.hash \in DOMAIN Chain => Chain[row.hash].ledger <= height
    /\ rows' = rows \cup {row}
    /\ UNCHANGED <<height, call>>

\* What account_tx gives this request when the validated ledgers are 1..top.
History(top, c) == HistoryAt(top, c.start, c.end)

\* The transactions account_tx has not given before the marker.
Onward(c) ==
    {n \in History(height, c) :
        \/ c.marker = None
        \/ IF c.earliest THEN n >= c.marker ELSE n <= c.marker}

-----------------------------------------------------------------------------
(* getLocalAndRemoteTransactions.  A definition whose name has a suffix after
   an underscore is a faulty variant of the one that follows it, a slip in
   that code which a property below must notice.                            *)

Waiting == call.step = "querying" /\ call.remote = <<>>

\* The first transactions, up to the limit, and the last of them.
Got(c) == Firsts(Onward(c), Limit, c.earliest)

LastOf(got, earliest) ==
    CHOOSE n \in got : \A m \in got : m = n \/ Sooner(m, n, earliest)

\* The marker of the first answer is kept.
RemoteAnswers_Stuck(more) ==
    LET last == LastOf(Got(call), call.earliest) IN
    /\ Waiting
    /\ more => Cardinality(Got(call)) = Limit
    /\ ~more => Got(call) = Onward(call)
    /\ call' = [call EXCEPT
         !.remote = <<Got(call)>>,
         !.marker = IF @ # None \/ ~more THEN @
                    ELSE IF call.earliest THEN last + 1 ELSE last - 1]
    /\ UNCHANGED <<height, rows>>

\* The marker is reckoned from the limit, as if it were an offset.
RemoteAnswers_Offset(more) ==
    LET last == LastOf(Got(call), call.earliest) IN
    /\ Waiting
    /\ more => Cardinality(Got(call)) = Limit
    /\ ~more => Got(call) = Onward(call)
    /\ call' = [call EXCEPT
         !.remote = <<Got(call)>>,
         !.marker = IF ~more THEN None
                    ELSE IF call.earliest THEN last + Limit ELSE last - Limit]
    /\ UNCHANGED <<height, rows>>

\* account_tx answers, and options.marker is replaced.  There is a marker when
\* there is more; when the answer just exhausts the history, the remote may
\* notice that or not.
RemoteAnswers(more) ==
    LET last == LastOf(Got(call), call.earliest) IN
    /\ Waiting
    /\ more => Cardinality(Got(call)) = Limit
    /\ ~more => Got(call) = Onward(call)
    /\ call' = [call EXCEPT
         !.remote = <<Got(call)>>,
         !.marker = IF ~more THEN None
                    ELSE IF call.earliest THEN last + 1 ELSE last - 1]
    /\ UNCHANGED <<height, rows>>

\* queryDB: the hashes of the failed rows of the request's ledgers, or nothing
\* when failed transactions are excluded.
LocalAnswers ==
    /\ call.step = "querying" /\ call.local = <<>>
    /\ call' = [call EXCEPT !.local =
         <<{row.hash : row \in
              {x \in rows : ~call.exclude /\ x.ledger \in call.start..call.end}}>>]
    /\ UNCHANGED <<height, rows>>

QueryFails ==
    /\ call.step \in {"querying", "dating"}
    /\ call' = [call EXCEPT !.step = "error"]
    /\ UNCHANGED <<height, rows>>

-----------------------------------------------------------------------------
(* The rest of the waterfall of getAccountTransactions.                     *)

\* _.uniq: the rows whose hash the remote has not just given.
OnlyLocal(c) == c.local[1] \ c.remote[1]

\* transactionFilter, for transactions of the remote.
Passes(n, exclude) ==
    /\ exclude => Chain[n].kind # "failed"
    /\ Chain[n].kind # "other"

\* transactionFilter, then sortTransactions by ledger and place in it.
Filtered(batch, c) ==
    InOrder({n \in batch : Passes(n, c.exclude)}, c.earliest)

\* The offset that remains is not computed before the list is cut.
Merged_LateOffset(c, batch) ==
    LET all == c.list \o batch
        rest == IF c.offset > 0 THEN SubSeq(all, c.offset + 1, Len(all)) ELSE all
    IN [c EXCEPT !.list = Shorter(rest, c.per),
                 !.offset = @ - Len(rest)]

\* The list is not cut to options.max.
Merged_NoMax(c, batch) ==
    LET all == c.list \o batch
        rest == IF c.offset > 0 THEN SubSeq(all, c.offset + 1, Len(all)) ELSE all
    IN [c EXCEPT !.list = rest,
                 !.offset = IF @ > 0 THEN @ - Len(all) ELSE @]

\* mergeAndTruncateResults
Merged(c, batch) ==
    LET all == c.list \o batch
        rest == IF c.offset > 0 THEN SubSeq(all, c.offset + 1, Len(all)) ELSE all
    IN [c EXCEPT !.list = Shorter(rest, c.per),
                 !.offset = IF @ > 0 THEN @ - Len(all) ELSE @]

\* Both queries have answered.  A row has no TransactionType, so the filter
\* by type throws, in the callback of the query that answered last, where
\* nothing catches it: the process ends.
Round ==
    /\ call.step = "querying" /\ call.remote # <<>> /\ call.local # <<>>
    /\ call' =
         IF OnlyLocal(call) # {} THEN [call EXCEPT !.step = "thrown"]
         ELSE LET c == Merged(call, Filtered(call.remote[1], call)) IN
              [c EXCEPT !.remote = <<>>, !.local = <<>>,
                        !.step = IF Len(c.list) >= c.per \/ c.marker = None
                                 THEN "dating" ELSE "again"]
    /\ UNCHANGED <<height, rows>>

\* setImmediate: the next round, with previous_transactions and the marker.
Again ==
    /\ call.step = "again"
    /\ call' = [call EXCEPT !.step = "querying"]
    /\ UNCHANGED <<height, rows>>

\* All the ledgers have answered; attachResourceId and the rest keep the order.
Answer ==
    /\ call.step = "dating"
    /\ \E dated \in ByLedger(call.list) :
          call' = [call EXCEPT !.list = dated, !.step = "answered"]
    /\ UNCHANGED <<height, rows>>

\* The process is started again; the table is as it was.
Restart ==
    /\ call.step = "thrown"
    /\ call' = [call EXCEPT !.step = "gone"]
    /\ UNCHANGED <<height, rows>>

\* The next request, once this one is over.
Ask(c) ==
    /\ call.step \in {"answered", "error", "gone"}
    /\ call' = c
    /\ UNCHANGED <<height, rows>>

Pager == (\E more \in BOOLEAN : RemoteAnswers(more)) \/ LocalAnswers \/ Round
         \/ Again \/ Answer \/ QueryFails

Next ==
    \/ Close
    \/ \E row \in Rows : FailLocally(row)
    \/ Pager \/ Restart
    \/ \E c \in Requests : Ask(c)

\* The remote and the table answer, and setImmediate calls.
Fairness ==
    /\ WF_vars(\E more \in BOOLEAN : RemoteAnswers(more))
    /\ WF_vars(LocalAnswers)
    /\ WF_vars(Round \/ Again \/ Answer)

Spec == Init /\ [][Next]_vars /\ Fairness
-----------------------------------------------------------------------------
\* The page as it is defined: the payments of the history, from the first on
\* that the earlier pages do not hold.
PageOf(top, c) ==
    LET found == {n \in History(top, c) : Passes(n, c.exclude)}
    IN {n \in found : Place(n, found, c.earliest) \in c.first + 1..c.first + c.per}

\* However many rounds it takes and whatever happens between them, the pager
\* gives the page of the history at one moment of the request: nothing is missing
\* at the seams of the rounds, nothing is given twice, nothing is out of its
\* place, and a page that is not full is the last one.
PageIsSlice ==
    call.step = "dating" =>
       /\ \E top \in call.asked..height : ToSet(call.list) = PageOf(top, call)
       /\ \A i, j \in DOMAIN call.list :
             i < j => Sooner(call.list[i], call.list[j], call.earliest)

\* The answer holds the payments of the page, each once, and orders them as the
\* code does: by ledger, the oldest first whatever was asked for, and those of
\* one ledger as asked for.  README.old.md:1266 says otherwise: by default "the
\* most recent payments first".
AnswerIsPage ==
    call.step = "answered" =>
       /\ \E top \in call.asked..height : ToSet(call.list) = PageOf(top, call)
       /\ \A i, j \in DOMAIN call.list : i < j =>
             LET m == call.list[i]  n == call.list[j] IN
             \/ Chain[m].ledger < Chain[n].ledger
             \/ /\ Chain[m].ledger = Chain[n].ledger
                /\ Sooner(m, n, call.earliest)

\* While transactions remain to be skipped nothing has been kept, so that a
\* round never skips one that an earlier round meant to give.
NothingKeptBeforeOffset ==
    /\ call.offset > 0 => call.list = <<>>
    /\ Len(call.list) <= call.per

\* Every listing without failed payments is answered.
ExcludedAnswered ==
    call.step = "querying" /\ call.exclude ~> call.step \in {"answered", "error"}

\* "Retrieve the details of multiple payments from the Remote and the local
\* database": a listing with failed payments in the local database is answered
\* too.  The exception of Round ends the process with the request in it.
FailedAnswered ==
    call.step = "querying" ~> call.step \in {"answered", "error"}
=============================================================================
