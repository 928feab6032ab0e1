---------------------------- MODULE LedgerQueries ----------------------------
(***************************************************************************)
(* The queries of the state of a ledger: getOrders and getOrderBook        *)
(* (api/orders.js), getTrustLines (api/trustlines.js) and getBalances      *)
(* (api/balances.js), and a client that reads a long list page by page.    *)
(*                                                                         *)
(* A query asks the remote several times, one page after the other or two  *)
(* things at once, while ledgers close.  Queries share no state, so there  *)
(* is one.                                                                 *)
(***************************************************************************)
EXTENDS Naturals, SequencesExt

CONSTANTS
    Entries,    \* orders or trust lines of the account, in directory order
    Books,      \* the account's entries in each of the ledgers 1, 2, ...
    Matching,   \* the entries that the filters of a narrowed query let pass
    Limits      \* the numeric values of limit

Ledgers == DOMAIN Books

ASSUME QueryAssumption ==
    /\ Entries \subseteq Nat \ {0} /\ Matching \subseteq Entries
    /\ Books # <<>> /\ Books \in Seq(Seq(Entries))
    /\ \A l \in Ledgers : \A m, n \in DOMAIN Books[l] :
          m < n => Books[l][m] < Books[l][n]
    /\ Limits \subseteq Nat \ {0} /\ Limits # {}

VARIABLES
    height,     \* the last validated ledger
    call,       \* the query: its step and its options
    pending,    \* its requests to the remote
    result,     \* what was gathered, and in the end the answer
    earlier     \* the entries of the pages that the client read before

vars == <<height, call, pending, result, earlier>>

-----------------------------------------------------------------------------
Ops == {"orders", "trustlines", "balances", "xrp", "book"}
Parts == {"page", "xrp", "header", "bids", "asks"}
NoMarker == 0
Default == 0    \* no ledger given: parseLedger makes it 'validated'

\* narrowed: currency, counterparty or frozen is given (balances of XRP alone
\* are the operation "xrp").  all: limit is 'all'; the limit is then the
\* default one.  since is the last validated ledger when the query began.
Calls == [step : {"idle", "waiting", "answered", "failed"}, op : Ops,
          narrowed : BOOLEAN, all : BOOLEAN, limit : Limits,
          ledger : Ledgers \cup {Default}, marker : Entries \cup {NoMarker},
          since : Ledgers]

Requests == [part : Parts, ledger : Ledgers \cup {Default},
             marker : Entries \cup {NoMarker}]

Nothing == [ledger |-> Default, marker |-> NoMarker, entries |-> <<>>, read |-> {}]

TypeOK ==
    /\ height \in Ledgers
    /\ call \in Calls
    /\ pending \subseteq Requests
    /\ call.step # "waiting" <=> pending = {}
    /\ result.ledger \in Ledgers \cup {Default}
    /\ result.marker \in Entries \cup {NoMarker}
    /\ result.entries \in Seq(Entries)
    /\ result.read \subseteq Parts \X Ledgers
    /\ earlier \in Seq(Entries)

Init ==
    /\ height \in Ledgers
    /\ call = [step |-> "idle", op |-> "xrp", narrowed |-> FALSE, all |-> FALSE,
               limit |-> CHOOSE n \in Limits : TRUE,
               ledger |-> Default, marker |-> NoMarker, since |-> height]
    /\ pending = {}
    /\ result = Nothing
    /\ earlier = <<>>

-----------------------------------------------------------------------------
Close ==
    /\ height + 1 \in Ledgers
    /\ height' = height + 1
    /\ UNCHANGED <<call, pending, result, earlier>>

Request(part, ledger, marker) == [part |-> part, ledger |-> ledger, marker |-> marker]

\* The ledger from which the remote answers.
Version(q) == IF q.ledger = Default THEN height ELSE q.ledger

\* The parts whose requests a query begins with.
Begin(c) ==
    CASE c.op = "book" -> {Request("header", Default, NoMarker)}
      [] c.op = "xrp" -> {Request("xrp", c.ledger, NoMarker)}
      [] c.op = "balances" /\ ~c.narrowed ->
            {Request("xrp", c.ledger, NoMarker), Request("page", c.ledger, c.marker)}
      [] OTHER -> {Request("page", c.ledger, c.marker)}

Start(c) ==
    /\ call' = c
    /\ pending' = Begin(c)
    /\ result' = Nothing
    /\ UNCHANGED height

Ask(op, narrowed, all, limit, ledger) ==
    /\ call.step # "waiting"
    /\ op \in {"orders", "xrp", "book"} => ~narrowed
    /\ op \in {"orders", "trustlines", "balances"} \/ ~all
    /\ Start([step |-> "waiting", op |-> op, narrowed |-> narrowed, all |-> all,
              limit |-> limit, ledger |-> ledger, marker |-> NoMarker,
              since |-> height])
    /\ earlier' = <<>>

\* The client goes on from the marker of an answer, and gives the ledger of
\* that answer, without which validatePaging refuses the marker.
AskOn(all, limit) ==
    /\ call.step = "answered" /\ result.marker # NoMarker
    /\ Start([call EXCEPT !.step = "waiting", !.all = all, !.limit = limit,
                          !.ledger = result.ledger, !.marker = result.marker,
                          !.since = height])
    /\ earlier' = earlier \o result.entries

-----------------------------------------------------------------------------
(* The answers of the remote.                                               *)

\* The query is answered with the first of its results.
Settle_First(requests, r) ==
    /\ pending' = requests
    /\ result' = r
    /\ call' = [call EXCEPT !.step = "answered"]
    /\ UNCHANGED <<height, earlier>>

\* A query is answered when all its requests are.
Settle(requests, r) ==
    /\ pending' = requests
    /\ result' = r
    /\ call' = [call EXCEPT !.step = IF requests = {} THEN "answered" ELSE @]
    /\ UNCHANGED <<height, earlier>>

\* The next request uses the options of the query again.
NextPage_Again(r) == Request("page", call.ledger, r.marker)

\* The next request of an aggregate, from the result of the last one.
NextPage(r) == Request("page", r.ledger, r.marker)

\* The places of a book up to that of the marker.
Passed(book, marker) ==
    CHOOSE n \in 0..Len(book) :
        \A k \in DOMAIN book : k <= n <=> book[k] <= marker

\* The entries that the filters of the query let pass, and the list of them.
Passing(entries) == {e \in entries : call.narrowed => e \in Matching}

InOrder(entries) ==
    {list \in [1..Cardinality(entries) -> entries] :
        \A i, j \in DOMAIN list : i < j => list[i] < list[j]}

\* requestAccountOffers and requestAccountLines.  An aggregate goes on while
\* there is a marker.  getOrders puts each page before those it has, the others
\* put it after them.
PageArrives(q) ==
    LET v == Version(q)
        book == Books[v]
        first == Passed(book, q.marker) + 1
        last == IF Len(book) < first + call.limit THEN Len(book)
                ELSE first + call.limit - 1
        page == {book[k] : k \in first..last}
        r(kept) ==
          [ledger |-> v,
           marker |-> IF last < Len(book) THEN book[last] ELSE NoMarker,
           entries |-> IF call.op = "orders" THEN kept \o result.entries
                                             ELSE result.entries \o kept,
           read |-> result.read \cup {<<"page", v>>}]
    IN /\ q.part = "page"
       /\ \E kept \in InOrder(Passing(page)) :
             LET more == IF call.all /\ r(kept).marker # NoMarker
                         THEN {NextPage(r(kept))} ELSE {}
             IN Settle((pending \ {q}) \cup more, r(kept))

\* getXRPBalance: its balance comes first on a page of balances; the rest of
\* the answer is that of the trust lines, if they are asked for.
XrpArrives(q) ==
    /\ q.part = "xrp"
    /\ Settle(pending \ {q},
              [result EXCEPT !.ledger = IF call.op = "xrp" THEN Version(q) ELSE @,
                             !.read = @ \cup {<<"xrp", Version(q)>>}])

\* The requests for bids and asks do not name the ledger.
BookRequests_Default(ledger) ==
    {Request("bids", Default, NoMarker), Request("asks", Default, NoMarker)}

BookRequests(ledger) ==
    {Request("bids", ledger, NoMarker), Request("asks", ledger, NoMarker)}

\* getLastValidatedLedger, after which getBidsAndAsks asks for both sides.
HeaderArrives(q) ==
    /\ q.part = "header"
    /\ Settle(BookRequests(Version(q)), [result EXCEPT !.ledger = Version(q)])

OffersArrive(q) ==
    /\ q.part \in {"bids", "asks"}
    /\ Settle(pending \ {q},
              [result EXCEPT !.read = @ \cup {<<q.part, Version(q)>>}])

\* There is no listener for the error of the request for the XRP balance.
Fail_Unheard(q) ==
    /\ call' = [call EXCEPT !.step = IF q.part = "xrp" THEN @ ELSE "failed"]
    /\ pending' = IF q.part = "xrp" THEN pending \ {q} ELSE {}
    /\ UNCHANGED <<height, result, earlier>>

\* A request fails, which answers the query with an error; the answers to its
\* other requests make no difference any more.
Fail(q) ==
    /\ call' = [call EXCEPT !.step = "failed"]
    /\ pending' = {}
    /\ UNCHANGED <<height, result, earlier>>

Arrive(q) == PageArrives(q) \/ XrpArrives(q) \/ HeaderArrives(q) \/ OffersArrive(q)

Next ==
    \/ Close
    \/ \E op \in Ops, narrowed, all \in BOOLEAN, limit \in Limits,
          ledger \in {Default} \cup 1..height : Ask(op, narrowed, all, limit, ledger)
    \/ \E all \in BOOLEAN, limit \in Limits : AskOn(all, limit)
    \/ \E q \in pending : Arrive(q) \/ Fail(q)

\* The remote answers every request, or ripple-lib reports an error.
Fairness == WF_vars(\E q \in pending : Arrive(q) \/ Fail(q))

Spec == Init /\ [][Next]_vars /\ Fairness
-----------------------------------------------------------------------------
\* "Use all to return all results": when the last page has been read, whether
\* by an aggregate query or by a client that follows the markers, every entry
\* of the ledger that the last answer names was read, and once, whatever
\* ledgers closed meanwhile; trust lines and balances in the ledger's order.
NothingLostOrTwice ==
    LET all == earlier \o result.entries IN
    /\ call.step = "answered" /\ call.op \in {"orders", "trustlines", "balances"}
    /\ result.marker = NoMarker
    => /\ ToSet(all) = Passing(ToSet(Books[result.ledger]))
       /\ \A i, j \in DOMAIN all : i < j =>
             IF call.op = "orders" THEN all[i] # all[j] ELSE all[i] < all[j]

\* All parts of an answer are from the ledger that it names.  Only those of
\* balances for which no ledger was given may differ, each from a ledger that
\* was the last validated one at some time during the query.
OneLedger ==
    call.step = "answered" =>
       \A part \in result.read :
          IF call.op = "balances" /\ call.ledger = Default
          THEN call.since <= part[2] /\ part[2] <= height
          ELSE part[2] = result.ledger

\* Every query is answered.
Answered == call.step = "waiting" ~> call.step \in {"answered", "failed"}
=============================================================================
