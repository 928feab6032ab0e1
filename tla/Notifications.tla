---------------------------- MODULE Notifications ----------------------------
(***************************************************************************)
(* api/notifications.js: getNotification, getNotifications, and the search *)
(* for the previous and the next transaction that both use.                *)
(*                                                                         *)
(* The search calls getAccountTransactions three times: for the number of  *)
(* the account's transactions in the ledger of the notification, and with  *)
(* it for one more than that many on either side.  Each call is one action *)
(* here, as AccountHistory shows that its answer is the history of one     *)
(* moment; ledgers close and payments fail between the calls.              *)
(***************************************************************************)
EXTENDS AccountChain

CONSTANTS
    Rows,       \* the rows of failed payments the table may come to hold
    Limit,      \* the limit of the counting query
    Sizes,      \* values of results_per_page
    Pages       \* values of page; 0 stands for none

\* The rows are of payments that entered no ledger.  A payment that failed in a
\* ledger has a row too, which is dropped from an answer of the pager that has
\* the transaction as well; such rows are left out.
ASSUME NotificationAssumption ==
    /\ \A row \in Rows : /\ row.hash \in Nat \ DOMAIN Chain
                         /\ row.hash # 0 /\ row.ledger \in Nat
    /\ Limit \in Nat \ {0}
    /\ Sizes \subseteq Nat \ {0} /\ Pages \subseteq Nat

VARIABLES
    height,     \* the validated ledgers are 1..height
    rows,       \* the rows of the account with state 'failed'
    call,       \* the request: its step, options, and height when it came
    notes       \* the notifications of its answer

vars == <<height, rows, call, notes>>

NoHash == 0
Hashes == DOMAIN Chain \cup {row.hash : row \in Rows}
Infinite == MaxLedger + 1       \* no bound on the ledgers: -1

\* A notification: its transaction, where its search is, the number counted,
\* the answers of the two queries, if they are there, and previous_hash and
\* next_hash.
Note(n, step, previous, next) ==
    [tx |-> n, step |-> step, count |-> 0, back |-> <<>>, onward |-> <<>>,
     previous |-> previous, next |-> next]

Notes ==
    [tx : DOMAIN Chain, step : {"counting", "seeking", "found"}, count : Nat,
     back : {<<>>} \cup {<<got>> : got \in SUBSET Hashes},
     onward : {<<>>} \cup {<<got>> : got \in SUBSET Hashes},
     previous : Hashes \cup {NoHash}, next : Hashes \cup {NoHash}]

Calls ==
    [step : {"idle", "listing", "searching", "error", "thrown"},
     one : BOOLEAN, per : Nat, page : Nat, earliest : BOOLEAN, asked : 0..MaxLedger]

TypeOK ==
    /\ height \in 0..MaxLedger
    /\ rows \subseteq Rows
    /\ call \in Calls
    /\ notes \in Seq(Notes)

Idle == [step |-> "idle", one |-> TRUE, per |-> 1, page |-> 0,
         earliest |-> FALSE, asked |-> 0]

Init ==
    /\ height \in 0..MaxLedger
    /\ rows = {}
    /\ call = Idle
    /\ notes = <<>>

-----------------------------------------------------------------------------
(* The environment.                                                         *)

Close ==
    /\ height < MaxLedger
    /\ height' = height + 1
    /\ UNCHANGED <<rows, call, notes>>

FailLocally(row) ==
    /\ call.step # "thrown"
    /\ rows' = rows \cup {row}
    /\ UNCHANGED <<height, call, notes>>

-----------------------------------------------------------------------------
(* getAccountTransactions, with neither types nor exclude_failed.           *)

RowsIn(start, end) == {row \in rows : row.ledger \in start..end}

\* Two rows have no ledger_index, so a sort compares their meta, which they
\* have not either.  It throws in the callback of a query.
Throws(R) == \E row, other \in R : row # other

\* Nothing catches what the callback of a query throws: the process ends.
Throw ==
    /\ call' = [call EXCEPT !.step = "thrown"]
    /\ UNCHANGED notes

\* A row is neither less nor greater than a transaction of the remote: the
\* place to which the sort moves it is up to the implementation of the sort.
Mixed(list, R) ==
    IF R = {} THEN {list}
    ELSE {InsertAt(list, i, row.hash) : i \in 1..Len(list) + 1, row \in R}

\* The row is named by its client_resource_id.
Answers_ById(start, end, earliest, max) ==
    LET all == HistoryAt(height, start, end)
        R == RowsIn(start, end)
    IN {Firsts(all, max - 1, earliest) \cup {row.id} : row \in R} \cup
       IF R = {} \/ Cardinality(all) >= max THEN {Firsts(all, max, earliest)} ELSE {}

\* What the answer holds when at most max are wanted: a row may be moved to a
\* place before the cut or after it.
Answers(start, end, earliest, max) ==
    LET all == HistoryAt(height, start, end)
        R == RowsIn(start, end)
    IN {Firsts(all, max - 1, earliest) \cup {row.hash} : row \in R} \cup
       IF R = {} \/ Cardinality(all) >= max THEN {Firsts(all, max, earliest)} ELSE {}

-----------------------------------------------------------------------------
\* All the notifications are found.
Answered == call.step = "searching" /\ \A i \in DOMAIN notes : notes[i].step = "found"

\* getNotification: the transaction is found, in a ledger the remote has.
AskOne(n) ==
    /\ call.step \in {"idle", "error"} \/ Answered
    /\ Chain[n].ledger <= height
    /\ call' = [Idle EXCEPT !.step = "searching", !.asked = height]
    /\ notes' = <<Note(n, "counting", NoHash, NoHash)>>
    /\ UNCHANGED <<height, rows>>

AskList(per, page, earliest) ==
    /\ call.step \in {"idle", "error"} \/ Answered
    /\ call' = [step |-> "listing", one |-> FALSE, per |-> per, page |-> page,
                earliest |-> earliest, asked |-> height]
    /\ notes' = <<>>
    /\ UNCHANGED <<height, rows>>

\* parseNotifications: a notification has its neighbours in the list as
\* previous and next, and the last one is searched for; so is, when a page
\* was given, any one that lacks the neighbour on the newer side.
Noted(list, c) ==
    LET before(i) == IF i > 1 THEN list[i - 1] ELSE NoHash
        after(i)  == IF i < Len(list) THEN list[i + 1] ELSE NoHash
        previous(i) == IF c.earliest THEN after(i) ELSE before(i)
        next(i) == IF c.earliest THEN before(i) ELSE after(i)
        searched(i) ==
            \/ i = Len(list)
            \/ c.page # 0 /\ NoHash = IF c.earliest THEN previous(i) ELSE next(i)
    IN [i \in DOMAIN list |->
          Note(list[i], IF searched(i) THEN "counting" ELSE "found",
               previous(i), next(i))]

\* What is on the page, when the transactions of all ledgers and the rows have
\* been sorted.
Paged(c) ==
    LET first == c.per * (IF c.page = 0 THEN 0 ELSE c.page - 1) IN
    {Shorter(SubSeq(list, first + 1, Len(list)), c.per) :
        list \in Mixed(InOrder(HistoryAt(height, 0, Infinite), c.earliest),
                       RowsIn(0, Infinite))}

\* getNotifications: the page, dated, so in the order of attachDate.  The range
\* of ledgers is read from ledger_min and ledger_max, but given by the route as
\* ledger_index_min and ledger_index_max: there is none.  A row on the page has
\* no ledger to be dated by.
List ==
    /\ call.step = "listing"
    /\ IF Throws(RowsIn(0, Infinite)) THEN Throw
       ELSE \E list \in Paged(call) :
               IF ToSet(list) \subseteq DOMAIN Chain
               THEN /\ \E dated \in ByLedger(list) : notes' = Noted(dated, call)
                    /\ call' = [call EXCEPT !.step = "searching"]
               ELSE /\ call' = [call EXCEPT !.step = "error"]
                    /\ UNCHANGED notes
    /\ UNCHANGED <<height, rows>>

-----------------------------------------------------------------------------
(* attachPreviousAndNextTransactionIdentifiers                              *)

\* The number of transactions in the ledger of the notification.  The limit is
\* that of the remote's answer, 200; max is far above it, and min, of which the
\* default is 10, below: there is one round.
Count(i) ==
    LET at == Chain[notes[i].tx].ledger
        got == Firsts(HistoryAt(height, at, at), Limit, FALSE)
    IN /\ call.step = "searching" /\ notes[i].step = "counting"
       /\ IF Throws(RowsIn(at, at)) THEN Throw
          ELSE /\ notes' = [notes EXCEPT
                    ![i].count = Cardinality(got) + Cardinality(RowsIn(at, at)),
                    ![i].step = "seeking"]
               /\ UNCHANGED call
       /\ UNCHANGED <<height, rows>>

\* As many as were counted.
Wanted_Same(note) == note.count

\* One more than were counted.
Wanted(note) == note.count + 1

\* sortTransactions: what comes next to n, before and after it, among the
\* others; NoHash where nothing does.  A row may be moved next to it.
Neighbours(n, others) ==
    LET known == others \cap DOMAIN Chain
        sooner == {m \in known : m < n}
        later == {m \in known : m > n}
        before == {p \in known \cup {NoHash} :
                     IF sooner = {} THEN p = NoHash
                     ELSE p \in sooner /\ \A m \in sooner : m <= p}
        after == {q \in known \cup {NoHash} :
                     IF later = {} THEN q = NoHash
                     ELSE q \in later /\ \A m \in later : m >= q}
        row == others \ known
    IN (IF known = {} /\ row # {} THEN {} ELSE before \X after)
       \cup (row \X after) \cup (before \X row)

\* findPreviousAndNextTransactions, which leaves previous and next alone where
\* it finds none.
Placed(note) ==
    {[note EXCEPT
        !.step = "found", !.back = <<>>, !.onward = <<>>,
        !.previous = IF pair[1] = NoHash THEN @ ELSE pair[1],
        !.next = IF pair[2] = NoHash THEN @ ELSE pair[2]] :
     pair \in Neighbours(note.tx, (note.back[1] \cup note.onward[1]) \ {note.tx})}

\* When the other side has not been answered, the note waits for it.
Joined(note) ==
    IF note.back = <<>> \/ note.onward = <<>> THEN {note} ELSE Placed(note)

\* The rows that the two answers have between them.
Sorted(note) ==
    {row \in Rows : note.back # <<>> /\ note.onward # <<>>
                    /\ row.hash \in note.back[1] \cup note.onward[1]}

\* The call towards the newer or towards the older side.  The later answer of
\* the two is followed by the rest of the waterfall.
Seek(i, forward) ==
    LET note == notes[i]
        at == Chain[note.tx].ledger
        start == IF forward THEN at ELSE 0
        end == IF forward THEN Infinite ELSE at
        heard(got) == IF forward THEN [note EXCEPT !.onward = <<got>>]
                                ELSE [note EXCEPT !.back = <<got>>]
    IN /\ call.step = "searching" /\ note.step = "seeking"
       /\ <<>> = IF forward THEN note.onward ELSE note.back
       /\ IF Throws(RowsIn(start, end)) THEN Throw
          ELSE \E got \in Answers(start, end, forward, Wanted(note)) :
                  IF Throws(Sorted(heard(got))) THEN Throw
                  ELSE /\ \E new \in Joined(heard(got)) : notes' = [notes EXCEPT ![i] = new]
                       /\ UNCHANGED call
       /\ UNCHANGED <<height, rows>>

\* A query of the remote or of the table fails; or the ledger is not in the
\* complete ledgers of the remote.  In a search for a list, the error comes with
\* no notification, which parse does not survive.
Fail ==
    /\ call.step \in {"listing", "searching"} /\ ~Answered
    /\ call' = [call EXCEPT !.step =
                  IF @ = "searching" /\ ~call.one THEN "thrown" ELSE "error"]
    /\ UNCHANGED <<height, rows, notes>>

\* The process is started again; the table is as it was.
Restart ==
    /\ call.step = "thrown"
    /\ call' = Idle
    /\ notes' = <<>>
    /\ UNCHANGED <<height, rows>>

Search(i) == Count(i) \/ \E forward \in BOOLEAN : Seek(i, forward)

Next ==
    \/ Close
    \/ \E row \in Rows : FailLocally(row)
    \/ \E n \in DOMAIN Chain : AskOne(n)
    \/ \E per \in Sizes, page \in Pages, earliest \in BOOLEAN :
          AskList(per, page, earliest)
    \/ List
    \/ \E i \in DOMAIN notes : Search(i)
    \/ Fail \/ Restart

Spec == Init /\ [][Next]_vars
-----------------------------------------------------------------------------
(* Previous and next.  The transaction before n is n - 1, the one after it is
   n + 1, if there are such; a next one is owed if it was validated when the
   request came.                                                            *)

RightPrevious(note) == note.previous = IF note.tx > 1 THEN note.tx - 1 ELSE NoHash

RightNext(note) ==
    LET n == note.tx + 1
        there == n \in DOMAIN Chain
    IN IF there /\ Chain[n].ledger <= call.asked THEN note.next = n
       ELSE note.next \in IF there THEN {NoHash, n} ELSE {NoHash}

Searched(i) == notes[i].step = "found" /\ (call.one \/ i = Len(notes))

\* The account's transactions in one ledger.
InLedger(l) == {n \in DOMAIN Chain : Chain[n].ledger = l}

LedgerFits(n) == Cardinality(InLedger(Chain[n].ledger)) <= Limit

HasPrevious(note) == note.tx > 1

HasNext(note) ==
    /\ note.tx + 1 \in DOMAIN Chain
    /\ Chain[note.tx + 1].ledger <= call.asked

\* However many transactions share a ledger, as long as the counting query
\* returns them all (of more it does not, whatever the comment at
\* notifications.js:59 says), and whatever ledgers close during the search, a
\* notification has the transactions before and after its own; one that ends a
\* list has them if they exist.  No row of a failed payment is in the table.
NeighboursFound ==
    \A i \in DOMAIN notes :
       Searched(i) /\ rows = {} /\ LedgerFits(notes[i].tx) =>
          /\ call.one \/ HasPrevious(notes[i]) => RightPrevious(notes[i])
          /\ call.one \/ HasNext(notes[i]) => RightNext(notes[i])

\* "a hash you can use to call this method again to get the previous one", and
\* the same for the next: both hashes are of notifications, which the row of a
\* payment that failed is not.
NeighboursCanBeAsked ==
    \A i \in DOMAIN notes : Searched(i) /\ call.one =>
       {notes[i].previous, notes[i].next} \subseteq DOMAIN Chain \cup {NoHash}

\* m comes before n in a list that attachDate has dated: in an older ledger, or in
\* the same ledger and in the order asked for.
Precedes(m, n) ==
    \/ Chain[m].ledger < Chain[n].ledger
    \/ Chain[m].ledger = Chain[n].ledger /\ Sooner(m, n, call.earliest)

Beside(note) ==
    LET before == IF call.earliest THEN note.next ELSE note.previous
        after == IF call.earliest THEN note.previous ELSE note.next
    IN /\ before # NoHash => Precedes(before, note.tx)
       /\ after # NoHash /\ Precedes(note.tx, after)

\* In a list only the last notification is searched for; the others have as
\* previous and next what is beside them, which depends on both the order
\* asked for and the grouping by ledger.  So with the earliest first the next
\* one is older and the previous one newer, and otherwise they are so within a
\* ledger: README.old.md:2212 has previous ones older, always.
ListNeighbours ==
    \A i \in DOMAIN notes : ~call.one /\ i < Len(notes) => Beside(notes[i])
=============================================================================
