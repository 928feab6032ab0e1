------------------------- MODULE LedgerQueriesProofs -------------------------
(***************************************************************************)
(* Theorems about LedgerQueries, for any ledgers, filters and limits: type *)
(* correctness, that an answer is about one ledger, and that a list read   *)
(* to its end has every entry of its ledger once.                          *)
(*                                                                         *)
(* The first invariant says where the requests under way look.  A query    *)
(* that names no ledger has one request as long as its ledger is open;     *)
(* once an answer fixes it, every other request names it.  Balances ask    *)
(* for two things at once, and keep to one ledger only if it was named.    *)
(*                                                                         *)
(* The second says what has been read: the entries up to the marker of the *)
(* request under way, or of the answer, in the ledger which that names.    *)
(***************************************************************************)
EXTENDS LedgerQueries, FiniteSetTheorems, SequenceTheorems, TLAPS

Results ==
    [ledger : Ledgers \cup {Default}, marker : Entries \cup {NoMarker},
     entries : Seq(Entries), read : SUBSET (Parts \X Ledgers)]

\* The types.
Shape ==
    /\ height \in Ledgers
    /\ call \in Calls
    /\ call.since <= height
    /\ result \in Results
    /\ earlier \in Seq(Entries)
    /\ pending \subseteq Requests
    /\ call.step = "waiting" <=> pending # {}

During(l) == call.since <= l /\ l <= height

\* Balances of the last validated ledger.
NewestBalances ==
    /\ \A q \in pending : q.part \in {"xrp", "page"}
                          /\ (q.ledger = Default \/ During(q.ledger))
    /\ \A part \in result.read : During(part[2])

\* Balances of a ledger that was named.  The page gives the answer its ledger.
NamedBalances ==
    /\ \A q \in pending : q.part \in {"xrp", "page"} /\ q.ledger = call.ledger
    /\ \A part \in result.read : part[2] = call.ledger
    /\ result.ledger \in {Default, call.ledger}
    /\ result.ledger = Default /\ call.step \in {"waiting", "answered"} =>
          \E q \in pending : q.part = "page"

\* The other queries: one request, or one ledger.
OneAtATime ==
    /\ result.ledger = Default =>
          /\ result.read = {}
          /\ \A q, o \in pending : q = o
    /\ result.ledger # Default =>
          /\ \A part \in result.read : part[2] = result.ledger
          /\ \A q \in pending : q.ledger = result.ledger
    /\ \A q \in pending :
          /\ q.part = "header" => result.ledger = Default
          /\ q.part \in {"bids", "asks"} => result.ledger # Default
          /\ q.part = "xrp" => call.op = "xrp"

QueryInv ==
    IF call.op = "balances"
    THEN IF call.ledger = Default THEN NewestBalances ELSE NamedBalances
    ELSE OneAtATime

IInv == Shape /\ QueryInv

-----------------------------------------------------------------------------
(* Lists, and the places in a book.                                         *)

LEMMA LedgerTypes ==
    /\ Ledgers \subseteq Nat \ {0}
    /\ Entries \subseteq Nat \ {0}
    /\ \A l \in Ledgers :
          /\ Books[l] \in Seq(Entries)
          /\ Books[l] \in Seq(Nat)
          /\ \A m, n \in DOMAIN Books[l] : m < n => Books[l][m] < Books[l][n]
  <1>1. Ledgers \subseteq Nat \ {0}
    BY QueryAssumption DEF Ledgers
  <1>2. \A l \in Ledgers : Books[l] \in Seq(Entries)
    BY QueryAssumption DEF Ledgers
  <1>3. \A s \in Seq(Entries) : s \in Seq(Nat)
    <2>1. \A n : n \in Entries => n \in Nat
      BY QueryAssumption
    <2> QED  BY <2>1
  <1> QED  BY <1>1, <1>2, <1>3, QueryAssumption

\* A nonempty set of numbers has a least one.
LEMMA LeastNumber ==
    ASSUME NEW S \in SUBSET Nat, S # {}
    PROVE  \E n \in S : \A m \in S : n <= m
  <1>1. PICK n \in S : \A m \in S : <<m, n>> \notin OpToRel(<, Nat)
    BY WFMin, NatLessThanWellFounded
  <1>2. \A m \in S : ~(m < n)
    BY <1>1 DEF OpToRel
  <1> QED  BY <1>2

\* Passed is defined: a book is ascending, so what the marker has passed is the
\* part of it before the first entry that the marker has not passed.
LEMMA PassedPlace ==
    ASSUME NEW l \in Ledgers, NEW marker \in Nat
    PROVE  /\ Passed(Books[l], marker) \in 0..Len(Books[l])
           /\ \A k \in DOMAIN Books[l] :
                 k <= Passed(Books[l], marker) <=> Books[l][k] <= marker
  <1> DEFINE book == Books[l]
             ends == {k \in 0..Len(book) : k = Len(book) \/ book[k + 1] > marker}
  <1>1. /\ book \in Seq(Nat)
        /\ \A m, n \in DOMAIN book : m < n => book[m] < book[n]
    BY LedgerTypes
  <1> HIDE DEF book
  <1>2. PICK n \in ends : \A m \in ends : n <= m
    <2>1. Len(book) \in ends /\ ends \subseteq Nat
      BY <1>1
    <2> HIDE DEF ends
    <2> QED  BY <2>1, LeastNumber
  <1>3. ASSUME NEW k \in DOMAIN book, k <= n PROVE book[k] <= marker
    <2>1. k - 1 \in 0..Len(book) /\ k - 1 # Len(book) /\ k - 1 \notin ends
      BY <1>1, <1>2, <1>3
    <2> QED  BY <1>1, <2>1
  <1>4. ASSUME NEW k \in DOMAIN book, k > n PROVE book[k] > marker
    <2>1. n + 1 \in DOMAIN book /\ book[n + 1] > marker
      BY <1>1, <1>4
    <2> QED  BY <1>1, <1>4, <2>1
  <1>5. /\ n \in 0..Len(book)
        /\ \A k \in DOMAIN book : k <= n <=> book[k] <= marker
    BY <1>1, <1>3, <1>4
  <1> DEFINE Place(x) == \A k \in DOMAIN Books[l] : k <= x <=> Books[l][k] <= marker
  <1>6. \E x \in 0..Len(Books[l]) : Place(x)
    BY <1>5 DEF book
  <1>7. Passed(Books[l], marker) = CHOOSE x \in 0..Len(Books[l]) : Place(x)
    BY DEF Passed
  <1> HIDE DEF Place
  <1>8. /\ Passed(Books[l], marker) \in 0..Len(Books[l])
        /\ Place(Passed(Books[l], marker))
    BY <1>6, <1>7
  <1> QED  BY <1>8 DEF Place

\* The entries at some places of a book are a finite set, and so is what the
\* filters let pass: its lists are lists of entries.
LEMMA PageTypes ==
    ASSUME NEW l \in Ledgers, NEW m \in Nat, NEW n \in 0..Len(Books[l]),
           NEW kept \in InOrder(Passing({Books[l][k] : k \in m + 1..n}))
    PROVE  /\ kept \in Seq(Entries)
           /\ ToSet(kept) = Passing({Books[l][k] : k \in m + 1..n})
           /\ \A i, j \in DOMAIN kept : i < j => kept[i] < kept[j]
  <1> DEFINE page == {Books[l][k] : k \in m + 1..n}
             f == [k \in m + 1..n |-> Books[l][k]]
             passing == Passing(page)
             size == Cardinality(passing)
  <1>1. page \subseteq Entries
    BY LedgerTypes
  <1>2. IsFiniteSet(page)
    <2>1. IsFiniteSet(m + 1..n)
      BY FS_Interval, LedgerTypes
    <2>2. f \in Surjection(m + 1..n, page)
      BY DEF Surjection
    <2> HIDE DEF f, page
    <2> QED  BY <2>1, <2>2, FS_Surjection
  <1> HIDE DEF page
  <1>3. passing \subseteq page
    BY DEF Passing
  <1>4. IsFiniteSet(passing) /\ size \in Nat
    <2>1. IsFiniteSet(passing)
      BY <1>2, <1>3, FS_Subset
    <2> QED  BY <2>1, FS_CardinalityType
  <1>5. /\ kept \in [1..size -> passing]
        /\ \A i, j \in DOMAIN kept : i < j => kept[i] < kept[j]
    BY DEF InOrder, page
  <1> HIDE DEF passing, size
  <1>6. kept \in Seq(passing) /\ kept \in Seq(Entries)
    BY <1>1, <1>3, <1>4, <1>5
  <1>7. ToSet(kept) = passing
    <2>1. kept \in Injection(1..size, passing)
      <3>1. ASSUME NEW i \in 1..size, NEW j \in 1..size, kept[i] = kept[j]
            PROVE  i = j
        <4>1. kept[i] \in Nat /\ kept[j] \in Nat
          BY <1>1, <1>3, <1>5, LedgerTypes
        <4>2. ~(i < j) /\ ~(j < i)
          BY <1>5, <3>1, <4>1
        <4> QED  BY <1>4, <4>2
      <3> QED  BY <1>5, <3>1 DEF Injection, IsInjective
    <2>2. Cardinality(1..size) = Cardinality(passing)
      BY <1>4, FS_Interval DEF size
    <2>3. kept \in Surjection(1..size, passing)
      BY <1>4, <2>1, <2>2, FS_Injection
    <2> QED  BY <1>5, <2>3 DEF Surjection, ToSet
  <1> QED  BY <1>5, <1>6, <1>7 DEF passing, page
-----------------------------------------------------------------------------
\* The requests a query begins with.
LEMMA RequestType ==
    ASSUME NEW part \in Parts, NEW ledger \in Ledgers \cup {Default},
           NEW marker \in Entries \cup {NoMarker}
    PROVE  /\ Request(part, ledger, marker) \in Requests
           /\ Request(part, ledger, marker).part = part
           /\ Request(part, ledger, marker).ledger = ledger
           /\ Request(part, ledger, marker).marker = marker
  BY DEF Request, Requests

LEMMA BeginTypes ==
    ASSUME NEW c \in Calls
    PROVE  /\ Begin(c) \subseteq Requests
           /\ Begin(c) # {}
           /\ c.op = "book" => \E q : /\ Begin(c) = {q} /\ q.part = "header"
           /\ c.op = "xrp" => \E q : /\ Begin(c) = {q} /\ q.part = "xrp"
           /\ c.op \in {"orders", "trustlines"} =>
                 \E q : /\ Begin(c) = {q} /\ q.part = "page"
                        /\ q.ledger = c.ledger /\ q.marker = c.marker
           /\ c.op = "balances" =>
                 /\ \E q \in Begin(c) : q.part = "page"
                 /\ \A q, o \in Begin(c) : q.part = "page" /\ o.part = "page" => q = o
                 /\ \A q \in Begin(c) : /\ q.part \in {"xrp", "page"}
                                        /\ q.ledger = c.ledger
                                        /\ q.part = "page" => q.marker = c.marker
  <1> DEFINE header == Request("header", Default, NoMarker)
             xrp == Request("xrp", c.ledger, NoMarker)
             page == Request("page", c.ledger, c.marker)
  <1>1. /\ c.ledger \in Ledgers \cup {Default}
        /\ c.marker \in Entries \cup {NoMarker}
        /\ c.op \in Ops
    BY DEF Calls
  <1>2. /\ header \in Requests /\ header.part = "header"
        /\ xrp \in Requests /\ xrp.part = "xrp" /\ xrp.ledger = c.ledger
        /\ page \in Requests /\ page.part = "page"
        /\ page.ledger = c.ledger /\ page.marker = c.marker
    BY <1>1, RequestType DEF Parts
  <1>3. /\ c.op = "book" => Begin(c) = {header}
        /\ c.op = "xrp" => Begin(c) = {xrp}
        /\ c.op \in {"orders", "trustlines"} => Begin(c) = {page}
        /\ c.op = "balances" => Begin(c) = {xrp, page} \/ Begin(c) = {page}
    BY DEF Begin
  <1> HIDE DEF header, xrp, page
  <1> QED  BY <1>1, <1>2, <1>3 DEF Ops

\* A query begins, at the height of its beginning.
LEMMA StartStep ==
    ASSUME height \in Ledgers, NEW c, Start(c), c.step = "waiting",
           c.since = height, c \in Calls, earlier' \in Seq(Entries)
    PROVE  IInv'
  <1>1. /\ call' = c /\ height' = height /\ result' = Nothing
        /\ pending' = Begin(c)
    BY DEF Start
  <1>2. /\ result'.ledger = Default /\ result'.read = {}
        /\ result' \in Results
    BY <1>1 DEF Nothing, Results
  <1>3. height <= height
    BY LedgerTypes
  <1>4. Shape'
    BY <1>1, <1>2, <1>3, BeginTypes DEF Shape
  <1>5. CASE c.op \in {"book", "xrp"}
    BY <1>1, <1>2, <1>4, <1>5, BeginTypes DEF IInv, QueryInv, OneAtATime
  <1>6. CASE c.op = "balances"
    <2>1. /\ \A q \in pending' : q.part \in {"xrp", "page"} /\ q.ledger = c.ledger
          /\ \E q \in pending' : q.part = "page"
      BY <1>1, <1>6, BeginTypes
    <2> QED  BY <1>1, <1>2, <1>4, <1>6, <2>1
             DEF IInv, QueryInv, NewestBalances, NamedBalances
  <1>7. CASE c.op \in {"orders", "trustlines"}
    BY <1>1, <1>2, <1>4, <1>7, BeginTypes DEF IInv, QueryInv, OneAtATime
  <1> QED  BY <1>5, <1>6, <1>7 DEF Calls, Ops

LEMMA VersionType ==
    ASSUME IInv, NEW q \in pending
    PROVE  /\ Version(q) \in Ledgers /\ Version(q) # Default
           /\ q.ledger # Default => Version(q) = q.ledger
           /\ q.ledger = Default => Version(q) = height
  BY LedgerTypes DEF IInv, Shape, Calls, Results, Requests, Version, Default

\* What a settled request leaves: the query is the same, but for its step.
LEMMA SettleShape ==
    ASSUME IInv, NEW requests, NEW r, Settle(requests, r),
           r \in Results,
           requests \subseteq Requests,
           call.step = "waiting"
    PROVE  /\ Shape'
           /\ call'.op = call.op /\ call'.ledger = call.ledger
           /\ call'.since = call.since /\ height' = height
           /\ pending' = requests /\ result' = r
  <1> DEFINE step == IF requests = {} THEN "answered" ELSE "waiting"
  <1>1. /\ call' = [call EXCEPT !.step = step] /\ pending' = requests
        /\ result' = r /\ height' = height /\ earlier' = earlier
    BY DEF Settle
  <1>2. step \in {"answered", "waiting"} /\ (step = "waiting" <=> requests # {})
    OBVIOUS
  <1> HIDE DEF step
  <1>3. /\ call'.op = call.op /\ call'.ledger = call.ledger
        /\ call'.since = call.since /\ call'.step = step
        /\ call' \in Calls
    BY <1>1, <1>2 DEF IInv, Shape, Calls, Results, Requests
  <1> QED  BY <1>1, <1>2, <1>3 DEF IInv, Shape

\* The answer to a request for a page: the list of what passes of the places
\* m + 1 to n of the book, and the requests it leaves.
PageTaken(q, m, n, kept, r, requests) ==
    LET book == Books[Version(q)]  more == NextPage(r) IN
    /\ q.part = "page" /\ Version(q) \in Ledgers
    /\ m <= n /\ n <= Len(book) /\ (m = n => n = Len(book))
    /\ \A k \in DOMAIN book : k <= m <=> book[k] <= q.marker
    /\ kept \in Seq(Entries)
    /\ ToSet(kept) = Passing({book[k] : k \in m + 1..n})
    /\ \A i, j \in DOMAIN kept : i < j => kept[i] < kept[j]
    /\ r = [ledger |-> Version(q),
            marker |-> IF n < Len(book) THEN book[n] ELSE NoMarker,
            entries |-> IF call.op = "orders" THEN kept \o result.entries
                                              ELSE result.entries \o kept,
            read |-> result.read \cup {<<"page", Version(q)>>}]
    /\ r \in Results
    /\ more \in Requests /\ more.part = "page"
    /\ more.ledger = r.ledger /\ more.marker = r.marker
    /\ \/ requests = pending \ {q} /\ ~(call.all /\ r.marker # NoMarker)
       \/ requests = (pending \ {q}) \cup {more} /\ r.marker # NoMarker
    /\ Settle(requests, r)

LEMMA PageArrival ==
    ASSUME Shape, NEW q \in pending, PageArrives(q)
    PROVE  \E m, n \in Nat : \E kept, r, requests : PageTaken(q, m, n, kept, r, requests)
  <1> DEFINE v == Version(q)
             book == Books[v]
             m == Passed(book, q.marker)
             n == IF Len(book) < m + 1 + call.limit THEN Len(book)
                  ELSE m + 1 + call.limit - 1
             page == {book[k] : k \in m + 1..n}
             r(kept) == [ledger |-> v,
                   marker |-> IF n < Len(book) THEN book[n] ELSE NoMarker,
                   entries |-> IF call.op = "orders" THEN kept \o result.entries
                                                     ELSE result.entries \o kept,
                   read |-> result.read \cup {<<"page", v>>}]
             requests(kept) == (pending \ {q}) \cup
                   (IF call.all /\ r(kept).marker # NoMarker THEN {NextPage(r(kept))}
                                                             ELSE {})
  <1>1. PICK kept \in InOrder(Passing(page)) :
           /\ q.part = "page"
           /\ Settle(requests(kept), r(kept))
    BY DEF PageArrives
  <1>2. v \in Ledgers /\ q.marker \in Nat
    <2>1. q \in Requests /\ height \in Ledgers
      BY DEF Shape
    <2>2. q.ledger \in Ledgers \cup {Default} /\ q.marker \in Entries \cup {NoMarker}
      BY <2>1 DEF Requests
    <2>3. Version(q) \in Ledgers
      BY <2>1, <2>2 DEF Version
    <2>4. q.marker \in Nat
      <3>1. \A e : e \in Entries => e \in Nat
        BY QueryAssumption
      <3> QED  BY <2>2, <3>1 DEF NoMarker
    <2> QED  BY <2>3, <2>4
  <1>3. book \in Seq(Entries)
    BY <1>2, LedgerTypes
  <1> HIDE DEF v
  <1>4. /\ m \in 0..Len(book)
        /\ \A k \in DOMAIN book : k <= m <=> book[k] <= q.marker
    BY <1>2, PassedPlace
  <1>5. call.limit \in Nat \ {0}
    BY QueryAssumption DEF Shape, Calls
  <1> HIDE DEF m
  <1>6. n \in Nat /\ m <= n /\ n <= Len(book) /\ (m = n => n = Len(book))
    BY <1>3, <1>4, <1>5
  <1> HIDE DEF n
  <1>7. /\ kept \in Seq(Entries)
        /\ ToSet(kept) = Passing(page)
        /\ \A i, j \in DOMAIN kept : i < j => kept[i] < kept[j]
    <2>1. m \in Nat /\ n \in 0..Len(book)
      BY <1>3, <1>4, <1>6
    <2> QED  BY <1>1, <1>2, <2>1, PageTypes
  <1> HIDE DEF page
  <1>8. r(kept) \in Results
    <2>1. n < Len(book) => book[n] \in Entries
      BY <1>3, <1>4, <1>6
    <2>2. kept \o result.entries \in Seq(Entries) /\ result.entries \o kept \in Seq(Entries)
      BY <1>7 DEF Shape, Results
    <2>3. result.read \cup {<<"page", v>>} \in SUBSET (Parts \X Ledgers)
      BY <1>2 DEF Shape, Results, Parts
    <2> QED  BY <1>2, <2>1, <2>2, <2>3 DEF Results
  <1>9. /\ NextPage(r(kept)) \in Requests /\ NextPage(r(kept)).part = "page"
        /\ NextPage(r(kept)).ledger = r(kept).ledger
        /\ NextPage(r(kept)).marker = r(kept).marker
    BY <1>8 DEF NextPage, Request, Requests, Results, Parts
  <1>10. \/ requests(kept) = pending \ {q} /\ ~(call.all /\ r(kept).marker # NoMarker)
         \/ requests(kept) = (pending \ {q}) \cup {NextPage(r(kept))}
            /\ r(kept).marker # NoMarker
    <2> HIDE DEF r
    <2>1. CASE call.all /\ r(kept).marker # NoMarker
      BY <2>1
    <2>2. CASE ~(call.all /\ r(kept).marker # NoMarker)
      BY <2>2
    <2> QED  BY <2>1, <2>2
  <1> HIDE DEF requests
  <1>11. r(kept) = [ledger |-> v,
                      marker |-> IF n < Len(book) THEN book[n] ELSE NoMarker,
                      entries |-> IF call.op = "orders" THEN kept \o result.entries
                                                        ELSE result.entries \o kept,
                      read |-> result.read \cup {<<"page", v>>}]
    OBVIOUS
  <1> HIDE DEF r
  <1>12. PageTaken(q, m, n, kept, r(kept), requests(kept))
    BY <1>1, <1>2, <1>4, <1>6, <1>7, <1>8, <1>9, <1>10, <1>11
       DEF PageTaken, v, page
  <1>13. m \in Nat
    BY <1>4
  <1> QED  BY <1>6, <1>12, <1>13

LEMMA PageStep ==
    ASSUME IInv, NEW q \in pending, PageArrives(q)
    PROVE  IInv'
  <1> DEFINE v == Version(q)
  <1>m. PICK m \in Nat, n \in Nat : \E kept, r, requests :
           PageTaken(q, m, n, kept, r, requests)
    BY PageArrival DEF IInv
  <1>1. PICK kept, r, requests : PageTaken(q, m, n, kept, r, requests)
    BY <1>m
  <1>2. /\ v \in Ledgers /\ v # Default
        /\ q.ledger # Default => v = q.ledger
        /\ q.ledger = Default => v = height
    BY VersionType
  <1> HIDE DEF v
  <1>3. /\ r.ledger = v /\ r.read = result.read \cup {<<"page", v>>}
        /\ r \in Results /\ q.part = "page" /\ Settle(requests, r)
    BY <1>1 DEF PageTaken, v
  <1>4. /\ NextPage(r).part = "page" /\ NextPage(r).ledger = v
        /\ NextPage(r) \in Requests
    BY <1>1, <1>3 DEF PageTaken
  <1>5. call.step = "waiting"
    BY DEF IInv, Shape, Calls, Results, Requests
  <1>6. \A o \in requests : (o \in pending /\ o # q) \/ o = NextPage(r)
    BY <1>1 DEF PageTaken
  <1>7. /\ Shape' /\ call'.op = call.op /\ call'.ledger = call.ledger
        /\ call'.since = call.since /\ height' = height
        /\ pending' = requests /\ result' = r
    <2>1. requests \subseteq Requests
      BY <1>2, <1>4, <1>6 DEF IInv, Shape, Calls, Results, Requests, Parts
    <2> QED  BY <1>3, <1>5, <2>1, SettleShape
  <1>8. \A part \in r.read : part \in result.read \/ part[2] = v
    BY <1>3
  <1>9. CASE call.op = "balances" /\ call.ledger = Default
    <2>1. NewestBalances
      BY <1>9 DEF IInv, QueryInv
    <2>2. During(v)
      BY <1>2, <2>1, LedgerTypes
         DEF NewestBalances, During, IInv, Shape, Calls, Results, Requests
    <2>3. \A o \in requests : o.part \in {"xrp", "page"}
                              /\ (o.ledger = Default \/ During(o.ledger))
      BY <1>4, <1>6, <2>1, <2>2 DEF NewestBalances
    <2>4. \A part \in r.read : During(part[2])
      BY <1>8, <2>1, <2>2 DEF NewestBalances
    <2>5. NewestBalances'
      BY <1>7, <2>3, <2>4 DEF NewestBalances, During
    <2> QED  BY <1>7, <1>9, <2>5 DEF IInv, QueryInv
  <1>10. CASE call.op = "balances" /\ call.ledger # Default
    <2>1. NamedBalances
      BY <1>10 DEF IInv, QueryInv
    <2>2. v = call.ledger
      BY <1>2, <1>10, <2>1 DEF NamedBalances
    <2>3. NamedBalances'
      BY <1>2, <1>3, <1>4, <1>6, <1>7, <1>8, <2>1, <2>2 DEF NamedBalances
    <2> QED  BY <1>7, <1>10, <2>3 DEF IInv, QueryInv
  <1>11. CASE call.op # "balances"
    <2>1. OneAtATime
      BY <1>11 DEF IInv, QueryInv
    <2>2. CASE result.ledger = Default
      <3>1. result.read = {} /\ pending \ {q} = {}
        BY <2>1, <2>2 DEF OneAtATime
      <3>2. /\ \A o \in requests : o.ledger = v /\ o.part = "page"
            /\ \A part \in r.read : part[2] = v
        BY <1>4, <1>6, <1>8, <3>1
      <3> QED  BY <1>2, <1>3, <1>7, <1>11, <3>2 DEF IInv, QueryInv, OneAtATime
    <2>3. CASE result.ledger # Default
      <3>1. q.ledger = result.ledger /\ v = result.ledger
        BY <1>2, <2>1, <2>3 DEF OneAtATime
      <3>2. /\ \A o \in requests : o.ledger = v /\ o.part # "header"
                                   /\ (o.part = "xrp" => call.op = "xrp")
            /\ \A part \in r.read : part[2] = v
        BY <1>4, <1>6, <1>8, <2>1, <2>3, <3>1 DEF OneAtATime
      <3> QED  BY <1>2, <1>3, <1>7, <1>11, <3>2 DEF IInv, QueryInv, OneAtATime
    <2> QED  BY <2>2, <2>3
  <1> QED  BY <1>9, <1>10, <1>11

LEMMA XrpStep ==
    ASSUME IInv, NEW q \in pending, XrpArrives(q)
    PROVE  IInv'
  <1> DEFINE v == Version(q)
             at == IF call.op = "xrp" THEN v ELSE result.ledger
             r == [result EXCEPT !.ledger = at, !.read = @ \cup {<<"xrp", v>>}]
             requests == pending \ {q}
  <1>1. Settle(requests, r) /\ q.part = "xrp"
    BY DEF XrpArrives
  <1>2. /\ v \in Ledgers /\ v # Default
        /\ q.ledger # Default => v = q.ledger
        /\ q.ledger = Default => v = height
    BY VersionType
  <1> HIDE DEF v
  <1>3. /\ r.ledger = at /\ r.read = result.read \cup {<<"xrp", v>>}
        /\ r \in Results
    <2> DEFINE read == result.read \cup {<<"xrp", v>>}
    <2>1. /\ at \in Ledgers \cup {Default} /\ read \in SUBSET (Parts \X Ledgers)
          /\ r = [result EXCEPT !.ledger = at, !.read = read]
      BY <1>2 DEF IInv, Shape, Calls, Results, Requests, Parts
    <2> HIDE DEF at, read, r
    <2>2. /\ r.ledger = at /\ r.read = read
          /\ r \in Results
      BY <2>1 DEF IInv, Shape, Calls, Results, Requests
    <2> QED  BY <2>2 DEF read
  <1>4. call.step = "waiting"
    BY DEF IInv, Shape, Calls, Results, Requests
  <1>5. \A o \in requests : o \in pending /\ o # q
    OBVIOUS
  <1> HIDE DEF r, requests
  <1>6. /\ Shape' /\ call'.op = call.op /\ call'.ledger = call.ledger
        /\ call'.since = call.since /\ height' = height
        /\ pending' = requests /\ result' = r
    <2>1. requests \subseteq Requests
      BY <1>5 DEF IInv, Shape, Calls, Results, Requests
    <2> QED  BY <1>1, <1>3, <1>4, <2>1, SettleShape
  <1>7. \A part \in r.read : part \in result.read \/ part[2] = v
    BY <1>3
  <1>8. CASE call.op = "balances" /\ call.ledger = Default
    <2>1. NewestBalances
      BY <1>8 DEF IInv, QueryInv
    <2>2. During(v)
      BY <1>2, <2>1, LedgerTypes
         DEF NewestBalances, During, IInv, Shape, Calls, Results, Requests
    <2>3. NewestBalances'
      BY <1>5, <1>6, <1>7, <2>1, <2>2 DEF NewestBalances, During
    <2> QED  BY <1>6, <1>8, <2>3 DEF IInv, QueryInv
  <1>9. CASE call.op = "balances" /\ call.ledger # Default
    <2>1. NamedBalances
      BY <1>9 DEF IInv, QueryInv
    <2>2. v = call.ledger /\ at = result.ledger
      BY <1>2, <1>9, <2>1 DEF NamedBalances
    <2>3. \A o \in pending : o.part = "page" => o \in requests
      BY <1>1 DEF requests
    <2>4. NamedBalances'
      BY <1>3, <1>5, <1>6, <1>7, <2>1, <2>2, <2>3
         DEF NamedBalances, IInv, Shape, Calls, Results, Requests
    <2> QED  BY <1>6, <1>9, <2>4 DEF IInv, QueryInv
  <1>10. CASE call.op # "balances"
    <2>1. OneAtATime
      BY <1>10 DEF IInv, QueryInv
    <2>2. at = v
      BY <1>1, <2>1 DEF OneAtATime
    <2>3. /\ \A o \in requests : o.ledger = v /\ o.part # "header"
                                 /\ (o.part = "xrp" => call.op = "xrp")
          /\ \A part \in r.read : part[2] = v
      BY <1>2, <1>5, <1>7, <2>1 DEF OneAtATime
    <2> QED  BY <1>2, <1>3, <1>6, <1>10, <2>2, <2>3 DEF IInv, QueryInv, OneAtATime
  <1> QED  BY <1>8, <1>9, <1>10

LEMMA HeaderStep ==
    ASSUME IInv, NEW q \in pending, HeaderArrives(q)
    PROVE  IInv'
  <1> DEFINE v == Version(q)
             r == [result EXCEPT !.ledger = v]
             requests == BookRequests(v)
  <1>1. Settle(requests, r) /\ q.part = "header"
    BY DEF HeaderArrives
  <1>2. v \in Ledgers /\ v # Default
    BY VersionType
  <1> HIDE DEF v
  <1>3. /\ r.ledger = v /\ r.read = result.read
        /\ r \in Results
    BY <1>2 DEF IInv, Shape, Calls, Results, Requests
  <1>4. /\ \A o \in requests : o.part \in {"bids", "asks"} /\ o.ledger = v
        /\ call.step = "waiting"
    BY DEF BookRequests, Request, IInv, Shape, Calls, Results, Requests
  <1> HIDE DEF r, requests
  <1>5. /\ Shape' /\ call'.op = call.op /\ call'.ledger = call.ledger
        /\ call'.since = call.since /\ height' = height
        /\ pending' = requests /\ result' = r
    <2>1. requests \subseteq Requests
      BY <1>2, RequestType DEF requests, BookRequests, Parts
    <2> QED  BY <1>1, <1>3, <1>4, <2>1, SettleShape
  <1>6. call.op # "balances" /\ OneAtATime /\ result.read = {}
    BY <1>1 DEF IInv, QueryInv, NewestBalances, NamedBalances, OneAtATime
  <1> QED  BY <1>2, <1>3, <1>4, <1>5, <1>6 DEF IInv, QueryInv, OneAtATime

LEMMA OffersStep ==
    ASSUME IInv, NEW q \in pending, OffersArrive(q)
    PROVE  IInv'
  <1> DEFINE v == Version(q)
             read == result.read \cup {<<q.part, v>>}
             r == [result EXCEPT !.read = read]
             requests == pending \ {q}
  <1>1. Settle(requests, r) /\ q.part \in {"bids", "asks"}
    BY DEF OffersArrive
  <1>2. /\ v \in Ledgers /\ (q.ledger # Default => v = q.ledger)
    BY VersionType
  <1> HIDE DEF v
  <1>3. /\ read \in SUBSET (Parts \X Ledgers)
        /\ \A part \in read : part \in result.read \/ part[2] = v
    BY <1>1, <1>2 DEF IInv, Shape, Calls, Results, Requests, Parts
  <1> HIDE DEF read
  <1>4. /\ r.ledger = result.ledger /\ r.read = read
        /\ r \in Results
    BY <1>3 DEF IInv, Shape, Calls, Results, Requests
  <1>5. requests \subseteq pending /\ call.step = "waiting"
    BY DEF IInv, Shape, Calls, Results, Requests
  <1> HIDE DEF r, requests
  <1>6. /\ Shape' /\ call'.op = call.op /\ call'.ledger = call.ledger
        /\ call'.since = call.since /\ height' = height
        /\ pending' = requests /\ result' = r
    <2>1. requests \subseteq Requests
      BY <1>5 DEF IInv, Shape, Calls, Results, Requests
    <2> QED  BY <1>1, <1>4, <1>5, <2>1, SettleShape
  <1>7. call.op # "balances" /\ OneAtATime /\ v = result.ledger
    BY <1>1, <1>2 DEF IInv, QueryInv, NewestBalances, NamedBalances, OneAtATime
  <1>8. result.ledger # Default
    BY <1>1, <1>7 DEF OneAtATime
  <1> QED  BY <1>3, <1>4, <1>5, <1>6, <1>7, <1>8 DEF IInv, QueryInv, OneAtATime

LEMMA FailStep ==
    ASSUME IInv, NEW q \in pending, Fail(q)
    PROVE  IInv'
  <1>1. /\ call' = [call EXCEPT !.step = "failed"] /\ pending' = {}
        /\ UNCHANGED <<height, result, earlier>>
    BY DEF Fail
  <1>2. /\ call'.op = call.op /\ call'.ledger = call.ledger
        /\ call'.since = call.since /\ call'.step = "failed"
        /\ call' \in Calls
    BY <1>1 DEF IInv, Shape, Calls, Results, Requests
  <1>3. Shape'
    BY <1>1, <1>2 DEF IInv, Shape, Calls, Results, Requests
  <1> QED  BY <1>1, <1>2, <1>3
           DEF IInv, QueryInv, NewestBalances, NamedBalances, OneAtATime, During

\* A ledger closes: what looks at the newest one may find this one.
LEMMA CloseStep ==
    ASSUME IInv, Close
    PROVE  IInv'
  <1>1. /\ height' = height + 1 /\ height' \in Ledgers
        /\ UNCHANGED <<call, pending, result, earlier>>
    BY DEF Close
  <1>2. height \in Nat /\ call.since \in Nat
    BY LedgerTypes DEF IInv, Shape, Calls, Results, Requests
  <1>3. Shape'
    BY <1>1, <1>2 DEF IInv, Shape, Calls, Results, Requests
  <1>4. \A l \in Ledgers : During(l) => During(l)'
    <2>1. \A l \in Ledgers : l \in Nat
      BY LedgerTypes
    <2> QED  BY <1>1, <1>2, <2>1 DEF During
  <1>5. NewestBalances => NewestBalances'
    <2>1. /\ \A q \in pending : q.ledger \in Ledgers \cup {Default}
          /\ \A part \in result.read : part[2] \in Ledgers
      BY DEF IInv, Shape, Calls, Results, Requests
    <2> QED  BY <1>1, <1>4, <2>1 DEF NewestBalances
  <1> QED  BY <1>1, <1>3, <1>5 DEF IInv, QueryInv, NamedBalances, OneAtATime

-----------------------------------------------------------------------------
LEMMA InitInv == Init => IInv
  <1> SUFFICES ASSUME Init PROVE IInv
    OBVIOUS
  <1> DEFINE n == CHOOSE n \in Limits : TRUE
  <1>1. height <= height /\ height \in Ledgers
    BY LedgerTypes DEF Init
  <1>2. call = [step |-> "idle", op |-> "xrp", narrowed |-> FALSE, all |-> FALSE,
                limit |-> n, ledger |-> Default, marker |-> NoMarker,
                since |-> height]
    BY DEF Init
  <1> HIDE DEF n
  <1>3. Shape
    <2>1. n \in Limits
      BY QueryAssumption DEF n
    <2>2. call \in Calls
      BY <1>1, <1>2, <2>1 DEF Calls, Ops
    <2> QED  BY <1>1, <1>2, <2>2 DEF Init, Shape, Results, Nothing
  <1> QED  BY <1>2, <1>3 DEF Init, IInv, QueryInv, OneAtATime, Nothing

\* The record of a query that goes on: two times three fields are replaced.
LEMMA Replaced ==
    ASSUME Shape, NEW all \in BOOLEAN, NEW limit \in Limits
    PROVE  LET c == [call EXCEPT !.step = "waiting", !.all = all, !.limit = limit,
                                 !.ledger = result.ledger, !.marker = result.marker,
                                 !.since = height]
           IN /\ c.step = "waiting" /\ c.since = height /\ c \in Calls
              /\ c.op = call.op /\ c.narrowed = call.narrowed
              /\ c.ledger = result.ledger /\ c.marker = result.marker
  <1> DEFINE a == [call EXCEPT !.step = "waiting", !.all = all, !.limit = limit]
             c == [a EXCEPT !.ledger = result.ledger, !.marker = result.marker,
                            !.since = height]
  <1>1. /\ a.step = "waiting" /\ a \in Calls
        /\ a.op = call.op /\ a.narrowed = call.narrowed
    BY DEF Shape, Calls
  <1>2. /\ height \in Ledgers /\ result.ledger \in Ledgers \cup {Default}
        /\ result.marker \in Entries \cup {NoMarker}
    BY DEF Shape, Results
  <1> HIDE DEF a
  <1>3. /\ c.step = "waiting" /\ c.since = height
        /\ c.op = a.op /\ c.narrowed = a.narrowed
        /\ c.ledger = result.ledger /\ c.marker = result.marker
        /\ c \in Calls
    BY <1>1, <1>2 DEF Calls
  <1> QED  BY <1>1, <1>3 DEF a

LEMMA StepInv == IInv /\ [Next]_vars => IInv'
  <1> SUFFICES ASSUME IInv, [Next]_vars PROVE IInv'
    OBVIOUS
  <1>1. CASE UNCHANGED vars
    BY <1>1 DEF vars, IInv, Shape, Calls, Results, Requests, QueryInv, NewestBalances,
                NamedBalances, OneAtATime, During
  <1>2. CASE Close
    BY <1>2, CloseStep
  <1>3. ASSUME NEW op \in Ops, NEW narrowed \in BOOLEAN, NEW all \in BOOLEAN,
               NEW limit \in Limits, NEW ledger \in {Default} \cup 1..height,
               Ask(op, narrowed, all, limit, ledger)
        PROVE  IInv'
    <2> DEFINE c == [step |-> "waiting", op |-> op, narrowed |-> narrowed,
                     all |-> all, limit |-> limit, ledger |-> ledger,
                     marker |-> NoMarker, since |-> height]
    <2>1. height \in Ledgers /\ ledger \in Ledgers \cup {Default}
      BY QueryAssumption DEF IInv, Shape, Ledgers
    <2>2. Start(c) /\ earlier' = <<>>
      BY <1>3 DEF Ask
    <2>3. /\ c.step = "waiting" /\ c.since = height
          /\ c \in Calls
      BY <2>1 DEF Calls
    <2>4. earlier' \in Seq(Entries)
      BY <2>2
    <2> HIDE DEF c
    <2> QED  BY <2>1, <2>2, <2>3, <2>4, StartStep
  <1>4. ASSUME NEW all \in BOOLEAN, NEW limit \in Limits, AskOn(all, limit)
        PROVE  IInv'
    <2> DEFINE c == [call EXCEPT !.step = "waiting", !.all = all, !.limit = limit,
                                 !.ledger = result.ledger,
                                 !.marker = result.marker, !.since = height]
    <2>1. Start(c) /\ earlier' = earlier \o result.entries
      BY <1>4 DEF AskOn
    <2>2. /\ c.step = "waiting" /\ c.since = height
          /\ c \in Calls
      BY Replaced DEF IInv
    <2>3. height \in Ledgers /\ earlier' \in Seq(Entries)
      BY <2>1 DEF IInv, Shape, Results
    <2> HIDE DEF c
    <2> QED  BY <2>1, <2>2, <2>3, StartStep
  <1>5. ASSUME NEW q \in pending, Arrive(q) \/ Fail(q)
        PROVE  IInv'
    BY <1>5, PageStep, XrpStep, HeaderStep, OffersStep, FailStep DEF Arrive
  <1> QED  BY <1>1, <1>2, <1>3, <1>4, <1>5 DEF Next

\* The invariant, in every behaviour, without the fairness.
THEOREM Invariance == Spec => []IInv
  <1> QED  BY InitInv, StepInv, PTL DEF Spec

\* Type correctness: a page is made of entries whatever ledger answers, and a
\* query waits exactly as long as one of its requests is under way.
THEOREM TypeCorrect == Spec => []TypeOK
  <1>1. IInv => TypeOK
    <2> SUFFICES ASSUME IInv PROVE TypeOK
      OBVIOUS
    <2>1. /\ result.ledger \in Ledgers \cup {Default}
          /\ result.marker \in Entries \cup {NoMarker}
          /\ result.entries \in Seq(Entries)
          /\ result.read \subseteq Parts \X Ledgers
      BY DEF IInv, Shape, Results
    <2> QED  BY <2>1 DEF IInv, Shape, TypeOK
  <1> QED  BY Invariance, <1>1, PTL

\* All parts of the answer of getOrders, getTrustLines, getOrderBook and of
\* getBalances for a ledger are from the ledger that it names, whatever closes
\* during the query; those of getBalances without one from ledgers that were
\* the last validated one during the query.
THEOREM AnswerOfOneLedger == Spec => []OneLedger
  <1>1. IInv => OneLedger
    <2> SUFFICES ASSUME IInv, call.step = "answered", NEW part \in result.read
                 PROVE  IF call.op = "balances" /\ call.ledger = Default
                        THEN call.since <= part[2] /\ part[2] <= height
                        ELSE part[2] = result.ledger
      BY DEF OneLedger
    <2>1. CASE call.op = "balances" /\ call.ledger = Default
      BY <2>1 DEF IInv, QueryInv, NewestBalances, During
    <2>2. CASE call.op = "balances" /\ call.ledger # Default
      <3>1. NamedBalances /\ pending = {}
        BY <2>2 DEF IInv, QueryInv, Shape, Calls, Results, Requests
      <3> QED  BY <2>2, <3>1 DEF NamedBalances
    <2>3. CASE call.op # "balances"
      BY <2>3 DEF IInv, QueryInv, OneAtATime
    <2> QED  BY <2>1, <2>2, <2>3
  <1> QED  BY Invariance, <1>1, PTL

-----------------------------------------------------------------------------
(* What has been read.                                                      *)

Listing == call.op \in {"orders", "trustlines", "balances"}
All == earlier \o result.entries

Distinct(list) == \A i, j \in DOMAIN list : i < j => list[i] # list[j]
Rising(list) == \A i, j \in DOMAIN list : i < j => list[i] < list[j]

\* The list of what passes of the first n entries of a ledger.
UpTo(list, ledger, n) ==
    /\ ToSet(list) = Passing({Books[ledger][k] : k \in 1..n})
    /\ IF call.op = "orders" THEN Distinct(list) ELSE Rising(list)

\* A marker is that of an entry of its ledger, and up to it all is in the list.
ReadTo(list, ledger, marker) ==
    IF marker = NoMarker THEN list = <<>>
    ELSE /\ ledger \in Ledgers
         /\ \E n \in DOMAIN Books[ledger] :
               marker = Books[ledger][n] /\ UpTo(list, ledger, n)

\* The one request for a page goes on from what was read; without one, the
\* answer is from the ledger it names, and reaches its marker or the end.
ListInv ==
    /\ \A q \in pending : q.part \in {"page", "xrp"}
    /\ \A q \in pending : q.part = "page" =>
          /\ ReadTo(All, q.ledger, q.marker)
          /\ \A o \in pending : o.part = "page" => o = q
    /\ call.step # "failed" /\ (\A q \in pending : q.part # "page") =>
          /\ result.ledger \in Ledgers
          /\ IF result.marker = NoMarker
             THEN UpTo(All, result.ledger, Len(Books[result.ledger]))
             ELSE ReadTo(All, result.ledger, result.marker)

ReadInv ==
    IF Listing THEN ListInv
    ELSE result.marker = NoMarker /\ \A q \in pending : q.part # "page"

LEMMA JoinedLists ==
    ASSUME NEW a \in Seq(Nat), NEW b \in Seq(Nat)
    PROVE  /\ a \o b \in Seq(Nat)
           /\ ToSet(a \o b) = ToSet(a) \cup ToSet(b)
           /\ Distinct(a \o b) <=>
                 Distinct(a) /\ Distinct(b) /\ \A x \in ToSet(a) : x \notin ToSet(b)
           /\ Rising(a) /\ Rising(b) /\ (\A x \in ToSet(a), y \in ToSet(b) : x < y)
                 => Rising(a \o b)
  <1> DEFINE m == Len(a)
             n == Len(b)
             ab == a \o b
  <1>1. m \in Nat /\ n \in Nat
    OBVIOUS
  <1>2. /\ DOMAIN a = 1..m /\ DOMAIN b = 1..n /\ DOMAIN ab = 1..(m + n)
        /\ ab \in Seq(Nat)
        /\ \A i \in 1..m : a[i] \in Nat /\ ab[i] = a[i]
        /\ \A i \in 1..n : b[i] \in Nat /\ ab[m + i] = b[i]
    OBVIOUS
  <1> HIDE DEF m, n, ab
  <1>3. /\ \A i \in 1..m : i \in 1..(m + n)
        /\ \A i \in 1..n : m + i \in 1..(m + n)
        /\ \A i \in 1..(m + n) : i \notin 1..m => i - m \in 1..n /\ i = m + (i - m)
    BY <1>1
  <1>4. ToSet(ab) = ToSet(a) \cup ToSet(b)
    <2>1. ASSUME NEW i \in 1..(m + n) PROVE ab[i] \in ToSet(a) \cup ToSet(b)
      <3>1. CASE i \in 1..m
        BY <1>2, <3>1 DEF ToSet
      <3>2. CASE i \notin 1..m
        <4>1. i - m \in 1..n /\ i = m + (i - m)
          BY <1>3, <3>2
        <4>2. ab[i] = b[i - m]
          BY <1>2, <4>1
        <4> QED  BY <1>2, <4>1, <4>2 DEF ToSet
      <3> QED  BY <3>1, <3>2
    <2>2. ASSUME NEW i \in 1..m PROVE a[i] \in ToSet(ab)
      BY <1>2, <1>3 DEF ToSet
    <2>3. ASSUME NEW i \in 1..n PROVE b[i] \in ToSet(ab)
      BY <1>2, <1>3 DEF ToSet
    <2> QED  BY <1>2, <2>1, <2>2, <2>3 DEF ToSet
  <1>5. Distinct(ab) => Distinct(a) /\ Distinct(b) /\ \A x \in ToSet(a) : x \notin ToSet(b)
    <2> SUFFICES ASSUME Distinct(ab)
                 PROVE  /\ Distinct(a) /\ Distinct(b)
                        /\ \A x \in ToSet(a) : x \notin ToSet(b)
      OBVIOUS
    <2>1. ASSUME NEW i \in 1..m, NEW j \in 1..m, i < j PROVE a[i] # a[j]
      BY <1>2, <1>3, <2>1 DEF Distinct
    <2>2. ASSUME NEW i \in 1..n, NEW j \in 1..n, i < j PROVE b[i] # b[j]
      <3>1. m + i < m + j
        BY <1>1, <2>2
      <3> QED  BY <1>2, <1>3, <3>1 DEF Distinct
    <2>3. ASSUME NEW i \in 1..m, NEW j \in 1..n PROVE a[i] # b[j]
      <3>1. i < m + j
        BY <1>1
      <3> QED  BY <1>2, <1>3, <3>1 DEF Distinct
    <2> QED  BY <1>2, <2>1, <2>2, <2>3 DEF Distinct, ToSet
  <1>6. ASSUME NEW i \in 1..(m + n), NEW j \in 1..(m + n), i < j
        PROVE  \/ /\ i \in 1..m /\ j \in 1..m
                  /\ ab[i] = a[i] /\ ab[j] = a[j]
               \/ ab[i] \in ToSet(a) /\ ab[j] \in ToSet(b)
               \/ /\ i - m \in 1..n /\ j - m \in 1..n /\ i - m < j - m
                  /\ ab[i] = b[i - m] /\ ab[j] = b[j - m]
    <2>1. CASE j \in 1..m
      <3>1. i \in 1..m
        BY <1>1, <1>6, <2>1
      <3> QED  BY <1>2, <2>1, <3>1
    <2>2. CASE j \notin 1..m
      <3>1. j - m \in 1..n /\ j = m + (j - m)
        BY <1>3, <2>2
      <3>2. ab[j] = b[j - m]
        BY <1>2, <3>1
      <3>3. CASE i \in 1..m
        BY <1>2, <3>1, <3>2, <3>3 DEF ToSet
      <3>4. CASE i \notin 1..m
        <4>1. i - m \in 1..n /\ i = m + (i - m)
          BY <1>3, <3>4
        <4>2. ab[i] = b[i - m]
          BY <1>2, <4>1
        <4>3. i - m < j - m
          BY <1>1, <1>6
        <4> QED  BY <3>1, <3>2, <4>1, <4>2, <4>3
      <3> QED  BY <3>3, <3>4
    <2> QED  BY <2>1, <2>2
  <1>7. Distinct(a) /\ Distinct(b) /\ (\A x \in ToSet(a) : x \notin ToSet(b)) => Distinct(ab)
    BY <1>2, <1>6 DEF Distinct
  <1>8. Rising(a) /\ Rising(b) /\ (\A x \in ToSet(a), y \in ToSet(b) : x < y) => Rising(ab)
    BY <1>2, <1>6 DEF Rising
  <1> QED  BY <1>2, <1>4, <1>5, <1>7, <1>8 DEF ab

\* A step that only settles requests leaves the options of the query.
LEMMA SettledQuery ==
    ASSUME Shape, NEW requests, NEW r, Settle(requests, r)
    PROVE  /\ call'.op = call.op /\ call'.narrowed = call.narrowed
           /\ call'.step = IF requests = {} THEN "answered" ELSE call.step
           /\ pending' = requests /\ result' = r /\ earlier' = earlier
  BY DEF Shape, Calls, Settle

LEMMA ReadPage ==
    ASSUME IInv, ReadInv, NEW q \in pending, PageArrives(q)
    PROVE  ReadInv'
  <1>0. PICK v : v = Version(q)
    OBVIOUS
  <1> DEFINE book == Books[v]
  <1>m. PICK m \in Nat, n \in Nat : \E kept, r, requests :
           PageTaken(q, m, n, kept, r, requests)
    BY PageArrival DEF IInv
  <1>1. PICK kept, r, requests : PageTaken(q, m, n, kept, r, requests)
    BY <1>m
  <1>2. q.part = "page" /\ v \in Ledgers /\ r.ledger = v
    BY <1>0, <1>1 DEF PageTaken
  <1>3. /\ call'.op = call.op /\ call'.narrowed = call.narrowed
        /\ call'.step = (IF requests = {} THEN "answered" ELSE call.step)
        /\ pending' = requests /\ result' = r /\ earlier' = earlier
    BY <1>1, SettledQuery DEF PageTaken, IInv
  <1>4. /\ book \in Seq(Nat) /\ book \in Seq(Entries)
        /\ \A i, j \in DOMAIN book : i < j => book[i] < book[j]
        /\ \A i \in DOMAIN book : book[i] \in Nat \ {0}
    <2>1. book \in Seq(Entries) /\ Entries \subseteq Nat \ {0}
      BY <1>2, LedgerTypes
    <2>2. \A i \in DOMAIN book : book[i] \in Entries
      BY <2>1
    <2> QED  BY <1>2, <2>1, <2>2, LedgerTypes
  <1>5. /\ m <= n /\ n <= Len(book) /\ (m = n => n = Len(book))
        /\ \A k \in DOMAIN book : k <= m <=> book[k] <= q.marker
    BY <1>0, <1>1 DEF PageTaken
  <1>6. Listing /\ ListInv /\ ReadTo(All, q.ledger, q.marker)
    BY <1>2 DEF ReadInv, ListInv
  <1>7. q.ledger # Default => v = q.ledger
    BY <1>0, VersionType
  <1>8. UpTo(All, v, m)
    <2>1. CASE q.marker = NoMarker
      <3>1. All = <<>> /\ ToSet(All) = {}
        BY <1>6, <2>1 DEF ReadTo, ToSet
      <3>2. m = 0
        <4>1. m >= 1 => book[m] <= 0
          BY <1>4, <1>5, <2>1 DEF NoMarker
        <4>2. m >= 1 => book[m] \in Nat \ {0}
          BY <1>4, <1>5
        <4> QED  BY <4>1, <4>2
      <3> QED  BY <3>1, <3>2 DEF UpTo, Passing, Distinct, Rising
    <2>2. CASE q.marker # NoMarker
      <3>1. PICK p \in DOMAIN Books[q.ledger] :
               q.marker = Books[q.ledger][p] /\ UpTo(All, q.ledger, p)
        BY <1>6, <2>2 DEF ReadTo
      <3>2. q.ledger = v
        BY <1>6, <1>7, <2>2, LedgerTypes DEF ReadTo, Default
      <3>3. p \in DOMAIN book /\ book[p] = q.marker
        BY <3>1, <3>2
      <3>4. p <= m
        BY <1>4, <1>5, <3>3
      <3>5. m \in DOMAIN book /\ book[m] <= book[p]
        BY <1>4, <1>5, <3>3, <3>4
      <3>6. ~(p < m)
        BY <1>4, <3>3, <3>5
      <3> QED  BY <1>4, <3>1, <3>2, <3>3, <3>4, <3>6
    <2> QED  BY <2>1, <2>2
  <1>9. UpTo(All, v, n)'
    <2> DEFINE old == {book[k] : k \in 1..m}
               page == {book[k] : k \in m + 1..n}
               new == {book[k] : k \in 1..n}
    <2>1. /\ earlier \in Seq(Nat) /\ result.entries \in Seq(Nat) /\ kept \in Seq(Nat)
          /\ r.entries = IF call.op = "orders" THEN kept \o result.entries
                                               ELSE result.entries \o kept
      <3>1. \A e : e \in Entries => e \in Nat
        BY QueryAssumption
      <3>2. \A s \in Seq(Entries) : s \in Seq(Nat)
        BY <3>1
      <3> QED  BY <1>1, <3>2 DEF PageTaken, IInv, Shape, Results
    <2>2. /\ ToSet(kept) = Passing(page) /\ Rising(kept)
      BY <1>0, <1>1 DEF PageTaken, Rising
    <2>3. new = old \cup page
      BY <1>5
    <2>4. \A x \in old, y \in page : x < y
      <3>1. ASSUME NEW i \in 1..m, NEW j \in m + 1..n PROVE book[i] < book[j]
        BY <1>4, <1>5
      <3> QED  BY <3>1
    <2> HIDE DEF old, page, new
    <2>5. ToSet(All) = Passing(old) /\ (IF call.op = "orders" THEN Distinct(All) ELSE Rising(All))
      BY <1>8 DEF UpTo, old
    <2>6. Passing(new) = Passing(old) \cup Passing(page)
      BY <2>3 DEF Passing
    <2>7. \A x \in ToSet(All), y \in ToSet(kept) : x < y
      BY <2>2, <2>4, <2>5 DEF Passing
    <2>8. ToSet(earlier \o r.entries) = Passing(new)
          /\ IF call.op = "orders" THEN Distinct(earlier \o r.entries)
                                   ELSE Rising(earlier \o r.entries)
      <3>1. CASE call.op = "orders"
        <4>1. r.entries = kept \o result.entries
          BY <2>1, <3>1
        <4>2. /\ kept \o result.entries \in Seq(Nat)
              /\ ToSet(kept \o result.entries) = ToSet(kept) \cup ToSet(result.entries)
              /\ Distinct(kept \o result.entries) <=>
                    Distinct(kept) /\ Distinct(result.entries)
                    /\ \A x \in ToSet(kept) : x \notin ToSet(result.entries)
          BY <2>1, JoinedLists
        <4>3. /\ ToSet(earlier \o r.entries) = ToSet(earlier) \cup ToSet(r.entries)
              /\ Distinct(earlier \o r.entries) <=>
                    Distinct(earlier) /\ Distinct(r.entries)
                    /\ \A x \in ToSet(earlier) : x \notin ToSet(r.entries)
          <5>1. r.entries \in Seq(Nat)
            BY <4>1, <4>2
          <5> QED  BY <2>1, <5>1, JoinedLists
        <4>4. /\ ToSet(All) = ToSet(earlier) \cup ToSet(result.entries)
              /\ Distinct(All) <=>
                    Distinct(earlier) /\ Distinct(result.entries)
                    /\ \A x \in ToSet(earlier) : x \notin ToSet(result.entries)
          BY <2>1, JoinedLists DEF All
        <4>5. Distinct(kept)
          BY <2>1, <2>2 DEF Rising, Distinct
        <4>6. \A x \in ToSet(All) : x \notin ToSet(kept)
          <5>1. \A x \in ToSet(kept) : x \in Nat
            BY <2>1 DEF ToSet
          <5> QED  BY <2>7, <5>1
        <4> QED  BY <2>2, <2>5, <2>6, <3>1, <4>1, <4>2, <4>3, <4>4, <4>5, <4>6
      <3>2. CASE call.op # "orders"
        <4>1. r.entries = result.entries \o kept
          BY <2>1, <3>2
        <4>2. earlier \o r.entries = All \o kept /\ All \in Seq(Nat)
          <5>1. All = earlier \o result.entries /\ All \in Seq(Nat)
            BY <2>1, JoinedLists DEF All
          <5>2. (earlier \o result.entries) \o kept = earlier \o (result.entries \o kept)
            <6>1. /\ earlier \in Seq(Nat) /\ result.entries \in Seq(Nat)
                  /\ kept \in Seq(Nat)
              BY <2>1
            <6>2. \A a, b, c \in Seq(Nat) : (a \o b) \o c = a \o (b \o c)
              BY ConcatAssociative
            <6> QED  BY <6>1, <6>2
          <5> QED  BY <4>1, <5>1, <5>2
        <4>3. ToSet(All \o kept) = ToSet(All) \cup ToSet(kept) /\ Rising(All \o kept)
          BY <2>1, <2>2, <2>5, <2>7, <3>2, <4>2, JoinedLists
        <4> QED  BY <2>2, <2>5, <2>6, <3>2, <4>2, <4>3
      <3> QED  BY <3>1, <3>2
    <2>9. All' = earlier \o r.entries
      BY <1>3 DEF All
    <2>10. Passing(new)' = Passing(new)
      BY <1>3 DEF Passing, new
    <2> QED  BY <1>3, <2>8, <2>9, <2>10 DEF UpTo, new, Distinct, Rising
  <1>10. r.marker = IF n < Len(book) THEN book[n] ELSE NoMarker
    BY <1>0, <1>1 DEF PageTaken
  <1>11. CASE n < Len(book)
    <2>1. n \in DOMAIN book /\ r.marker = book[n] /\ r.marker # NoMarker
      BY <1>4, <1>5, <1>10, <1>11 DEF NoMarker
    <2>2. ReadTo(All, v, r.marker)'
      BY <1>2, <1>9, <2>1 DEF ReadTo
    <2>3. \A o \in requests : \/ o \in pending /\ o.part # "page"
                              \/ /\ o.part = "page" /\ o = NextPage(r)
                                 /\ o.ledger = v /\ o.marker = r.marker
      BY <1>1, <1>2, <1>6 DEF PageTaken, ListInv
    <2>4. ListInv'
      <3>1. \A o \in requests : o.part \in {"page", "xrp"}
        BY <1>6, <2>3 DEF ListInv
      <3>2. \A o \in requests : o.part = "page" =>
               /\ ReadTo(All, o.ledger, o.marker)'
               /\ \A p \in requests : p.part = "page" => p = o
        BY <2>2, <2>3
      <3> QED  BY <1>2, <1>3, <2>1, <2>2, <3>1, <3>2 DEF ListInv
    <2> QED  BY <1>3, <1>6, <2>4 DEF ReadInv, Listing
  <1>12. CASE ~(n < Len(book))
    <2>1. n = Len(book) /\ r.marker = NoMarker
      BY <1>4, <1>5, <1>10, <1>12
    <2>2. requests = pending \ {q}
      BY <1>1, <2>1 DEF PageTaken
    <2>3. \A o \in requests : o.part = "xrp"
      BY <1>2, <1>6, <2>2 DEF ListInv
    <2>4. ListInv'
      BY <1>2, <1>3, <1>9, <2>1, <2>3 DEF ListInv
    <2> QED  BY <1>3, <1>6, <2>4 DEF ReadInv, Listing
  <1> QED  BY <1>11, <1>12

LEMMA ReadXrp ==
    ASSUME IInv, ReadInv, NEW q \in pending, XrpArrives(q)
    PROVE  ReadInv'
  <1> DEFINE r == [result EXCEPT !.ledger = IF call.op = "xrp" THEN Version(q) ELSE @,
                                 !.read = @ \cup {<<"xrp", Version(q)>>}]
             requests == pending \ {q}
  <1>1. Settle(requests, r) /\ q.part = "xrp"
    BY DEF XrpArrives
  <1>2. /\ r.marker = result.marker /\ r.entries = result.entries
        /\ call.op # "xrp" => r.ledger = result.ledger
    BY DEF IInv, Shape, Results
  <1>3. \A o \in requests : o \in pending
    OBVIOUS
  <1>4. \A o \in pending : o.part = "page" => o \in requests
    BY <1>1
  <1>5. call.step = "waiting"
    BY DEF IInv, Shape
  <1> HIDE DEF r, requests
  <1>6. /\ call'.op = call.op /\ call'.narrowed = call.narrowed
        /\ call'.step # "failed"
        /\ pending' = requests /\ result' = r /\ earlier' = earlier
    BY <1>1, <1>5, SettledQuery DEF IInv
  <1>7. All' = All
    BY <1>2, <1>6 DEF All
  <1>8. CASE Listing
    <2>1. ListInv /\ r.ledger = result.ledger /\ call.step # "failed"
      BY <1>2, <1>5, <1>8 DEF ReadInv, Listing
    <2>2. ListInv'
      BY <1>2, <1>3, <1>4, <1>6, <1>7, <2>1
         DEF ListInv, ReadTo, UpTo, Passing, Distinct, Rising
    <2> QED  BY <1>6, <1>8, <2>2 DEF ReadInv, Listing
  <1>9. CASE ~Listing
    BY <1>2, <1>3, <1>6, <1>9 DEF ReadInv, Listing
  <1> QED  BY <1>8, <1>9

\* The header and the sides of an order book are asked for by no other query.
LEMMA ReadBook ==
    ASSUME IInv, ReadInv, NEW q \in pending, HeaderArrives(q) \/ OffersArrive(q)
    PROVE  ReadInv'
  <1> DEFINE header == [result EXCEPT !.ledger = Version(q)]
             offers == [result EXCEPT !.read = @ \cup {<<q.part, Version(q)>>}]
  <1>1. PICK r, requests :
           /\ Settle(requests, r) /\ r \in {header, offers}
           /\ requests = BookRequests(Version(q)) \/ requests = pending \ {q}
           /\ q.part \in {"header", "bids", "asks"}
    BY DEF HeaderArrives, OffersArrive
  <1>2. r.marker = result.marker
    <2>1. header.marker = result.marker /\ offers.marker = result.marker
      BY DEF IInv, Shape, Results
    <2> HIDE DEF header, offers
    <2> QED  BY <1>1, <2>1
  <1> HIDE DEF header, offers
  <1>3. ~Listing
    BY <1>1 DEF ReadInv, ListInv
  <1>4. \A o \in requests : o.part # "page"
    BY <1>1, <1>3 DEF BookRequests, Request, ReadInv
  <1>5. call'.op = call.op /\ pending' = requests /\ result' = r
    BY <1>1, SettledQuery DEF IInv
  <1> QED  BY <1>2, <1>3, <1>4, <1>5 DEF ReadInv, Listing

LEMMA ReadFail ==
    ASSUME IInv, ReadInv, NEW q \in pending, Fail(q)
    PROVE  ReadInv'
  <1>1. /\ call'.op = call.op /\ call'.step = "failed"
        /\ pending' = {} /\ result' = result
    BY DEF Fail, IInv, Shape, Calls
  <1> QED  BY <1>1 DEF ReadInv, ListInv, Listing

\* A query begins: what was read before it reaches its marker.
LEMMA ReadStart ==
    ASSUME NEW c \in Calls, Start(c), c.step = "waiting", earlier' \in Seq(Entries),
           ReadTo(earlier, c.ledger, c.marker)'
    PROVE  ReadInv'
  <1>1. /\ call' = c /\ pending' = Begin(c)
        /\ result'.marker = NoMarker /\ result'.entries = <<>>
    BY DEF Start, Nothing
  <1>2. All' = earlier'
    BY <1>1 DEF All
  <1>3. CASE Listing'
    <2>1. /\ \E q \in Begin(c) : q.part = "page"
          /\ \A q \in Begin(c) : /\ q.part \in {"page", "xrp"}
                                 /\ q.part = "page" => q.ledger = c.ledger
                                                       /\ q.marker = c.marker
          /\ \A q, o \in Begin(c) : q.part = "page" /\ o.part = "page" => q = o
      BY <1>1, <1>3, BeginTypes DEF Listing
    <2> QED  BY <1>1, <1>2, <1>3, <2>1 DEF ReadInv, ListInv
  <1>4. CASE ~Listing'
    <2>1. c.op \in {"book", "xrp"}
      BY <1>1, <1>4 DEF Calls, Ops, Listing
    <2>2. \A q \in Begin(c) : q.part # "page"
      BY <2>1, BeginTypes
    <2> QED  BY <1>1, <1>4, <2>2 DEF ReadInv
  <1> QED  BY <1>3, <1>4

LEMMA InitRead == Init => ReadInv
  BY DEF Init, ReadInv, Listing, Nothing

LEMMA StepRead == IInv /\ ReadInv /\ [Next]_vars => ReadInv'
  <1> SUFFICES ASSUME IInv, ReadInv, [Next]_vars PROVE ReadInv'
    OBVIOUS
  <1>1. CASE UNCHANGED vars \/ Close
    <2>1. UNCHANGED <<call, pending, result, earlier>>
      BY <1>1 DEF vars, Close
    <2> QED  BY <2>1 DEF ReadInv, ListInv, Listing, All, ReadTo, UpTo, Passing,
                        Distinct, Rising
  <1>2. ASSUME NEW op \in Ops, NEW narrowed \in BOOLEAN, NEW all \in BOOLEAN,
               NEW limit \in Limits, NEW ledger \in {Default} \cup 1..height,
               Ask(op, narrowed, all, limit, ledger)
        PROVE  ReadInv'
    <2>1. height \in Ledgers /\ ledger \in Ledgers \cup {Default}
      BY QueryAssumption DEF IInv, Shape, Ledgers
    <2>2. PICK c :
             /\ c = [step |-> "waiting", op |-> op, narrowed |-> narrowed,
                     all |-> all, limit |-> limit, ledger |-> ledger,
                     marker |-> NoMarker, since |-> height]
             /\ Start(c) /\ earlier' = <<>>
      BY <1>2 DEF Ask
    <2>3. c.step = "waiting" /\ c \in Calls /\ c.marker = NoMarker
      BY <2>1, <2>2 DEF Calls
    <2>4. earlier' \in Seq(Entries)
      BY <2>2
    <2>5. ReadTo(earlier, c.ledger, c.marker)'
      BY <2>2, <2>3 DEF ReadTo
    <2> QED  BY <2>2, <2>3, <2>4, <2>5, ReadStart
  <1>3. ASSUME NEW all \in BOOLEAN, NEW limit \in Limits, AskOn(all, limit)
        PROVE  ReadInv'
    <2>1. PICK c : /\ c = [call EXCEPT !.step = "waiting", !.all = all, !.limit = limit,
                                       !.ledger = result.ledger,
                                       !.marker = result.marker, !.since = height]
                   /\ Start(c) /\ earlier' = earlier \o result.entries
      BY <1>3 DEF AskOn
    <2>2. /\ c.step = "waiting" /\ c \in Calls
          /\ c.op = call.op /\ c.narrowed = call.narrowed
          /\ c.ledger = result.ledger /\ c.marker = result.marker
      BY <2>1, Replaced DEF IInv
    <2>3. earlier' \in Seq(Entries) /\ earlier' = All
      BY <2>1 DEF IInv, Shape, Results, All
    <2>4. call.step = "answered" /\ result.marker # NoMarker /\ pending = {}
      BY <1>3 DEF AskOn, IInv, Shape
    <2>5. ReadTo(All, result.ledger, result.marker)
      BY <2>4 DEF ReadInv, ListInv
    <2>6. call' = c
      BY <2>1 DEF Start
    <2>7. ReadTo(earlier, c.ledger, c.marker)'
      BY <2>2, <2>3, <2>5, <2>6 DEF ReadTo, UpTo, Passing, Distinct, Rising
    <2> QED  BY <2>1, <2>2, <2>3, <2>7, ReadStart
  <1>4. ASSUME NEW q \in pending, Arrive(q) \/ Fail(q)
        PROVE  ReadInv'
    BY <1>4, ReadPage, ReadXrp, ReadBook, ReadFail DEF Arrive
  <1> QED  BY <1>1, <1>2, <1>3, <1>4 DEF Next

\* A list of offers, of trust lines or of balances that is read to its end, by
\* an aggregate query or page by page, with ledgers closing meanwhile, is the
\* list of the ledger its last answer names: getAccountOffers and requestLines
\* of api/orders.js, api/trustlines.js and api/balances.js lose nothing at the
\* seams of the pages and give nothing twice.
THEOREM WholeLedgerOnce == Spec => []NothingLostOrTwice
  <1>1. IInv /\ ReadInv => NothingLostOrTwice
    <2> SUFFICES ASSUME IInv, ReadInv, call.step = "answered", Listing,
                        result.marker = NoMarker
                 PROVE  /\ ToSet(All) = Passing(ToSet(Books[result.ledger]))
                        /\ \A i, j \in DOMAIN All : i < j =>
                              IF call.op = "orders" THEN All[i] # All[j]
                                                    ELSE All[i] < All[j]
      BY DEF NothingLostOrTwice, Listing, All
    <2>1. pending = {}
      BY DEF IInv, Shape
    <2>2. /\ result.ledger \in Ledgers
          /\ UpTo(All, result.ledger, Len(Books[result.ledger]))
      BY <2>1 DEF ReadInv, ListInv
    <2>3. ToSet(Books[result.ledger])
             = {Books[result.ledger][k] : k \in 1..Len(Books[result.ledger])}
      BY <2>2, LedgerTypes DEF ToSet
    <2> QED  BY <2>2, <2>3 DEF UpTo, Distinct, Rising
  <1> QED  BY Invariance, InitRead, StepRead, <1>1, PTL DEF Spec
=============================================================================
