------------------------- MODULE NotificationsProofs -------------------------
(***************************************************************************)
(* The search of Notifications finds the neighbours of a transaction.      *)
(*                                                                         *)
(* The invariant says what each of the three queries has found out: the    *)
(* first, how many transactions share the ledger; the other two, lists     *)
(* that reach over those to the neighbour.  It is needed only while the    *)
(* table has no failed payment, and for the notifications searched for.    *)
(***************************************************************************)
EXTENDS Notifications, FiniteSetTheorems, SequenceTheorems, TLAPS

\* The answers of the two queries of a search for the neighbours of n: that
\* towards the older side reaches the transaction before n; that towards the
\* newer side the one after n, if it reaches any newer one, or if that one was
\* validated when the request came.
Behind(note) ==
    note.back # <<>> =>
       /\ note.back[1] \subseteq DOMAIN Chain
       /\ \A m \in note.back[1] : Chain[m].ledger <= Chain[note.tx].ledger
       /\ HasPrevious(note) => note.tx - 1 \in note.back[1]

Ahead(note) ==
    note.onward # <<>> =>
       /\ note.onward[1] \subseteq DOMAIN Chain
       /\ \A m \in note.onward[1] : m > note.tx => note.tx + 1 \in note.onward[1]
       /\ HasNext(note) => note.tx + 1 \in note.onward[1]

Right(note) ==
    /\ call.one \/ HasPrevious(note) => RightPrevious(note)
    /\ call.one \/ HasNext(note) => RightNext(note)

Sought(note) ==
    /\ note.step = "counting" => note.back = <<>> /\ note.onward = <<>>
    /\ note.step = "seeking" => note.count = Cardinality(InLedger(Chain[note.tx].ledger))
    /\ note.step # "found" /\ call.one => note.previous = NoHash /\ note.next = NoHash
    /\ Behind(note) /\ Ahead(note)
    /\ note.step = "found" => Right(note)

\* The transaction of a notification is validated, and was so when the request
\* for that one came.
Validated(note) ==
    /\ Chain[note.tx].ledger <= height
    /\ call.one => Chain[note.tx].ledger <= call.asked

SearchInv ==
    rows = {} =>
       \A i \in DOMAIN notes :
          i = Len(notes) /\ LedgerFits(notes[i].tx) => Sought(notes[i])

IInv ==
    /\ TypeOK
    /\ call.asked <= height
    /\ call.one => call.step # "listing" /\ Len(notes) <= 1
    /\ \A i \in DOMAIN notes : Validated(notes[i])
    /\ SearchInv
-----------------------------------------------------------------------------
(* Transactions and lists of them.                                          *)

LEMMA ChainTypes ==
    /\ Len(Chain) \in Nat
    /\ DOMAIN Chain = 1..Len(Chain)
    /\ \A n \in DOMAIN Chain : n \in Nat /\ n >= 1 /\ n <= Len(Chain)
    /\ \A n \in DOMAIN Chain : Chain[n].ledger \in Nat
    /\ \A m, n \in DOMAIN Chain : m <= n => Chain[m].ledger <= Chain[n].ledger
    /\ \A S \in SUBSET DOMAIN Chain : IsFiniteSet(S) /\ Cardinality(S) \in Nat
  <1>1. Chain \in Seq([ledger : 1..MaxLedger, kind : Kinds]) /\ MaxLedger \in Nat
    BY ChainAssumption
  <1>2. Len(Chain) \in Nat /\ DOMAIN Chain = 1..Len(Chain)
    BY <1>1
  <1>3. \A n \in DOMAIN Chain : Chain[n].ledger \in Nat
    <2>1. \A n \in DOMAIN Chain : Chain[n] \in [ledger : 1..MaxLedger, kind : Kinds]
      BY <1>1, <1>2, ElementOfSeq
    <2>2. \A n \in DOMAIN Chain : Chain[n].ledger \in 1..MaxLedger
      BY <2>1
    <2> QED  BY <1>1, <2>2
  <1>4. \A m, n \in DOMAIN Chain : m <= n => Chain[m].ledger <= Chain[n].ledger
    BY <1>2, <1>3, ChainAssumption
  <1>5. IsFiniteSet(DOMAIN Chain)
    BY <1>2, FS_Interval
  <1>6. \A S \in SUBSET DOMAIN Chain : IsFiniteSet(S) /\ Cardinality(S) \in Nat
    BY <1>5, FS_Subset, FS_CardinalityType
  <1> QED  BY <1>2, <1>3, <1>4, <1>6

LEMMA SoonerOrder ==
    ASSUME NEW e \in BOOLEAN
    PROVE  /\ \A m, n \in DOMAIN Chain : m = n \/ Sooner(m, n, e) \/ Sooner(n, m, e)
           /\ \A m, n \in DOMAIN Chain : Sooner(m, n, e) => ~Sooner(n, m, e) /\ m # n
           /\ \A m, n, o \in DOMAIN Chain :
                 Sooner(m, n, e) /\ Sooner(n, o, e) => Sooner(m, o, e)
  <1>1. \A n \in DOMAIN Chain : n \in Nat
    BY ChainTypes
  <1>2. CASE e
    BY <1>1, <1>2 DEF Sooner
  <1>3. CASE ~e
    BY <1>1, <1>3 DEF Sooner
  <1> QED  BY <1>2, <1>3

\* The places in a set are numbers, the sooner the less.
LEMMA PlaceOrder ==
    ASSUME NEW S \in SUBSET DOMAIN Chain, NEW e \in BOOLEAN
    PROVE  /\ \A n \in S : Place(n, S, e) \in 1..Cardinality(S)
           /\ \A m, n \in S : Sooner(m, n, e) => Place(m, S, e) < Place(n, S, e)
           /\ \A m, n \in S : Place(m, S, e) = Place(n, S, e) => m = n
  <1> DEFINE Upto(n) == {m \in S : m = n \/ Sooner(m, n, e)}
  <1>1. IsFiniteSet(S) /\ Cardinality(S) \in Nat
    BY ChainTypes
  <1>2. \A n \in S : /\ IsFiniteSet(Upto(n)) /\ Cardinality(Upto(n)) \in Nat
                     /\ Cardinality(Upto(n)) <= Cardinality(S)
    <2> TAKE n \in S
    <2>1. Upto(n) \in SUBSET S
      OBVIOUS
    <2> HIDE DEF Upto
    <2> QED  BY <1>1, <2>1, FS_Subset, FS_CardinalityType
  <1>3. ASSUME NEW n \in S PROVE Cardinality(Upto(n)) # 0
    <2>1. n \in Upto(n)
      OBVIOUS
    <2> HIDE DEF Upto
    <2> QED  BY <1>2, <2>1, FS_EmptySet
  <1>4. ASSUME NEW m \in S, NEW n \in S, Sooner(m, n, e)
        PROVE  Cardinality(Upto(m)) < Cardinality(Upto(n))
    <2>1. Upto(m) \in SUBSET Upto(n) /\ n \in Upto(n) /\ n \notin Upto(m)
      BY <1>4, SoonerOrder
    <2> HIDE DEF Upto
    <2> QED  BY <1>2, <2>1, FS_Subset
  <1>5. ASSUME NEW m \in S, NEW n \in S, Cardinality(Upto(m)) = Cardinality(Upto(n))
        PROVE  m = n
    <2>1. m = n \/ Sooner(m, n, e) \/ Sooner(n, m, e)
      BY SoonerOrder
    <2> HIDE DEF Upto
    <2> QED  BY <1>2, <1>4, <1>5, <2>1
  <1>6. \A n \in S : Place(n, S, e) = Cardinality(Upto(n))
    BY DEF Place
  <1> HIDE DEF Upto
  <1>7. \A n \in S : Place(n, S, e) \in 1..Cardinality(S)
    BY <1>1, <1>2, <1>3, <1>6
  <1> QED  BY <1>4, <1>5, <1>6, <1>7

\* InOrder gives the list of a set, in order.
LEMMA InOrderList ==
    ASSUME NEW S \in SUBSET DOMAIN Chain, NEW e \in BOOLEAN
    PROVE  /\ InOrder(S, e) \in Seq(S)
           /\ \A j, k \in DOMAIN InOrder(S, e) :
                 j < k => Sooner(InOrder(S, e)[j], InOrder(S, e)[k], e)
  <1> DEFINE size == Cardinality(S)
             f == [n \in S |-> Place(n, S, e)]
             list == InOrder(S, e)
  <1>1. IsFiniteSet(S) /\ size \in Nat
    BY ChainTypes
  <1>2. /\ \A n \in S : Place(n, S, e) \in 1..size
        /\ \A m, n \in S : Sooner(m, n, e) => Place(m, S, e) < Place(n, S, e)
        /\ \A m, n \in S : Place(m, S, e) = Place(n, S, e) => m = n
    BY PlaceOrder
  <1> HIDE DEF size
  <1>3. f \in Surjection(S, 1..size)
    <2>1. f \in Injection(S, 1..size)
      BY <1>2 DEF Injection, IsInjective
    <2>2. IsFiniteSet(1..size) /\ Cardinality(1..size) = size
      BY <1>1, FS_Interval
    <2>3. Cardinality(S) = Cardinality(1..size)
      BY <2>2 DEF size
    <2> HIDE DEF f
    <2> QED  BY <2>1, <2>2, <2>3, FS_Injection
  <1>4. \A k \in 1..size : \E n \in S : Place(n, S, e) = k
    BY <1>3 DEF Surjection
  <1>5. list = [k \in 1..size |-> CHOOSE n \in S : Place(n, S, e) = k]
    BY DEF InOrder, size
  <1>6. \A k \in 1..size : list[k] \in S /\ Place(list[k], S, e) = k
    BY <1>4, <1>5
  <1>7. list \in Seq(S)
    <2>1. \A k \in 1..size : list[k] \in S
      BY <1>6
    <2>2. list = [k \in 1..size |-> list[k]] /\ DOMAIN list = 1..size
      BY <1>5
    <2> HIDE DEF list
    <2>3. list \in [1..size -> S]
      BY <2>1, <2>2
    <2> QED  BY <1>1, <2>2, <2>3
  <1>8. DOMAIN list = 1..size
    BY <1>5
  <1> HIDE DEF list
  <1>9. ASSUME NEW j \in 1..size, NEW k \in 1..size, j < k
        PROVE  Sooner(list[j], list[k], e)
    <2>1. /\ list[j] \in S /\ Place(list[j], S, e) = j
          /\ list[k] \in S /\ Place(list[k], S, e) = k
      BY <1>6
    <2>2. list[j] = list[k] \/ Sooner(list[j], list[k], e) \/ Sooner(list[k], list[j], e)
      BY <2>1, SoonerOrder
    <2>3. list[j] # list[k]
      BY <1>1, <1>9, <2>1
    <2>4. ~Sooner(list[k], list[j], e)
      <3>1. Sooner(list[k], list[j], e) => k < j
        BY <1>2, <2>1
      <3> QED  BY <1>1, <1>9, <3>1
    <2> QED  BY <2>2, <2>3, <2>4
  <1> QED  BY <1>7, <1>8, <1>9 DEF list

LEMMA FirstsInitial ==
    ASSUME NEW S \in SUBSET DOMAIN Chain, NEW e \in BOOLEAN, NEW size \in Nat,
           NEW n \in Firsts(S, size, e), NEW m \in S, Sooner(m, n, e)
    PROVE  m \in Firsts(S, size, e)
  <1>1. n \in S /\ Place(n, S, e) <= size
    BY DEF Firsts
  <1>2. /\ Place(n, S, e) \in 1..Cardinality(S) /\ Place(m, S, e) \in 1..Cardinality(S)
        /\ Place(m, S, e) < Place(n, S, e) /\ Cardinality(S) \in Nat
    BY <1>1, PlaceOrder, ChainTypes
  <1>3. Place(m, S, e) <= size
    BY <1>1, <1>2
  <1> QED  BY <1>3 DEF Firsts

\* attachDate gives a list of the same transactions, those of a ledger in the
\* order they had, and the ledgers from the oldest on.
LEMMA DatedList ==
    ASSUME NEW S \in SUBSET DOMAIN Chain, NEW list \in Seq(S), NEW dated \in ByLedger(list)
    PROVE  /\ dated \in Seq(S)
           /\ \A i, j \in DOMAIN dated : i < j =>
                 \/ Chain[dated[i]].ledger < Chain[dated[j]].ledger
                 \/ /\ Chain[dated[i]].ledger = Chain[dated[j]].ledger
                    /\ \E k, l \in DOMAIN list :
                          k < l /\ dated[i] = list[k] /\ dated[j] = list[l]
  <1>1. Len(list) \in Nat /\ DOMAIN list = 1..Len(list)
    OBVIOUS
  <1>2. PICK from \in [DOMAIN list -> DOMAIN list] :
           /\ dated = [k \in DOMAIN list |-> list[from[k]]]
           /\ \A j, k \in DOMAIN list : j < k =>
                 \/ Chain[list[from[j]]].ledger < Chain[list[from[k]]].ledger
                 \/ /\ Chain[list[from[j]]].ledger = Chain[list[from[k]]].ledger
                    /\ from[j] < from[k]
    BY DEF ByLedger
  <1>3. \A k \in 1..Len(list) : from[k] \in 1..Len(list) /\ list[from[k]] \in S
    BY <1>1, <1>2
  <1>4. dated \in [1..Len(list) -> S]
    BY <1>1, <1>2, <1>3
  <1>5. ASSUME NEW i \in DOMAIN dated, NEW j \in DOMAIN dated, i < j
        PROVE  \/ Chain[dated[i]].ledger < Chain[dated[j]].ledger
               \/ /\ Chain[dated[i]].ledger = Chain[dated[j]].ledger
                  /\ \E k, l \in DOMAIN list :
                        k < l /\ dated[i] = list[k] /\ dated[j] = list[l]
    <2>1. /\ i \in DOMAIN list /\ j \in DOMAIN list
          /\ dated[i] = list[from[i]] /\ dated[j] = list[from[j]]
          /\ from[i] \in DOMAIN list /\ from[j] \in DOMAIN list
      BY <1>1, <1>2, <1>3
    <2> QED  BY <1>2, <1>5, <2>1
  <1> QED  BY <1>1, <1>4, <1>5
-----------------------------------------------------------------------------
(* What a query for one more than are in the ledger reaches.                *)

LEMMA LedgerTypes ==
    /\ MaxLedger \in Nat /\ Infinite \in Nat
    /\ \A n \in DOMAIN Chain : Chain[n].ledger <= MaxLedger
    /\ \A n \in DOMAIN Chain : Chain[n].ledger >= 0 /\ Chain[n].ledger < Infinite
    /\ \A l : InLedger(l) \in SUBSET DOMAIN Chain
    /\ \A top, start, end : HistoryAt(top, start, end) \in SUBSET DOMAIN Chain
  <1>1. MaxLedger \in Nat /\ Infinite \in Nat /\ Infinite = MaxLedger + 1
    BY ChainAssumption DEF Infinite
  <1>2. \A n \in DOMAIN Chain : Chain[n].ledger \in Nat /\ Chain[n].ledger <= MaxLedger
    <2>1. Chain \in Seq([ledger : 1..MaxLedger, kind : Kinds]) /\ DOMAIN Chain = 1..Len(Chain)
      BY ChainAssumption
    <2>2. \A n \in DOMAIN Chain : Chain[n] \in [ledger : 1..MaxLedger, kind : Kinds]
      BY <2>1, ElementOfSeq
    <2>3. \A n \in DOMAIN Chain : Chain[n].ledger \in 1..MaxLedger
      BY <2>2
    <2> QED  BY <1>1, <2>3
  <1> QED  BY <1>1, <1>2 DEF InLedger, HistoryAt

\* The place of n in a set is at most one more than there are transactions of
\* the ledger l, when those of the set up to n are of that ledger.
LEMMA PlaceNear ==
    ASSUME NEW S \in SUBSET DOMAIN Chain, NEW e \in BOOLEAN, NEW n \in S, NEW l,
           \A m \in S : Sooner(m, n, e) => Chain[m].ledger = l
    PROVE  n \in Firsts(S, Cardinality(InLedger(l)) + 1, e)
  <1> DEFINE Upto == {m \in S : m = n \/ Sooner(m, n, e)}
             L == InLedger(l)
  <1>1. IsFiniteSet(L) /\ Cardinality(L) \in Nat
    <2>1. L \in SUBSET DOMAIN Chain
      BY LedgerTypes
    <2> HIDE DEF L
    <2> QED  BY <2>1, ChainTypes
  <1>2. Upto \subseteq L \cup {n}
    BY DEF InLedger
  <1> HIDE DEF Upto, L
  <1>3. /\ IsFiniteSet(L \cup {n})
        /\ Cardinality(L \cup {n}) \in Nat /\ Cardinality(L \cup {n}) <= Cardinality(L) + 1
    <2>1. /\ IsFiniteSet(L \cup {n})
          /\ Cardinality(L \cup {n}) = IF n \in L THEN Cardinality(L) ELSE Cardinality(L) + 1
      BY <1>1, FS_AddElement
    <2> QED  BY <1>1, <2>1
  <1>4. Cardinality(Upto) \in Nat /\ Cardinality(Upto) <= Cardinality(L \cup {n})
    BY <1>2, <1>3, FS_Subset, FS_CardinalityType
  <1>5. Place(n, S, e) = Cardinality(Upto)
    BY DEF Place, Upto
  <1>6. Place(n, S, e) <= Cardinality(L) + 1
    BY <1>1, <1>3, <1>4, <1>5
  <1> QED  BY <1>6 DEF Firsts, L

LEMMA OlderReached ==
    ASSUME NEW n \in DOMAIN Chain, NEW top \in Nat, Chain[n].ledger <= top, n > 1
    PROVE  n - 1 \in Firsts(HistoryAt(top, 0, Chain[n].ledger),
                            Cardinality(InLedger(Chain[n].ledger)) + 1, FALSE)
  <1> DEFINE at == Chain[n].ledger
             S == HistoryAt(top, 0, at)
  <1>1. \A m \in DOMAIN Chain : m \in Nat /\ m >= 1 /\ m <= Len(Chain)
                                /\ Chain[m].ledger \in Nat
    BY ChainTypes
  <1>2. DOMAIN Chain = 1..Len(Chain) /\ Len(Chain) \in Nat
    BY ChainTypes
  <1>3. n - 1 \in DOMAIN Chain
    BY <1>1, <1>2
  <1>4. Chain[n - 1].ledger <= at
    BY <1>1, <1>3, ChainTypes
  <1>5. n - 1 \in S
    BY <1>1, <1>3, <1>4 DEF HistoryAt
  <1>6. ASSUME NEW m \in S, Sooner(m, n - 1, FALSE) PROVE Chain[m].ledger = at
    <2>1. m \in DOMAIN Chain /\ Chain[m].ledger <= at /\ m > n - 1
      BY <1>1, <1>6 DEF HistoryAt, Sooner
    <2>2. n <= m
      BY <1>1, <2>1
    <2>3. Chain[n].ledger <= Chain[m].ledger
      BY <2>1, <2>2, ChainTypes
    <2> QED  BY <1>1, <2>1, <2>3
  <1>7. S \in SUBSET DOMAIN Chain
    BY LedgerTypes
  <1> HIDE DEF S
  <1>8. n - 1 \in Firsts(S, Cardinality(InLedger(at)) + 1, FALSE)
    BY <1>5, <1>6, <1>7, PlaceNear
  <1> QED  BY <1>8 DEF S

LEMMA NewerReached ==
    ASSUME NEW n \in DOMAIN Chain, NEW top \in Nat, n + 1 \in DOMAIN Chain,
           Chain[n + 1].ledger <= top
    PROVE  n + 1 \in Firsts(HistoryAt(top, Chain[n].ledger, Infinite),
                            Cardinality(InLedger(Chain[n].ledger)) + 1, TRUE)
  <1> DEFINE at == Chain[n].ledger
             S == HistoryAt(top, at, Infinite)
  <1>1. \A m \in DOMAIN Chain : m \in Nat /\ Chain[m].ledger \in Nat
    BY ChainTypes
  <1>2. n \in Nat /\ n <= n + 1 /\ at <= Chain[n + 1].ledger
    BY <1>1, ChainTypes
  <1>3. n + 1 \in S
    <2>1. Chain[n + 1].ledger < Infinite /\ Infinite \in Nat
      BY LedgerTypes
    <2>2. Chain[n + 1].ledger \in at..Infinite
      BY <1>1, <1>2, <2>1
    <2> QED  BY <2>2 DEF HistoryAt
  <1>4. ASSUME NEW m \in S, Sooner(m, n + 1, TRUE) PROVE Chain[m].ledger = at
    <2>1. m \in DOMAIN Chain /\ Chain[m].ledger >= at /\ m < n + 1
      BY <1>1, <1>4 DEF HistoryAt, Sooner
    <2>2. m <= n
      BY <1>1, <1>2, <2>1
    <2>3. Chain[m].ledger <= Chain[n].ledger
      BY <2>1, <2>2, ChainTypes
    <2> QED  BY <1>1, <2>1, <2>3
  <1>5. S \in SUBSET DOMAIN Chain
    BY LedgerTypes
  <1> HIDE DEF S
  <1>6. n + 1 \in Firsts(S, Cardinality(InLedger(at)) + 1, TRUE)
    BY <1>3, <1>4, <1>5, PlaceNear
  <1> QED  BY <1>6 DEF S

\* A query of the newer side that reaches any transaction after n reaches the
\* one after n.
LEMMA NewerInitial ==
    ASSUME NEW n \in DOMAIN Chain, NEW top \in Nat, NEW size \in Nat,
           NEW m \in Firsts(HistoryAt(top, Chain[n].ledger, Infinite), size, TRUE),
           m > n
    PROVE  n + 1 \in Firsts(HistoryAt(top, Chain[n].ledger, Infinite), size, TRUE)
  <1> DEFINE at == Chain[n].ledger
             S == HistoryAt(top, at, Infinite)
  <1>1. \A k \in DOMAIN Chain : k \in Nat /\ k <= Len(Chain) /\ Chain[k].ledger \in Nat
    BY ChainTypes
  <1>2. m \in DOMAIN Chain /\ Chain[m].ledger <= top /\ m \in Nat /\ n \in Nat
    BY <1>1 DEF Firsts, HistoryAt
  <1>3. n + 1 \in DOMAIN Chain
    BY <1>1, <1>2, ChainTypes
  <1>4. CASE m = n + 1
    BY <1>4
  <1>5. CASE m # n + 1
    <2>1. n + 1 < m /\ n + 1 <= m /\ n <= n + 1
      BY <1>2, <1>5
    <2>2. Chain[n + 1].ledger <= Chain[m].ledger /\ at <= Chain[n + 1].ledger
      BY <1>2, <1>3, <2>1, ChainTypes
    <2>3. n + 1 \in S
      <3>1. Chain[n + 1].ledger < Infinite /\ Infinite \in Nat
        BY <1>3, LedgerTypes
      <3>2. Chain[n + 1].ledger \in at..Infinite /\ Chain[n + 1].ledger <= top
        BY <1>1, <1>2, <1>3, <2>2, <3>1
      <3> QED  BY <1>3, <3>2 DEF HistoryAt
    <2>4. S \in SUBSET DOMAIN Chain /\ Sooner(n + 1, m, TRUE)
      BY <2>1, LedgerTypes DEF Sooner
    <2> QED  BY <2>3, <2>4, FirstsInitial
  <1> QED  BY <1>4, <1>5
-----------------------------------------------------------------------------
(* findPreviousAndNextTransactions.                                         *)

LEMMA PlacedTypes ==
    ASSUME NEW note \in Notes, note.back # <<>>, note.onward # <<>>,
           NEW new \in Placed(note)
    PROVE  /\ new \in Notes /\ new.tx = note.tx /\ new.step = "found"
           /\ new.back = <<>> /\ new.onward = <<>>
  <1>1. PICK pair \in Neighbours(note.tx, (note.back[1] \cup note.onward[1]) \ {note.tx}) :
           new = [note EXCEPT
                    !.step = "found", !.back = <<>>, !.onward = <<>>,
                    !.previous = IF pair[1] = NoHash THEN @ ELSE pair[1],
                    !.next = IF pair[2] = NoHash THEN @ ELSE pair[2]]
    BY DEF Placed
  <1>2. note.back[1] \subseteq Hashes /\ note.onward[1] \subseteq Hashes
    BY DEF Notes
  <1>3. pair[1] \in Hashes \cup {NoHash} /\ pair[2] \in Hashes \cup {NoHash}
    <2> DEFINE others == (note.back[1] \cup note.onward[1]) \ {note.tx}
               known == others \cap DOMAIN Chain
    <2>1. others \subseteq Hashes /\ known \subseteq Hashes
      BY <1>2
    <2>2. pair \in Neighbours(note.tx, others)
      BY <1>1
    <2> HIDE DEF others
    <2>3. pair \in ((known \cup {NoHash}) \X (known \cup {NoHash}))
             \cup (others \X (known \cup {NoHash})) \cup ((known \cup {NoHash}) \X others)
      BY <2>2 DEF Neighbours
    <2> QED  BY <2>1, <2>3
  <1>4. DOMAIN note = {"tx", "step", "count", "back", "onward", "previous", "next"}
    BY DEF Notes
  <1>5. /\ note.previous \in Hashes \cup {NoHash} /\ note.next \in Hashes \cup {NoHash}
    BY DEF Notes
  <1> DEFINE p == IF pair[1] = NoHash THEN note.previous ELSE pair[1]
             q == IF pair[2] = NoHash THEN note.next ELSE pair[2]
  <1>6. p \in Hashes \cup {NoHash} /\ q \in Hashes \cup {NoHash}
    BY <1>3, <1>5
  <1>7. new = [note EXCEPT !.step = "found", !.back = <<>>, !.onward = <<>>,
                           !.previous = p, !.next = q]
    BY <1>1
  <1> HIDE DEF p, q
  <1>8. new \in Notes
    BY <1>6, <1>7 DEF Notes
  <1>9. new.tx = note.tx /\ new.step = "found" /\ new.back = <<>> /\ new.onward = <<>>
    BY <1>4, <1>7
  <1> QED  BY <1>8, <1>9

\* The neighbours are found in answers that reach them.
LEMMA PlacedRight ==
    ASSUME NEW note \in Notes, note.back # <<>>, note.onward # <<>>,
           Behind(note), Ahead(note),
           call.one => /\ note.previous = NoHash /\ note.next = NoHash
                       /\ Chain[note.tx].ledger <= call.asked,
           call.asked \in Nat,
           NEW new \in Placed(note)
    PROVE  Right(new)
  <1> DEFINE n == note.tx
             others == (note.back[1] \cup note.onward[1]) \ {n}
             sooner == {m \in others : m < n}
             later == {m \in others : m > n}
  <1>1. n \in DOMAIN Chain
    BY DEF Notes
  <1>2. \A m \in DOMAIN Chain : m \in Nat /\ m >= 1 /\ m # NoHash /\ Chain[m].ledger \in Nat
    BY ChainTypes DEF NoHash
  <1>3. others \subseteq DOMAIN Chain /\ others \cap DOMAIN Chain = others
    BY DEF Behind, Ahead
  <1>4. PICK pair \in Neighbours(n, others) :
           new = [note EXCEPT
                    !.step = "found", !.back = <<>>, !.onward = <<>>,
                    !.previous = IF pair[1] = NoHash THEN @ ELSE pair[1],
                    !.next = IF pair[2] = NoHash THEN @ ELSE pair[2]]
    BY DEF Placed
  <1>5. DOMAIN note = {"tx", "step", "count", "back", "onward", "previous", "next"}
    BY DEF Notes
  <1>6. /\ new.tx = n
        /\ new.previous = IF pair[1] = NoHash THEN note.previous ELSE pair[1]
        /\ new.next = IF pair[2] = NoHash THEN note.next ELSE pair[2]
    BY <1>4, <1>5
  <1> HIDE DEF others
  <1>7. /\ IF sooner = {} THEN pair[1] = NoHash
           ELSE pair[1] \in sooner /\ \A m \in sooner : m <= pair[1]
        /\ IF later = {} THEN pair[2] = NoHash
           ELSE pair[2] \in later /\ \A m \in later : m >= pair[2]
    BY <1>3, <1>4 DEF Neighbours
  <1>8. ASSUME call.one \/ HasPrevious(new) PROVE RightPrevious(new)
    <2>1. CASE n > 1
      <3>1. n - 1 \in note.back[1]
        BY <2>1 DEF Behind, HasPrevious
      <3>2. n - 1 \in sooner
        BY <1>1, <1>2, <3>1 DEF others
      <3>3. pair[1] \in sooner /\ n - 1 <= pair[1]
        BY <1>7, <3>2
      <3>4. pair[1] = n - 1 /\ pair[1] # NoHash
        BY <1>1, <1>2, <1>3, <3>3
      <3> QED  BY <1>6, <2>1, <3>4 DEF RightPrevious
    <2>2. CASE ~(n > 1)
      <3>1. sooner = {}
        BY <1>1, <1>2, <1>3, <2>2
      <3>2. new.previous = note.previous
        BY <1>6, <1>7, <3>1
      <3>3. call.one
        BY <1>6, <1>8, <2>2 DEF HasPrevious
      <3> QED  BY <1>6, <2>2, <3>2, <3>3 DEF RightPrevious
    <2> QED  BY <2>1, <2>2
  <1>9. ASSUME call.one \/ HasNext(new) PROVE RightNext(new)
    <2>1. HasNext(new) <=> HasNext(note)
      BY <1>6 DEF HasNext
    <2>2. ASSUME n + 1 \in others PROVE new.next = n + 1 /\ n + 1 \in DOMAIN Chain
      <3>1. n + 1 \in later
        BY <1>1, <1>2, <2>2
      <3>2. pair[2] \in later /\ n + 1 >= pair[2]
        BY <1>7, <3>1
      <3>3. pair[2] = n + 1 /\ pair[2] # NoHash
        BY <1>1, <1>2, <1>3, <3>2
      <3> QED  BY <1>3, <1>6, <2>2, <3>3
    <2>3. ASSUME n + 1 \in note.onward[1] PROVE n + 1 \in others
      BY <1>1, <1>2, <2>3 DEF others
    <2>4. CASE HasNext(note)
      <3>1. n + 1 \in note.onward[1]
        BY <2>4 DEF Ahead
      <3> QED  BY <1>6, <2>2, <2>3, <2>4, <3>1 DEF RightNext, HasNext
    <2>5. CASE ~HasNext(note)
      <3>1. call.one
        BY <1>9, <2>1, <2>5
      <3>2. \A m \in later : n + 1 \in others
        <4> TAKE m \in later
        <4>1. m \in note.back[1] \/ m \in note.onward[1]
          BY DEF others
        <4>2. CASE m \in note.onward[1]
          BY <2>3, <4>2 DEF Ahead
        <4>3. CASE m \in note.back[1]
          <5>1. m \in DOMAIN Chain /\ m > n /\ Chain[m].ledger <= Chain[n].ledger
            BY <1>3, <4>3 DEF Behind
          <5>2. n + 1 \in DOMAIN Chain /\ n + 1 <= m
            BY <1>1, <1>2, <5>1, ChainTypes
          <5>3. Chain[n + 1].ledger <= Chain[m].ledger
            BY <5>1, <5>2, ChainTypes
          <5>4. Chain[n + 1].ledger <= call.asked
            BY <1>1, <1>2, <3>1, <5>1, <5>2, <5>3
          <5> QED  BY <2>5, <5>2, <5>4 DEF HasNext
        <4> QED  BY <4>1, <4>2, <4>3
      <3>3. CASE later = {}
        <4>1. new.next = NoHash
          BY <1>6, <1>7, <3>1, <3>3
        <4> QED  BY <1>6, <2>5, <4>1 DEF RightNext, HasNext
      <3>4. CASE later # {}
        BY <1>6, <2>2, <2>5, <3>2, <3>4 DEF RightNext, HasNext
      <3> QED  BY <3>3, <3>4
    <2> QED  BY <2>4, <2>5
  <1> QED  BY <1>8, <1>9 DEF Right
-----------------------------------------------------------------------------
(* The steps.                                                               *)

LEMMA NoteTypes ==
    ASSUME NEW n \in DOMAIN Chain, NEW step \in {"counting", "seeking", "found"},
           NEW previous \in Hashes \cup {NoHash}, NEW next \in Hashes \cup {NoHash}
    PROVE  LET note == Note(n, step, previous, next) IN
           /\ note \in Notes /\ note.tx = n /\ note.step = step
           /\ note.back = <<>> /\ note.onward = <<>>
           /\ note.previous = previous /\ note.next = next
  BY DEF Note, Notes

\* A step that leaves the notifications alone.
LEMMA Unnoted ==
    ASSUME IInv, height' \in height..MaxLedger, rows \subseteq rows', rows' \subseteq Rows,
           notes' = notes,
           NEW step \in {"idle", "listing", "searching", "error", "thrown"},
           step = "listing" => call.step = "listing",
           call' = [call EXCEPT !.step = step]
    PROVE  IInv'
  <1>1. /\ height \in 0..MaxLedger /\ MaxLedger \in Nat /\ notes \in Seq(Notes)
        /\ call \in Calls
        /\ call.asked <= height
    BY LedgerTypes DEF IInv, TypeOK
  <1>2. /\ call'.asked = call.asked /\ call'.one = call.one /\ call.asked \in Nat
        /\ call' \in Calls
    BY <1>1 DEF Calls
  <1>3. TypeOK' /\ call'.asked <= height'
    BY <1>1, <1>2 DEF TypeOK
  <1>4. call'.one => call'.step # "listing" /\ Len(notes') <= 1
    <2>1. call'.step = step
      BY <1>1
    <2> QED  BY <1>2, <2>1 DEF IInv
  <1>5. (\A i \in DOMAIN notes : Validated(notes[i]))'
    <2> SUFFICES ASSUME NEW i \in DOMAIN notes' PROVE Validated(notes[i])'
      OBVIOUS
    <2>1. Validated(notes[i]) /\ Chain[notes[i].tx].ledger \in Nat
      <3>1. notes[i] \in Notes
        BY <1>1
      <3>2. notes[i].tx \in DOMAIN Chain
        BY <3>1 DEF Notes
      <3> QED  BY <3>2, ChainTypes DEF IInv
    <2>2. Chain[notes[i].tx].ledger <= height'
      BY <1>1, <2>1 DEF Validated
    <2> QED  BY <1>2, <2>1, <2>2 DEF Validated
  <1>6. SearchInv'
    <2> SUFFICES ASSUME rows' = {}, NEW i \in DOMAIN notes', i = Len(notes'),
                        LedgerFits(notes'[i].tx)
                 PROVE  Sought(notes[i])'
      BY DEF SearchInv
    <2>1. Sought(notes[i])
      BY DEF IInv, SearchInv
    <2> QED  BY <1>2, <2>1 DEF Sought, Behind, Ahead, Right, RightPrevious, RightNext,
                               HasPrevious, HasNext
  <1> QED  BY <1>3, <1>4, <1>5, <1>6 DEF IInv

\* A step of the search of one notification.
LEMMA OneNoted ==
    ASSUME IInv, UNCHANGED <<height, rows, call>>, NEW i \in DOMAIN notes,
           NEW new \in Notes, new.tx = notes[i].tx,
           notes' = [notes EXCEPT ![i] = new],
           rows = {} /\ i = Len(notes) /\ LedgerFits(new.tx) => Sought(new)
    PROVE  IInv'
  <1>1. notes \in Seq(Notes) /\ Len(notes) \in Nat /\ DOMAIN notes = 1..Len(notes)
    BY DEF IInv, TypeOK
  <1>2. /\ notes' \in Seq(Notes) /\ Len(notes') = Len(notes) /\ DOMAIN notes' = DOMAIN notes
        /\ notes'[i] = new
        /\ \A j \in DOMAIN notes : j # i => notes'[j] = notes[j]
    BY <1>1
  <1>3. TypeOK'
    BY <1>2 DEF IInv, TypeOK
  <1>4. call'.asked <= height' /\ (call'.one => call'.step # "listing" /\ Len(notes') <= 1)
    BY <1>2 DEF IInv
  <1>5. (\A j \in DOMAIN notes : Validated(notes[j]))'
    <2> SUFFICES ASSUME NEW j \in DOMAIN notes' PROVE Validated(notes[j])'
      OBVIOUS
    <2>1. notes'[j].tx = notes[j].tx /\ Validated(notes[j])
      BY <1>2 DEF IInv
    <2> QED  BY <2>1 DEF Validated
  <1>6. SearchInv'
    <2> SUFFICES ASSUME rows = {}, NEW j \in DOMAIN notes', j = Len(notes'),
                        LedgerFits(notes'[j].tx)
                 PROVE  Sought(notes[j])'
      BY DEF SearchInv
    <2>1. j \in DOMAIN notes /\ j = Len(notes)
      BY <1>2
    <2>2. PICK note : note = notes'[j] /\ Sought(note)
      <3>1. CASE j = i
        BY <1>2, <2>1, <3>1
      <3>2. CASE j # i
        <4>1. notes'[j] = notes[j]
          BY <1>2, <2>1, <3>2
        <4>2. Sought(notes[j])
          BY <2>1, <4>1 DEF IInv, SearchInv
        <4> QED  BY <4>1, <4>2
      <3> QED  BY <3>1, <3>2
    <2> QED  BY <2>2 DEF Sought, Behind, Ahead, Right, RightPrevious, RightNext,
                         HasPrevious, HasNext
  <1> QED  BY <1>3, <1>4, <1>5, <1>6 DEF IInv

\* The search of a notification is left alone by a step that throws.
LEMMA ThrowStep ==
    ASSUME IInv, Throw, UNCHANGED <<height, rows>>
    PROVE  IInv'
  <1>1. height' \in height..MaxLedger /\ rows \subseteq rows' /\ rows' \subseteq Rows
    BY LedgerTypes DEF IInv, TypeOK
  <1>2. notes' = notes /\ call' = [call EXCEPT !.step = "thrown"]
    BY DEF Throw
  <1> QED  BY <1>1, <1>2, Unnoted

\* The count is that of the account's transactions in the ledger.
LEMMA CountStep ==
    ASSUME IInv, NEW i \in DOMAIN notes, Count(i)
    PROVE  IInv'
  <1> DEFINE note == notes[i]
             at == Chain[note.tx].ledger
             got == Firsts(HistoryAt(height, at, at), Limit, FALSE)
             seen == Cardinality(got)
             local == Cardinality(RowsIn(at, at))
             count == seen + local
             new == [note EXCEPT !.count = count, !.step = "seeking"]
  <1>1. note \in Notes /\ note.step = "counting" /\ UNCHANGED <<height, rows>>
    BY DEF IInv, TypeOK, Count
  <1>2. note.tx \in DOMAIN Chain
    BY <1>1 DEF Notes
  <1>3. CASE Throws(RowsIn(at, at))
    <2>1. Throw
      BY <1>3 DEF Count
    <2> QED  BY <1>1, <2>1, ThrowStep
  <1>4. CASE ~Throws(RowsIn(at, at))
    <2>1. /\ call' = call
          /\ notes' = [notes EXCEPT ![i].count = count, ![i].step = "seeking"]
      BY <1>4 DEF Count
    <2>2. HistoryAt(height, at, at) \in SUBSET DOMAIN Chain /\ got \in SUBSET DOMAIN Chain
      BY LedgerTypes DEF Firsts
    <2>3. seen \in Nat
      <3> HIDE DEF got
      <3> QED  BY <2>2, ChainTypes
    <2>4. local \in Nat
      <3> DEFINE R == RowsIn(at, at)
      <3>1. \A row, other \in R : row = other
        BY <1>4 DEF Throws
      <3> HIDE DEF R
      <3>2. CASE R = {}
        BY <3>2, FS_EmptySet DEF R
      <3>3. CASE R # {}
        <4>1. PICK row \in R : R = {row}
          BY <3>1, <3>3
        <4>2. Cardinality({row}) = 1
          BY FS_Singleton
        <4> QED  BY <4>1, <4>2 DEF R
      <3> QED  BY <3>2, <3>3
    <2>5. count \in Nat
      <3> HIDE DEF seen, local
      <3> QED  BY <2>3, <2>4
    <2>6. ASSUME rows = {}, LedgerFits(note.tx)
          PROVE  count = Cardinality(InLedger(at))
      <3>1. RowsIn(at, at) = {}
        BY <2>6 DEF RowsIn
      <3>2. HistoryAt(height, at, at) = InLedger(at)
        <4>1. at <= height /\ at \in Nat
          BY <1>2, ChainTypes DEF IInv, Validated
        <4>2. \A m \in DOMAIN Chain : Chain[m].ledger \in at..at <=> Chain[m].ledger = at
          BY <4>1, ChainTypes
        <4> QED  BY <4>1, <4>2 DEF HistoryAt, InLedger
      <3>3. got = InLedger(at)
        <4> DEFINE S == InLedger(at)
        <4>1. S \in SUBSET DOMAIN Chain /\ Cardinality(S) <= Limit
          BY <2>6, LedgerTypes DEF LedgerFits
        <4>2. Limit \in Nat /\ Cardinality(S) \in Nat
          BY <4>1, ChainTypes, NotificationAssumption
        <4> HIDE DEF S
        <4>3. \A n \in S : Place(n, S, FALSE) \in 1..Cardinality(S)
          BY <4>1, PlaceOrder
        <4>4. ASSUME NEW n \in S PROVE Place(n, S, FALSE) <= Limit
          <5>1. PICK p : p = Place(n, S, FALSE)
            OBVIOUS
          <5>2. p \in 1..Cardinality(S)
            BY <4>3, <5>1
          <5>3. p <= Limit
            BY <4>1, <4>2, <5>2
          <5> QED  BY <5>1, <5>3
        <4> QED  BY <3>2, <4>4 DEF Firsts, S
      <3>4. local = 0 /\ seen = Cardinality(InLedger(at))
        BY <3>1, <3>3, FS_EmptySet
      <3> HIDE DEF local, seen
      <3> QED  BY <2>3, <3>4
    <2> HIDE DEF count
    <2>7. notes' = [notes EXCEPT ![i] = new]
      BY <2>1
    <2>8. /\ new \in Notes /\ new.tx = note.tx /\ new.step = "seeking" /\ new.count = count
          /\ new.back = note.back /\ new.onward = note.onward
          /\ new.previous = note.previous /\ new.next = note.next
      BY <1>1, <2>5 DEF Notes
    <2>9. rows = {} /\ i = Len(notes) /\ LedgerFits(new.tx) => Sought(new)
      <3> SUFFICES ASSUME rows = {}, i = Len(notes), LedgerFits(new.tx) PROVE Sought(new)
        OBVIOUS
      <3>1. Sought(note)
        BY <2>8 DEF IInv, SearchInv
      <3> HIDE DEF new
      <3>2. new.back = <<>> /\ new.onward = <<>>
        BY <1>1, <2>8, <3>1 DEF Sought
      <3>3. call.one => new.previous = NoHash /\ new.next = NoHash
        BY <1>1, <2>8, <3>1 DEF Sought
      <3> QED  BY <2>6, <2>8, <3>2, <3>3 DEF Sought, Behind, Ahead
    <2> HIDE DEF new
    <2> QED  BY <1>1, <2>1, <2>7, <2>8, <2>9, OneNoted
  <1> QED  BY <1>3, <1>4

\* What a query answers is of the chain and of the rows; without rows it is the
\* first transactions of the history, as many as were wanted.
LEMMA AnswerTypes ==
    ASSUME rows \subseteq Rows, NEW start, NEW end, NEW earliest, NEW max,
           NEW got \in Answers(start, end, earliest, max)
    PROVE  /\ got \in SUBSET Hashes
           /\ rows = {} => got = Firsts(HistoryAt(height, start, end), max, earliest)
  <1> DEFINE all == HistoryAt(height, start, end)
             R == RowsIn(start, end)
  <1>1. \/ \E row \in R : got = Firsts(all, max - 1, earliest) \cup {row.hash}
        \/ got = Firsts(all, max, earliest)
    BY DEF Answers
  <1>2. all \in SUBSET DOMAIN Chain
    BY LedgerTypes
  <1>3. R \subseteq Rows /\ (rows = {} => R = {})
    BY DEF RowsIn
  <1> HIDE DEF all, R
  <1>4. Firsts(all, max - 1, earliest) \subseteq Hashes /\ Firsts(all, max, earliest) \subseteq Hashes
    BY <1>2 DEF Firsts, Hashes
  <1>5. \A row \in R : row.hash \in Hashes
    BY <1>3 DEF Hashes
  <1> QED  BY <1>1, <1>3, <1>4, <1>5 DEF all

\* The answer of either side reaches the neighbour on it.
LEMMA SeekStep ==
    ASSUME IInv, NEW i \in DOMAIN notes, NEW forward \in BOOLEAN, Seek(i, forward)
    PROVE  IInv'
  <1> DEFINE note == notes[i]
             n == note.tx
             at == Chain[n].ledger
             start == IF forward THEN at ELSE 0
             end == IF forward THEN Infinite ELSE at
             heard(got) == IF forward THEN [note EXCEPT !.onward = <<got>>]
                                      ELSE [note EXCEPT !.back = <<got>>]
  <1>1. /\ note \in Notes /\ note.step = "seeking" /\ UNCHANGED <<height, rows>>
        /\ rows \subseteq Rows
    BY DEF IInv, TypeOK, Seek
  <1>2. n \in DOMAIN Chain /\ note.count \in Nat /\ at \in Nat
    <2>1. n \in DOMAIN Chain /\ note.count \in Nat
      BY <1>1 DEF Notes
    <2> QED  BY <2>1, ChainTypes
  <1>3. at <= height /\ height \in Nat /\ call.asked \in Nat /\ call.asked <= height
        /\ (call.one => at <= call.asked)
    <2>1. MaxLedger \in Nat /\ height \in 0..MaxLedger /\ call.asked \in 0..MaxLedger
      BY LedgerTypes DEF IInv, TypeOK, Calls
    <2> QED  BY <2>1 DEF IInv, Validated
  <1>4. \/ Throw
        \/ \E got \in Answers(start, end, forward, Wanted(note)) :
              \E new \in Joined(heard(got)) :
                 notes' = [notes EXCEPT ![i] = new] /\ UNCHANGED call
    BY DEF Seek
  <1>5. CASE Throw
    BY <1>1, <1>5, ThrowStep
  <1>6. ASSUME NEW got \in Answers(start, end, forward, Wanted(note)),
               NEW new \in Joined(heard(got)),
               notes' = [notes EXCEPT ![i] = new], UNCHANGED call
        PROVE  IInv'
    <2> DEFINE h == heard(got)
    <2>1. /\ got \in SUBSET Hashes
          /\ rows = {} => got = Firsts(HistoryAt(height, start, end), Wanted(note), forward)
      BY <1>1, AnswerTypes
    <2>2. /\ h \in Notes /\ h.tx = n /\ h.step = "seeking" /\ h.count = note.count
          /\ h.previous = note.previous /\ h.next = note.next
          /\ forward => h.onward = <<got>> /\ h.back = note.back
          /\ ~forward => h.back = <<got>> /\ h.onward = note.onward
      BY <1>1, <2>1 DEF Notes
    <2> HIDE DEF h
    <2>3. new \in Joined(h)
      BY DEF h
    <2>4. ASSUME rows = {}, i = Len(notes), LedgerFits(n)
          PROVE  Sought(h)
      <3>1. Sought(note)
        BY <2>4 DEF IInv, SearchInv
      <3>2. Wanted(note) = Cardinality(InLedger(at)) + 1 /\ Wanted(note) \in Nat
        BY <1>1, <1>2, <3>1 DEF Sought, Wanted
      <3>3. CASE forward
        <4>1. got = Firsts(HistoryAt(height, at, Infinite), Wanted(note), TRUE)
          BY <2>1, <2>4, <3>3
        <4>2. got \subseteq DOMAIN Chain
          BY <4>1, LedgerTypes DEF Firsts
        <4>3. \A m \in got : m > n => n + 1 \in got
          BY <1>2, <1>3, <3>2, <4>1, NewerInitial
        <4>4. ASSUME HasNext(h) PROVE n + 1 \in got
          <5>1. n + 1 \in DOMAIN Chain /\ Chain[n + 1].ledger <= call.asked
            BY <2>2, <4>4 DEF HasNext
          <5>2. Chain[n + 1].ledger <= height
            BY <1>3, <5>1, ChainTypes
          <5> QED  BY <1>2, <1>3, <3>2, <4>1, <5>1, <5>2, NewerReached
        <4>5. Ahead(h)
          BY <2>2, <3>3, <4>2, <4>3, <4>4 DEF Ahead
        <4>6. Behind(h)
          BY <2>2, <3>1, <3>3 DEF Sought, Behind, HasPrevious
        <4> QED  BY <1>1, <2>2, <3>1, <4>5, <4>6 DEF Sought
      <3>4. CASE ~forward
        <4>1. got = Firsts(HistoryAt(height, 0, at), Wanted(note), FALSE)
          BY <2>1, <2>4, <3>4
        <4>2. got \subseteq DOMAIN Chain
          BY <4>1, LedgerTypes DEF Firsts
        <4>3. \A m \in got : Chain[m].ledger <= at
          BY <1>2, <4>1, <4>2, ChainTypes DEF Firsts, HistoryAt
        <4>4. HasPrevious(h) => n - 1 \in got
          BY <1>2, <1>3, <2>2, <3>2, <4>1, OlderReached DEF HasPrevious
        <4>5. Behind(h)
          BY <2>2, <3>4, <4>2, <4>3, <4>4 DEF Behind
        <4>6. Ahead(h)
          BY <2>2, <3>1, <3>4 DEF Sought, Ahead, HasNext
        <4> QED  BY <1>1, <2>2, <3>1, <4>5, <4>6 DEF Sought
      <3> QED  BY <3>3, <3>4
    <2>5. CASE h.back = <<>> \/ h.onward = <<>>
      <3>1. new = h
        BY <2>3, <2>5 DEF Joined
      <3> QED  BY <1>1, <1>6, <2>2, <2>4, <3>1, OneNoted
    <2>6. CASE ~(h.back = <<>> \/ h.onward = <<>>)
      <3>1. new \in Placed(h) /\ h.back # <<>> /\ h.onward # <<>>
        BY <2>3, <2>6 DEF Joined
      <3>2. /\ new \in Notes /\ new.tx = n /\ new.step = "found"
            /\ new.back = <<>> /\ new.onward = <<>>
        BY <2>2, <3>1, PlacedTypes
      <3>3. ASSUME rows = {}, i = Len(notes), LedgerFits(n)
            PROVE  Sought(new)
        <4>1. Sought(h)
          BY <2>4, <3>3
        <4>2. Right(new)
          <5>1. Behind(h) /\ Ahead(h)
            BY <4>1 DEF Sought
          <5>2. call.one => h.previous = NoHash /\ h.next = NoHash /\ at <= call.asked
            BY <1>3, <2>2, <4>1 DEF Sought
          <5>3. Chain[h.tx].ledger = at
            BY <2>2
          <5> QED  BY <1>3, <2>2, <3>1, <5>1, <5>2, <5>3, PlacedRight
        <4> QED  BY <3>2, <4>2 DEF Sought, Behind, Ahead
      <3> QED  BY <1>1, <1>6, <3>2, <3>3, OneNoted
    <2> QED  BY <2>5, <2>6
  <1> QED  BY <1>4, <1>5, <1>6

\* A page without rows is a list of validated transactions, in order.
LEMMA PagedList ==
    ASSUME height \in 0..MaxLedger, rows \subseteq Rows,
           NEW c, c.per \in Nat, c.page \in Nat, c.earliest \in BOOLEAN,
           NEW list \in Paged(c), ToSet(list) \subseteq DOMAIN Chain
    PROVE  /\ list \in Seq(HistoryAt(height, 0, Infinite))
           /\ \A j, k \in DOMAIN list : j < k => Sooner(list[j], list[k], c.earliest)
  <1> DEFINE S == HistoryAt(height, 0, Infinite)
             T == {row.hash : row \in Rows}
             first == c.per * (IF c.page = 0 THEN 0 ELSE c.page - 1)
             base == InOrder(S, c.earliest)
  <1>1. S \in SUBSET DOMAIN Chain
    BY LedgerTypes
  <1>2. T \cap DOMAIN Chain = {}
    BY NotificationAssumption
  <1>3. first \in Nat
    <2> DEFINE skipped == IF c.page = 0 THEN 0 ELSE c.page - 1
    <2>1. skipped \in Nat
      OBVIOUS
    <2>2. \A m, k \in Nat : m * k \in Nat
      OBVIOUS
    <2> HIDE DEF skipped
    <2>3. c.per * skipped \in Nat
      BY <2>1, <2>2
    <2> QED  BY <2>3 DEF skipped
  <1>4. PICK all \in Mixed(base, RowsIn(0, Infinite)) :
           list = Shorter(SubSeq(all, first + 1, Len(all)), c.per)
    BY DEF Paged
  <1> HIDE DEF first, T, S
  <1>5. /\ base \in Seq(S)
        /\ \A j, k \in DOMAIN base : j < k => Sooner(base[j], base[k], c.earliest)
    BY <1>1, InOrderList
  <1> HIDE DEF base
  <1>6. all \in Seq(S \cup T)
    <2>1. CASE RowsIn(0, Infinite) = {}
      <3>1. all = base
        BY <1>4, <2>1 DEF Mixed
      <3> QED  BY <1>5, <3>1
    <2>2. CASE RowsIn(0, Infinite) # {}
      <3>1. PICK i \in 1..Len(base) + 1, row \in RowsIn(0, Infinite) :
               all = InsertAt(base, i, row.hash)
        BY <1>4, <2>2 DEF Mixed
      <3>2. row.hash \in T /\ i \in Int /\ i - 1 \in Int /\ Len(base) \in Nat
        BY <1>5, <3>1 DEF RowsIn, T
      <3>3. \A k \in 1..Len(base) : base[k] \in S \cup T
        BY <1>5
      <3>4. SubSeq(base, 1, i - 1) \in Seq(S \cup T)
        <4>1. \A k \in 1..i - 1 : base[k] \in S \cup T
          BY <3>1, <3>2, <3>3
        <4> QED  BY <3>2, <4>1, SubSeqProperties
      <3>5. SubSeq(base, i, Len(base)) \in Seq(S \cup T)
        <4>1. \A k \in i..Len(base) : base[k] \in S \cup T
          BY <3>1, <3>2, <3>3
        <4> QED  BY <3>2, <4>1, SubSeqProperties
      <3>6. <<row.hash>> \in Seq(S \cup T)
        BY <3>2
      <3> QED  BY <3>1, <3>4, <3>5, <3>6 DEF InsertAt
    <2> QED  BY <2>1, <2>2
  <1>13. ASSUME NEW p \in DOMAIN all, NEW q \in DOMAIN all, p < q,
                all[p] \in S, all[q] \in S
         PROVE  Sooner(all[p], all[q], c.earliest)
    <2>1. CASE RowsIn(0, Infinite) = {}
      BY <1>4, <1>5, <1>13, <2>1 DEF Mixed
    <2>2. CASE RowsIn(0, Infinite) # {}
      <3>1. PICK i \in 1..Len(base) + 1, row \in RowsIn(0, Infinite) :
               all = InsertAt(base, i, row.hash)
        BY <1>4, <2>2 DEF Mixed
      <3>2. row.hash \notin S /\ i \in Int /\ Len(base) \in Nat /\ DOMAIN base = 1..Len(base)
        BY <1>1, <1>2, <1>5, <3>1 DEF RowsIn, T
      <3> DEFINE at(k) == IF k < i THEN k ELSE k - 1
      <3>3. ASSUME NEW k \in DOMAIN all, all[k] \in S
            PROVE  k # i /\ at(k) \in DOMAIN base /\ all[k] = base[at(k)]
        <4> DEFINE left == SubSeq(base, 1, i - 1)
                   right == SubSeq(base, i, Len(base))
        <4>1. /\ left \in Seq(S) /\ Len(left) = i - 1
              /\ \A m \in 1..i - 1 : left[m] = base[m]
          BY <1>5, <3>1, <3>2, SubSeqProperties
        <4>2. /\ right \in Seq(S) /\ Len(right) = Len(base) - i + 1
              /\ \A m \in 1..Len(base) - i + 1 : right[m] = base[i + m - 1]
          BY <1>5, <3>1, <3>2, SubSeqProperties
        <4>3. all = left \o <<row.hash>> \o right
          BY <3>1 DEF InsertAt
        <4> HIDE DEF left, right
        <4> DEFINE front == left \o <<row.hash>>
        <4>4. /\ front \in Seq(S \cup T) /\ Len(front) = i
              /\ \A m \in 1..i - 1 : front[m] = left[m]
              /\ front[i] = row.hash
          BY <3>1, <3>2, <4>1 DEF RowsIn, T
        <4> HIDE DEF front
        <4>5. /\ Len(all) = Len(base) + 1 /\ DOMAIN all = 1..Len(base) + 1
              /\ \A m \in 1..i : all[m] = front[m]
              /\ \A m \in i + 1..Len(base) + 1 : all[m] = right[m - i]
          BY <3>1, <3>2, <4>2, <4>3, <4>4 DEF front
        <4>6. CASE k < i
          BY <3>1, <3>2, <4>1, <4>4, <4>5, <4>6
        <4>7. CASE k = i
          BY <3>1, <3>2, <3>3, <4>4, <4>5, <4>7
        <4>8. CASE k > i
          <5>1. all[k] = right[k - i]
            BY <3>1, <3>2, <4>5, <4>8
          <5>2. right[k - i] = base[k - 1] /\ k - 1 \in DOMAIN base
            BY <3>1, <3>2, <4>2, <4>5, <4>8
          <5> QED  BY <3>2, <4>5, <4>8, <5>1, <5>2
        <4> QED  BY <3>2, <4>5, <4>6, <4>7, <4>8
      <3>4. /\ p # i /\ at(p) \in DOMAIN base /\ all[p] = base[at(p)]
            /\ q # i /\ at(q) \in DOMAIN base /\ all[q] = base[at(q)]
        BY <1>13, <3>3
      <3>5. at(p) < at(q)
        BY <1>6, <1>13, <3>2, <3>4
      <3> HIDE DEF at
      <3> QED  BY <1>5, <3>4, <3>5
    <2> QED  BY <2>1, <2>2
  <1> DEFINE rest == SubSeq(all, first + 1, Len(all))
             n == IF Len(rest) < c.per THEN Len(rest) ELSE c.per
  <1>7. /\ rest \in Seq(S \cup T) /\ Len(rest) \in Nat
        /\ \A k \in 1..Len(rest) : rest[k] = all[first + k] /\ first + k \in DOMAIN all
    <2>1. Len(all) \in Nat /\ first + 1 \in Nat /\ first + 1 >= 1
      BY <1>3, <1>6
    <2>2. \A k \in first + 1..Len(all) : all[k] \in S \cup T
      BY <1>6, <2>1
    <2>3. /\ rest \in Seq(S \cup T)
          /\ Len(rest) = IF first + 1 <= Len(all) THEN Len(all) - (first + 1) + 1 ELSE 0
          /\ \A k \in 1..Len(all) - (first + 1) + 1 : rest[k] = all[(first + 1) + k - 1]
      BY <2>1, <2>2, SubSeqProperties
    <2> HIDE DEF rest
    <2>4. DOMAIN all = 1..Len(all)
      BY <1>6
    <2>5. ASSUME NEW k \in 1..Len(rest)
          PROVE  rest[k] = all[first + k] /\ first + k \in DOMAIN all
      <3>1. k \in 1..Len(all) - (first + 1) + 1 /\ (first + 1) + k - 1 = first + k
        BY <1>3, <2>1, <2>3
      <3>2. first + k \in 1..Len(all)
        BY <1>3, <2>1, <3>1
      <3> QED  BY <2>3, <2>4, <3>1, <3>2
    <2> QED  BY <2>3, <2>5
  <1>8. list = SubSeq(rest, 1, n)
    BY <1>4 DEF Shorter
  <1> HIDE DEF rest
  <1>9. n \in Nat /\ n <= Len(rest)
    BY <1>7
  <1> HIDE DEF n
  <1>10. list \in Seq(S \cup T)
    BY <1>7, <1>8, <1>9
  <1>11. \A k \in 1..Len(list) : list[k] \in S
    <2> TAKE k \in 1..Len(list)
    <2>1. list[k] \in S \cup T /\ k \in DOMAIN list
      BY <1>10
    <2>2. list[k] \in DOMAIN Chain
      BY <2>1 DEF ToSet
    <2> QED  BY <1>2, <2>1, <2>2
  <1>12. list \in Seq(S)
    <2>1. Len(list) \in Nat /\ list = [k \in 1..Len(list) |-> list[k]]
      BY <1>10
    <2>2. list \in [1..Len(list) -> S]
      BY <1>11, <2>1
    <2> QED  BY <2>1, <2>2
  <1>14. ASSUME NEW j \in DOMAIN list, NEW k \in DOMAIN list, j < k
         PROVE  Sooner(list[j], list[k], c.earliest)
    <2>1. /\ DOMAIN list = 1..n /\ \A m \in 1..n : list[m] = rest[m]
          /\ n <= Len(rest) /\ Len(list) = n
      BY <1>7, <1>8, <1>9
    <2>2. /\ list[j] = all[first + j] /\ first + j \in DOMAIN all
          /\ list[k] = all[first + k] /\ first + k \in DOMAIN all
      BY <1>7, <1>9, <2>1
    <2>3. list[j] \in S /\ list[k] \in S
      BY <1>11, <2>1
    <2>4. first + j < first + k
      BY <1>3, <1>9, <1>14, <2>1
    <2> QED  BY <1>13, <2>2, <2>3, <2>4
  <1> QED  BY <1>12, <1>14 DEF S

LEMMA ListStep ==
    ASSUME IInv, List
    PROVE  IInv'
  <1>1. /\ height \in 0..MaxLedger /\ rows \subseteq Rows /\ UNCHANGED <<height, rows>>
        /\ call \in Calls
        /\ call.asked <= height /\ MaxLedger \in Nat
    BY LedgerTypes DEF IInv, TypeOK, List
  <1>2. \/ Throw
        \/ /\ call' = [call EXCEPT !.step = "error"]
           /\ UNCHANGED notes
        \/ \E list \in Paged(call) :
              /\ ToSet(list) \subseteq DOMAIN Chain
              /\ \E dated \in ByLedger(list) : notes' = Noted(dated, call)
              /\ call' = [call EXCEPT !.step = "searching"]
    BY DEF List
  <1>3. CASE Throw
    BY <1>1, <1>3, ThrowStep
  <1>4. CASE call' = [call EXCEPT !.step = "error"] /\ UNCHANGED notes
    <2>1. height' \in height..MaxLedger /\ rows \subseteq rows' /\ rows' \subseteq Rows
      BY <1>1
    <2> QED  BY <1>4, <2>1, Unnoted
  <1>5. ASSUME NEW list \in Paged(call), ToSet(list) \subseteq DOMAIN Chain,
               NEW dated \in ByLedger(list), notes' = Noted(dated, call),
               call' = [call EXCEPT !.step = "searching"]
        PROVE  IInv'
    <2> DEFINE S == HistoryAt(height, 0, Infinite)
    <2>1. S \in SUBSET DOMAIN Chain /\ dated \in Seq(S)
      <3>1. S \in SUBSET DOMAIN Chain
        BY LedgerTypes
      <3>2. list \in Seq(S)
        BY <1>1, <1>5, PagedList DEF Calls
      <3> HIDE DEF S
      <3> QED  BY <1>5, <3>1, <3>2, DatedList
    <2>2. Len(dated) \in Nat /\ DOMAIN dated = 1..Len(dated)
          /\ \A i \in DOMAIN dated : dated[i] \in S
      <3> HIDE DEF S
      <3> QED  BY <2>1
    <2>3. ASSUME NEW i \in DOMAIN dated
          PROVE  /\ notes'[i] \in Notes /\ notes'[i].tx = dated[i]
                 /\ i = Len(dated) => notes'[i].step = "counting"
                 /\ notes'[i].back = <<>> /\ notes'[i].onward = <<>>
      <3> DEFINE before == IF i > 1 THEN dated[i - 1] ELSE NoHash
                 after == IF i < Len(dated) THEN dated[i + 1] ELSE NoHash
                 previous == IF call.earliest THEN after ELSE before
                 next == IF call.earliest THEN before ELSE after
                 searched ==
                    \/ i = Len(dated)
                    \/ call.page # 0 /\ NoHash = IF call.earliest THEN previous ELSE next
                 step == IF searched THEN "counting" ELSE "found"
      <3>1. notes'[i] = Note(dated[i], step, previous, next)
        BY <1>5 DEF Noted
      <3>2. before \in Hashes \cup {NoHash} /\ after \in Hashes \cup {NoHash}
        <4>1. i > 1 => i - 1 \in DOMAIN dated
          BY <2>2
        <4>2. i < Len(dated) => i + 1 \in DOMAIN dated
          BY <2>2
        <4>3. S \subseteq Hashes
          BY <2>1 DEF Hashes
        <4> HIDE DEF S
        <4> QED  BY <2>2, <4>1, <4>2, <4>3
      <3>3. previous \in Hashes \cup {NoHash} /\ next \in Hashes \cup {NoHash}
        BY <3>2
      <3>4. step \in {"counting", "seeking", "found"} /\ (i = Len(dated) => step = "counting")
        OBVIOUS
      <3>5. dated[i] \in DOMAIN Chain
        BY <2>1, <2>2
      <3> HIDE DEF previous, next, step
      <3> QED  BY <3>1, <3>3, <3>4, <3>5, NoteTypes
    <2>4. notes' \in Seq(Notes) /\ Len(notes') = Len(dated) /\ DOMAIN notes' = DOMAIN dated
      <3>1. DOMAIN notes' = 1..Len(dated) /\ notes' = [i \in 1..Len(dated) |-> notes'[i]]
        BY <1>5, <2>2 DEF Noted
      <3>2. notes' \in [1..Len(dated) -> Notes]
        BY <2>2, <2>3, <3>1
      <3> QED  BY <2>2, <3>1, <3>2
    <2>5. /\ call' \in Calls
          /\ call'.asked = call.asked /\ call'.one = call.one
      BY <1>1, <1>5 DEF Calls
    <2>6. ~call'.one
      BY <2>5 DEF IInv, List
    <2>7. (\A i \in DOMAIN notes : Validated(notes[i]))'
      <3> SUFFICES ASSUME NEW i \in DOMAIN notes' PROVE Validated(notes[i])'
        OBVIOUS
      <3>1. notes'[i].tx \in S
        BY <2>2, <2>3, <2>4
      <3>2. Chain[notes'[i].tx].ledger <= height'
        BY <1>1, <3>1 DEF HistoryAt
      <3> QED  BY <2>6, <3>2 DEF Validated
    <2>8. \A i \in DOMAIN notes' : i = Len(notes') =>
             /\ notes'[i].step = "counting" /\ notes'[i].back = <<>> /\ notes'[i].onward = <<>>
      BY <2>3, <2>4
    <2>9. SearchInv'
      BY <2>6, <2>8 DEF SearchInv, Sought, Behind, Ahead
    <2> QED  BY <1>1, <2>4, <2>5, <2>6, <2>7, <2>9 DEF IInv, TypeOK
  <1> QED  BY <1>2, <1>3, <1>4, <1>5

\* A request begins, for one notification or for a list.
LEMMA AskStep ==
    ASSUME IInv, \/ \E n \in DOMAIN Chain : AskOne(n)
                 \/ \E per \in Sizes, page \in Pages, earliest \in BOOLEAN :
                       AskList(per, page, earliest)
    PROVE  IInv'
  <1>1. /\ height \in 0..MaxLedger /\ rows \subseteq Rows /\ MaxLedger \in Nat
    BY LedgerTypes DEF IInv, TypeOK
  <1>2. ASSUME NEW n \in DOMAIN Chain, AskOne(n) PROVE IInv'
    <2> DEFINE note == Note(n, "counting", NoHash, NoHash)
    <2>1. /\ Chain[n].ledger <= height /\ UNCHANGED <<height, rows>>
          /\ call' = [step |-> "searching", one |-> TRUE, per |-> 1, page |-> 0,
                      earliest |-> FALSE, asked |-> height]
          /\ notes' = <<note>>
      BY <1>2 DEF AskOne, Idle
    <2>2. /\ note \in Notes /\ note.tx = n /\ note.step = "counting"
          /\ note.back = <<>> /\ note.onward = <<>>
          /\ note.previous = NoHash /\ note.next = NoHash
      BY NoteTypes
    <2> HIDE DEF note
    <2>3. /\ call'.one /\ call'.asked = height /\ call'.step = "searching"
          /\ call' \in Calls
      BY <1>1, <2>1 DEF Calls
    <2>4. /\ notes' \in Seq(Notes) /\ Len(notes') = 1 /\ DOMAIN notes' = {1}
          /\ notes'[1] = note
      BY <2>1, <2>2
    <2>5. (\A i \in DOMAIN notes : Validated(notes[i]))'
      BY <2>1, <2>2, <2>3, <2>4 DEF Validated
    <2>6. SearchInv'
      BY <2>2, <2>4 DEF SearchInv, Sought, Behind, Ahead
    <2> QED  BY <1>1, <2>1, <2>3, <2>4, <2>5, <2>6 DEF IInv, TypeOK
  <1>3. ASSUME NEW per \in Sizes, NEW page \in Pages, NEW earliest \in BOOLEAN,
               AskList(per, page, earliest)
        PROVE  IInv'
    <2>1. /\ UNCHANGED <<height, rows>> /\ notes' = <<>>
          /\ call' = [step |-> "listing", one |-> FALSE, per |-> per, page |-> page,
                      earliest |-> earliest, asked |-> height]
      BY <1>3 DEF AskList
    <2>2. per \in Nat /\ page \in Nat
      <3>1. Sizes \subseteq Nat /\ Pages \subseteq Nat
        BY NotificationAssumption
      <3> QED  BY <3>1
    <2>3. /\ ~call'.one /\ call'.asked = height
          /\ call' \in Calls
      BY <1>1, <2>1, <2>2 DEF Calls
    <2>4. notes' \in Seq(Notes) /\ DOMAIN notes' = {}
      BY <2>1
    <2>5. (\A i \in DOMAIN notes : Validated(notes[i]))' /\ SearchInv'
      BY <2>4 DEF SearchInv
    <2> QED  BY <1>1, <2>1, <2>3, <2>4, <2>5 DEF IInv, TypeOK
  <1> QED  BY <1>2, <1>3
-----------------------------------------------------------------------------
LEMMA IdleTypes == Idle \in Calls /\ Idle.asked = 0 /\ Idle.step = "idle"
  BY LedgerTypes DEF Idle, Calls

\* A process that begins has no notifications under construction.
LEMMA Begun ==
    ASSUME height \in 0..MaxLedger, rows \subseteq Rows, UNCHANGED <<height, rows>>,
           call' = Idle, notes' = <<>>
    PROVE  IInv'
  <1>1. notes' \in Seq(Notes) /\ DOMAIN notes' = {} /\ Len(notes') = 0
    OBVIOUS
  <1>2. call' \in Calls /\ call'.asked = 0 /\ call'.step = "idle"
    BY IdleTypes
  <1>3. TypeOK'
    BY <1>1, <1>2 DEF TypeOK
  <1>4. call'.asked <= height'
    BY <1>2, LedgerTypes
  <1>5. SearchInv' /\ (\A i \in DOMAIN notes : Validated(notes[i]))'
    BY <1>1 DEF SearchInv
  <1>6. Len(notes') <= 1 /\ call'.step # "listing"
    BY <1>1, <1>2
  <1> QED  BY <1>3, <1>4, <1>5, <1>6 DEF IInv

THEOREM Invariance == Spec => []IInv
  <1>1. Init => IInv
    <2> SUFFICES ASSUME Init PROVE IInv
      OBVIOUS
    <2>1. MaxLedger \in Nat
      BY LedgerTypes
    <2>2. /\ height \in 0..MaxLedger /\ rows = {} /\ notes = <<>> /\ call = Idle
      BY DEF Init
    <2>3. /\ TypeOK /\ call.asked <= height /\ call.step # "listing" /\ Len(notes) = 0
          /\ DOMAIN notes = {}
      BY <2>1, <2>2, IdleTypes DEF TypeOK
    <2> QED  BY <2>3 DEF IInv, SearchInv
  <1>2. IInv /\ [Next]_vars => IInv'
    <2> SUFFICES ASSUME IInv, [Next]_vars PROVE IInv'
      OBVIOUS
    <2>1. /\ height \in 0..MaxLedger /\ rows \subseteq Rows /\ MaxLedger \in Nat
          /\ call \in Calls
      BY LedgerTypes DEF IInv, TypeOK
    <2>2. call = [call EXCEPT !.step = call.step] /\
          call.step \in {"idle", "listing", "searching", "error", "thrown"}
      BY <2>1 DEF Calls
    <2>3. CASE Close \/ (\E row \in Rows : FailLocally(row)) \/ UNCHANGED vars
      <3>1. /\ height' \in height..MaxLedger /\ rows \subseteq rows' /\ rows' \subseteq Rows
            /\ notes' = notes /\ call' = call
        BY <2>1, <2>3 DEF Close, FailLocally, vars
      <3>2. call' = [call EXCEPT !.step = call.step]
        BY <2>2, <3>1
      <3> QED  BY <2>2, <3>1, <3>2, Unnoted
    <2>4. CASE \/ \E n \in DOMAIN Chain : AskOne(n)
               \/ \E per \in Sizes, page \in Pages, earliest \in BOOLEAN :
                     AskList(per, page, earliest)
      BY <2>4, AskStep
    <2>5. CASE List
      BY <2>5, ListStep
    <2>6. ASSUME NEW i \in DOMAIN notes, Search(i) PROVE IInv'
      BY <2>6, CountStep, SeekStep DEF Search
    <2>7. CASE Fail
      <3> DEFINE step == IF call.step = "searching" /\ ~call.one THEN "thrown" ELSE "error"
      <3>1. /\ height' \in height..MaxLedger /\ rows \subseteq rows' /\ rows' \subseteq Rows
            /\ notes' = notes /\ call' = [call EXCEPT !.step = step]
        BY <2>1, <2>7 DEF Fail
      <3>2. step \in {"error", "thrown"}
        OBVIOUS
      <3> HIDE DEF step
      <3> QED  BY <3>1, <3>2, Unnoted
    <2>8. CASE Restart
      <3>1. /\ height' = height /\ rows' = rows /\ notes' = <<>> /\ call' = Idle
        BY <2>8 DEF Restart
      <3> QED  BY <2>1, <3>1, Begun
    <2> QED  BY <2>3, <2>4, <2>5, <2>6, <2>7, <2>8 DEF Next
  <1> QED  BY <1>1, <1>2, PTL DEF Spec

\* The notifications under construction are of their type.
THEOREM TypeCorrect == Spec => []TypeOK
  <1>1. IInv => TypeOK
    BY DEF IInv
  <1> QED  BY <1>1, Invariance, PTL

\* attachPreviousAndNextTransactionIdentifiers: one more than are in the ledger,
\* towards either side, is enough to find the transactions before and after
\* that of a notification, for every history and every limit, whatever ledgers
\* close between the three queries.
THEOREM NeighboursAreFound == Spec => []NeighboursFound
  <1>1. IInv => NeighboursFound
    <2> SUFFICES ASSUME IInv, NEW i \in DOMAIN notes,
                        Searched(i), rows = {}, LedgerFits(notes[i].tx)
                 PROVE  /\ call.one \/ HasPrevious(notes[i]) => RightPrevious(notes[i])
                        /\ call.one \/ HasNext(notes[i]) => RightNext(notes[i])
      BY DEF NeighboursFound
    <2>1. i = Len(notes)
      <3>1. DOMAIN notes = 1..Len(notes) /\ Len(notes) \in Nat /\ i \in Nat
        BY DEF IInv, TypeOK
      <3>2. call.one => Len(notes) <= 1
        BY DEF IInv
      <3> QED  BY <3>1, <3>2 DEF Searched
    <2>2. Sought(notes[i]) /\ notes[i].step = "found"
      BY <2>1 DEF IInv, SearchInv, Searched
    <2> QED  BY <2>2 DEF Sought, Right
  <1> QED  BY <1>1, Invariance, PTL
-----------------------------------------------------------------------------
(* The notifications of a list that are not searched for.                   *)

\* All but the last one of a list are as List made them.
ListInv ==
    ~call.one => \A i \in DOMAIN notes :
                    i < Len(notes) => notes[i].step = "found" /\ Beside(notes[i])

\* They stay as they are when a request goes on without touching them.
LEMMA ListKept ==
    ASSUME ListInv, notes' = notes, call'.one = call.one, call'.earliest = call.earliest
    PROVE  ListInv'
  BY DEF ListInv, Beside, Precedes

\* List gives each the two that are beside it in the dated list.
LEMMA Listed ==
    ASSUME IInv, IInv', ListInv, List
    PROVE  ListInv'
  <1>1. call \in Calls /\ ~call.one /\ height \in 0..MaxLedger /\ rows \subseteq Rows
    BY DEF IInv, TypeOK, List
  <1>2. CASE (Throw \/ call' = [call EXCEPT !.step = "error"]) /\ notes' = notes
    <2>1. call'.one = call.one /\ call'.earliest = call.earliest
      BY <1>1, <1>2 DEF Throw, Calls
    <2> QED  BY <1>2, <2>1, ListKept
  <1>3. ASSUME NEW list \in Paged(call), ToSet(list) \subseteq DOMAIN Chain,
               NEW dated \in ByLedger(list), notes' = Noted(dated, call),
               call' = [call EXCEPT !.step = "searching"]
        PROVE  ListInv'
    <2>1. call'.earliest = call.earliest
      BY <1>1, <1>3 DEF Calls
    <2>2. /\ list \in Seq(DOMAIN Chain)
          /\ \A j, k \in DOMAIN list : j < k => Sooner(list[j], list[k], call.earliest)
      <3> DEFINE S == HistoryAt(height, 0, Infinite)
      <3>1. S \in SUBSET DOMAIN Chain
        BY LedgerTypes
      <3>2. /\ list \in Seq(S)
            /\ \A j, k \in DOMAIN list : j < k => Sooner(list[j], list[k], call.earliest)
        BY <1>1, <1>3, PagedList DEF Calls
      <3> HIDE DEF S
      <3> QED  BY <3>1, <3>2
    <2>3. /\ dated \in Seq(DOMAIN Chain)
          /\ \A i, j \in DOMAIN dated : i < j =>
                \/ Chain[dated[i]].ledger < Chain[dated[j]].ledger
                \/ /\ Chain[dated[i]].ledger = Chain[dated[j]].ledger
                   /\ Sooner(dated[i], dated[j], call.earliest)
      <3>1. /\ dated \in Seq(DOMAIN Chain)
            /\ \A i, j \in DOMAIN dated : i < j =>
                  \/ Chain[dated[i]].ledger < Chain[dated[j]].ledger
                  \/ /\ Chain[dated[i]].ledger = Chain[dated[j]].ledger
                     /\ \E k, l \in DOMAIN list :
                           k < l /\ dated[i] = list[k] /\ dated[j] = list[l]
        BY <1>3, <2>2, DatedList
      <3> QED  BY <2>2, <3>1
    <2>4. /\ Len(dated) \in Nat /\ DOMAIN dated = 1..Len(dated)
          /\ \A i \in DOMAIN dated : dated[i] \in DOMAIN Chain /\ dated[i] # NoHash
      <3>1. \A n \in DOMAIN Chain : n # 0
        BY ChainTypes
      <3> QED  BY <2>3, <3>1 DEF NoHash
    <2>5. DOMAIN notes' = DOMAIN dated /\ Len(notes') = Len(dated)
      <3>1. DOMAIN notes' = DOMAIN dated
        BY <1>3 DEF Noted
      <3>2. notes' \in Seq(Notes)
        BY DEF IInv, TypeOK
      <3> QED  BY <2>4, <3>1, <3>2
    <2>6. ASSUME NEW i \in DOMAIN dated, i < Len(dated)
          PROVE  notes'[i].step = "found" /\ Beside(notes[i])'
      <3> DEFINE before == IF i > 1 THEN dated[i - 1] ELSE NoHash
                 after == dated[i + 1]
                 previous == IF call.earliest THEN after ELSE before
                 next == IF call.earliest THEN before ELSE after
      <3>1. i + 1 \in DOMAIN dated /\ i < i + 1
        BY <2>4, <2>6
      <3>2. i > 1 => i - 1 \in DOMAIN dated /\ i - 1 < i
        BY <2>4
      <3>3. after # NoHash /\ i # Len(dated)
        BY <2>4, <2>6, <3>1
      <3>4. notes'[i] = Note(dated[i], "found", previous, next)
        BY <1>3, <2>6, <3>3 DEF Noted
      <3>5. /\ \/ Chain[dated[i]].ledger < Chain[after].ledger
               \/ /\ Chain[dated[i]].ledger = Chain[after].ledger
                  /\ Sooner(dated[i], after, call.earliest)
            /\ before # NoHash =>
                  \/ Chain[before].ledger < Chain[dated[i]].ledger
                  \/ /\ Chain[before].ledger = Chain[dated[i]].ledger
                     /\ Sooner(before, dated[i], call.earliest)
        BY <2>3, <3>1, <3>2
      <3> HIDE DEF before, after
      <3>6. /\ notes'[i].step = "found" /\ notes'[i].tx = dated[i]
            /\ before = IF call.earliest THEN notes'[i].next ELSE notes'[i].previous
            /\ after = IF call.earliest THEN notes'[i].previous ELSE notes'[i].next
        BY <3>4 DEF Note
      <3> QED  BY <2>1, <3>3, <3>5, <3>6 DEF Beside, Precedes
    <2> QED  BY <2>5, <2>6 DEF ListInv
  <1> QED  BY <1>2, <1>3 DEF List, Throw

\* A search changes the notification that it is for, in a list the last one.
LEMMA SearchedFor ==
    ASSUME IInv, IInv', ListInv, NEW i \in DOMAIN notes, Search(i)
    PROVE  ListInv'
  <1>1. /\ call \in Calls /\ notes \in Seq(Notes) /\ notes' \in Seq(Notes)
        /\ notes[i].step # "found"
    BY DEF IInv, TypeOK, Search, Count, Seek
  <1>2. CASE Throw
    <2>1. call'.one = call.one /\ call'.earliest = call.earliest /\ notes' = notes
      BY <1>1, <1>2 DEF Throw, Calls
    <2> QED  BY <2>1, ListKept
  <1>3. CASE ~Throw
    <2>1. /\ call' = call /\ DOMAIN notes' = DOMAIN notes
          /\ \A j \in DOMAIN notes : j # i => notes'[j] = notes[j]
      BY <1>3 DEF Search, Count, Seek
    <2>2. Len(notes') = Len(notes) /\ Len(notes) \in Nat /\ DOMAIN notes = 1..Len(notes)
      BY <1>1, <2>1
    <2>3. ~call.one => i = Len(notes)
      BY <1>1, <2>2 DEF ListInv
    <2>4. ASSUME ~call.one, NEW j \in DOMAIN notes, j < Len(notes)
          PROVE  notes'[j].step = "found" /\ Beside(notes[j])'
      <3>1. notes'[j] = notes[j] /\ notes[j].step = "found" /\ Beside(notes[j])
        BY <2>1, <2>2, <2>3, <2>4 DEF ListInv
      <3> QED  BY <2>1, <3>1 DEF Beside, Precedes
    <2> QED  BY <2>1, <2>2, <2>4 DEF ListInv
  <1> QED  BY <1>2, <1>3

\* getNotifications: previous and next of a notification within a list are those
\* beside it in the order of attachDate, for every history, size and page, and
\* stay so while the last one is searched for.
THEOREM ListNeighboursKept == Spec => []ListNeighbours
  <1>1. Init => ListInv
    BY DEF Init, ListInv
  <1>2. IInv /\ IInv' /\ ListInv /\ [Next]_vars => ListInv'
    <2> SUFFICES ASSUME IInv, IInv', ListInv, [Next]_vars PROVE ListInv'
      OBVIOUS
    <2>1. call \in Calls
      BY DEF IInv, TypeOK
    <2>2. CASE Close \/ (\E row \in Rows : FailLocally(row)) \/ Fail \/ UNCHANGED vars
      <3>1. notes' = notes /\ call'.one = call.one /\ call'.earliest = call.earliest
        BY <2>1, <2>2 DEF Close, FailLocally, Fail, vars, Calls
      <3> QED  BY <3>1, ListKept
    <2>3. CASE \E n \in DOMAIN Chain : AskOne(n)
      <3>1. call'.one
        BY <2>3 DEF AskOne, Idle
      <3> QED  BY <3>1 DEF ListInv
    <2>4. CASE \/ \E per \in Sizes, page \in Pages, earliest \in BOOLEAN :
                     AskList(per, page, earliest)
               \/ Restart
      <3>1. notes' = <<>>
        BY <2>4 DEF AskList, Restart
      <3> QED  BY <3>1 DEF ListInv
    <2>5. CASE List
      BY <2>5, Listed
    <2>6. ASSUME NEW i \in DOMAIN notes, Search(i) PROVE ListInv'
      BY <2>6, SearchedFor
    <2> QED  BY <2>2, <2>3, <2>4, <2>5, <2>6 DEF Next
  <1>3. ListInv => ListNeighbours
    BY DEF ListInv, ListNeighbours
  <1> QED  BY <1>1, <1>2, <1>3, Invariance, PTL DEF Spec
=============================================================================
