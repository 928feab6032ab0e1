------------------------ MODULE AccountHistoryProofs ------------------------
(***************************************************************************)
(* The pager of AccountHistory gives the page of the account's history.    *)
(*                                                                         *)
(* The invariant relates what the request keeps, previous_transactions and *)
(* the offset, to the list of all that account_tx has given it.  That list *)
(* is no part of the state: in each round it is what the history at one    *)
(* moment has before the marker, so that the next answer continues it.     *)
(***************************************************************************)
EXTENDS AccountHistory, FiniteSetTheorems, SequenceTheorems, TLAPS

\* The transactions the page is taken from, and those of them that account_tx
\* has given: all, without a marker.
Found(top, c) == {n \in History(top, c) : Passes(n, c.exclude)}

Before(n, c) == IF c.earliest THEN n < c.marker ELSE n > c.marker

Given(top, c) == {n \in Found(top, c) : c.marker = None \/ Before(n, c)}

\* The transactions before the marker of an ascending request, and those from
\* it on of a descending one, were in validated ledgers: the ledgers that close
\* later change neither.
Settled(top, c) ==
    c.marker # None =>
       \A n \in DOMAIN Chain :
          (IF c.earliest THEN n < c.marker ELSE n <= c.marker) => Chain[n].ledger <= top

Ordered(list, earliest) ==
    \A i, j \in DOMAIN list : i < j => Sooner(list[i], list[j], earliest)

\* What the pager keeps of the list f of all that it was given: nothing, and
\* what remains to be skipped; or the page of it.
Kept(f, c) ==
    IF c.offset > 0 THEN c.list = <<>> /\ c.offset = c.first - Len(f)
    ELSE /\ Len(f) >= c.first
         /\ Len(c.list) = IF Len(f) - c.first < c.per THEN Len(f) - c.first ELSE c.per
         /\ \A i \in 1..Len(c.list) : c.list[i] = f[c.first + i]

Tops == call.asked..height
Lists == Seq(DOMAIN Chain)

\* Before an answer of the remote; after it, when f and the answer are what was
\* given; and when the last round is over.
Asking ==
    IF call.marker = None THEN call.list = <<>> /\ call.offset = call.first
    ELSE \E top \in Tops, f \in Lists :
            /\ Ordered(f, call.earliest) /\ ToSet(f) = Given(top, call)
            /\ Settled(top, call) /\ Kept(f, call)

Answered ==
    \E top \in Tops, f \in Lists :
       LET batch == {n \in call.remote[1] : Passes(n, call.exclude)} IN
       /\ Ordered(f, call.earliest)
       /\ ToSet(f) \cup batch = Given(top, call)
       /\ \A m \in ToSet(f), n \in batch : Sooner(m, n, call.earliest)
       /\ Settled(top, call) /\ Kept(f, call)

Finished ==
    /\ call.marker = None \/ Len(call.list) >= call.per
    /\ \E top \in Tops, f \in Lists :
          /\ Ordered(f, call.earliest) /\ ToSet(f) = Given(top, call)
          /\ Kept(f, call)

PagerInv ==
    /\ call.step \in {"querying", "again"} =>
          IF call.remote = <<>> THEN Asking ELSE Answered
    /\ call.step = "again" => call.remote = <<>> /\ call.marker # None
    /\ call.step = "dating" => Finished

IInv ==
    /\ TypeOK /\ call.asked <= height
    /\ NothingKeptBeforeOffset
    /\ PagerInv
    /\ AnswerIsPage
-----------------------------------------------------------------------------
(* Transactions and lists of them.                                          *)

LEMMA ChainTypes ==
    /\ Len(Chain) \in Nat
    /\ DOMAIN Chain = 1..Len(Chain)
    /\ \A n \in DOMAIN Chain : n \in Nat /\ n >= 1 /\ n <= Len(Chain)
    /\ \A n \in DOMAIN Chain : Chain[n].ledger \in Nat
    /\ \A m, n \in DOMAIN Chain : m <= n => Chain[m].ledger <= Chain[n].ledger
    /\ \A S \in SUBSET DOMAIN Chain : IsFiniteSet(S) /\ Cardinality(S) \in Nat
  <1>1. Chain \in Seq([ledger : 1..MaxLedger, kind : Kinds]) /\ MaxLedger \in Nat
    BY ChainAssumption
  <1>2. Len(Chain) \in Nat /\ DOMAIN Chain = 1..Len(Chain)
    BY <1>1
  <1>3. \A n \in DOMAIN Chain : Chain[n].ledger \in Nat
    <2>1. \A n \in DOMAIN Chain : Chain[n] \in [ledger : 1..MaxLedger, kind : Kinds]
      BY <1>1, <1>2, ElementOfSeq
    <2>2. \A n \in DOMAIN Chain : Chain[n].ledger \in 1..MaxLedger
      BY <2>1
    <2> QED  BY <1>1, <2>2
  <1>4. \A m, n \in DOMAIN Chain : m <= n => Chain[m].ledger <= Chain[n].ledger
    BY <1>2, <1>3, ChainAssumption
  <1>5. IsFiniteSet(DOMAIN Chain)
    BY <1>2, FS_Interval
  <1>6. \A S \in SUBSET DOMAIN Chain : IsFiniteSet(S) /\ Cardinality(S) \in Nat
    BY <1>5, FS_Subset, FS_CardinalityType
  <1> QED  BY <1>2, <1>3, <1>4, <1>6

LEMMA SoonerOrder ==
    ASSUME NEW e \in BOOLEAN
    PROVE  /\ \A m, n \in DOMAIN Chain : m = n \/ Sooner(m, n, e) \/ Sooner(n, m, e)
           /\ \A m, n \in DOMAIN Chain : Sooner(m, n, e) => ~Sooner(n, m, e) /\ m # n
           /\ \A m, n, o \in DOMAIN Chain :
                 Sooner(m, n, e) /\ Sooner(n, o, e) => Sooner(m, o, e)
  <1>1. \A n \in DOMAIN Chain : n \in Nat
    BY ChainTypes
  <1>2. CASE e
    BY <1>1, <1>2 DEF Sooner
  <1>3. CASE ~e
    BY <1>1, <1>3 DEF Sooner
  <1> QED  BY <1>2, <1>3

\* The places in a set are numbers, the sooner the less.
LEMMA PlaceOrder ==
    ASSUME NEW S \in SUBSET DOMAIN Chain, NEW e \in BOOLEAN
    PROVE  /\ \A n \in S : Place(n, S, e) \in 1..Cardinality(S)
           /\ \A m, n \in S : Sooner(m, n, e) => Place(m, S, e) < Place(n, S, e)
           /\ \A m, n \in S : Place(m, S, e) = Place(n, S, e) => m = n
  <1> DEFINE Upto(n) == {m \in S : m = n \/ Sooner(m, n, e)}
  <1>1. IsFiniteSet(S) /\ Cardinality(S) \in Nat
    BY ChainTypes
  <1>2. \A n \in S : /\ IsFiniteSet(Upto(n)) /\ Cardinality(Upto(n)) \in Nat
                     /\ Cardinality(Upto(n)) <= Cardinality(S)
    <2> TAKE n \in S
    <2>1. Upto(n) \in SUBSET S
      OBVIOUS
    <2> HIDE DEF Upto
    <2> QED  BY <1>1, <2>1, FS_Subset, FS_CardinalityType
  <1>3. ASSUME NEW n \in S PROVE Cardinality(Upto(n)) # 0
    <2>1. n \in Upto(n)
      OBVIOUS
    <2> HIDE DEF Upto
    <2> QED  BY <1>2, <2>1, FS_EmptySet
  <1>4. ASSUME NEW m \in S, NEW n \in S, Sooner(m, n, e)
        PROVE  Cardinality(Upto(m)) < Cardinality(Upto(n))
    <2>1. Upto(m) \in SUBSET Upto(n) /\ n \in Upto(n) /\ n \notin Upto(m)
      BY <1>4, SoonerOrder
    <2> HIDE DEF Upto
    <2> QED  BY <1>2, <2>1, FS_Subset
  <1>5. ASSUME NEW m \in S, NEW n \in S, Cardinality(Upto(m)) = Cardinality(Upto(n))
        PROVE  m = n
    <2>1. m = n \/ Sooner(m, n, e) \/ Sooner(n, m, e)
      BY SoonerOrder
    <2> HIDE DEF Upto
    <2> QED  BY <1>2, <1>4, <1>5, <2>1
  <1>6. \A n \in S : Place(n, S, e) = Cardinality(Upto(n))
    BY DEF Place
  <1> HIDE DEF Upto
  <1>7. \A n \in S : Place(n, S, e) \in 1..Cardinality(S)
    BY <1>1, <1>2, <1>3, <1>6
  <1> QED  BY <1>4, <1>5, <1>6, <1>7

\* InOrder gives the list of a set.
LEMMA InOrderList ==
    ASSUME NEW S \in SUBSET DOMAIN Chain, NEW e \in BOOLEAN
    PROVE  /\ InOrder(S, e) \in Seq(DOMAIN Chain)
           /\ ToSet(InOrder(S, e)) = S
           /\ Ordered(InOrder(S, e), e)
  <1> DEFINE size == Cardinality(S)
             f == [n \in S |-> Place(n, S, e)]
             list == InOrder(S, e)
  <1>1. IsFiniteSet(S) /\ size \in Nat
    BY ChainTypes
  <1>2. /\ \A n \in S : Place(n, S, e) \in 1..size
        /\ \A m, n \in S : Sooner(m, n, e) => Place(m, S, e) < Place(n, S, e)
        /\ \A m, n \in S : Place(m, S, e) = Place(n, S, e) => m = n
    BY PlaceOrder
  <1> HIDE DEF size
  <1>3. f \in Surjection(S, 1..size)
    <2>1. f \in Injection(S, 1..size)
      BY <1>2 DEF Injection, IsInjective
    <2>2. IsFiniteSet(1..size) /\ Cardinality(1..size) = size
      BY <1>1, FS_Interval
    <2>3. Cardinality(S) = Cardinality(1..size)
      BY <2>2 DEF size
    <2> HIDE DEF f
    <2> QED  BY <2>1, <2>2, <2>3, FS_Injection
  <1>4. \A k \in 1..size : \E n \in S : Place(n, S, e) = k
    BY <1>3 DEF Surjection
  <1>5. list = [k \in 1..size |-> CHOOSE n \in S : Place(n, S, e) = k]
    BY DEF InOrder, size
  <1>6. \A k \in 1..size : list[k] \in S /\ Place(list[k], S, e) = k
    BY <1>4, <1>5
  <1>7. DOMAIN list = 1..size /\ list \in Seq(DOMAIN Chain)
    <2>1. \A k \in 1..size : list[k] \in DOMAIN Chain
      BY <1>6
    <2>2. list = [k \in 1..size |-> list[k]] /\ DOMAIN list = 1..size
      BY <1>5
    <2> HIDE DEF list
    <2>3. list \in [1..size -> DOMAIN Chain]
      BY <2>1, <2>2
    <2> QED  BY <1>1, <2>2, <2>3
  <1> HIDE DEF list
  <1>8. ToSet(list) = S
    <2>1. \A n \in S : Place(n, S, e) \in 1..size /\ n = list[Place(n, S, e)]
      BY <1>2, <1>6
    <2> QED  BY <1>6, <1>7, <2>1 DEF ToSet
  <1>9. Ordered(list, e)
    <2> SUFFICES ASSUME NEW i \in 1..size, NEW j \in 1..size, i < j
                 PROVE  Sooner(list[i], list[j], e)
      BY <1>7 DEF Ordered
    <2>1. /\ list[i] \in S /\ list[j] \in S
          /\ Place(list[i], S, e) = i /\ Place(list[j], S, e) = j
      BY <1>6
    <2>2. list[i] # list[j] /\ ~Sooner(list[j], list[i], e)
      BY <1>1, <1>2, <2>1
    <2> QED  BY <2>1, <2>2, SoonerOrder
  <1> QED  BY <1>7, <1>8, <1>9 DEF list

\* In a set of which f lists the first ones, the place of each of them is that
\* in the list, and the others come after.
LEMMA ListedPlace ==
    ASSUME NEW e \in BOOLEAN, NEW S \in SUBSET DOMAIN Chain, NEW f \in Lists,
           Ordered(f, e), ToSet(f) \subseteq S,
           \A m \in ToSet(f), n \in S \ ToSet(f) : Sooner(m, n, e)
    PROVE  /\ \A i \in DOMAIN f : Place(f[i], S, e) = i
           /\ \A n \in S \ ToSet(f) : Place(n, S, e) > Len(f)
  <1>1. /\ Len(f) \in Nat /\ DOMAIN f = 1..Len(f)
        /\ \A i \in DOMAIN f : f[i] \in DOMAIN Chain /\ f[i] \in S /\ f[i] \in ToSet(f)
    BY DEF Lists, ToSet
  <1>2. ASSUME NEW i \in 0..Len(f)
        PROVE  Cardinality({f[j] : j \in 1..i}) = i
    <2> DEFINE T == {f[j] : j \in 1..i}
               g == [j \in 1..i |-> f[j]]
    <2>1. \A j, k \in 1..i : f[j] = f[k] => j = k
      <3> TAKE j, k \in 1..i
      <3>1. j \in DOMAIN f /\ k \in DOMAIN f /\ j \in Nat /\ k \in Nat
        BY <1>1
      <3>2. j < k => f[j] # f[k]
        BY <1>1, <3>1, SoonerOrder DEF Ordered
      <3>3. k < j => f[j] # f[k]
        BY <1>1, <3>1, SoonerOrder DEF Ordered
      <3> QED  BY <3>1, <3>2, <3>3
    <2>2. g \in Bijection(1..i, T)
      BY <2>1 DEF Bijection, Injection, Surjection, IsInjective
    <2> HIDE DEF T, g
    <2>3. ExistsBijection(1..i, T) /\ i \in Nat
      BY <1>1, <2>2 DEF ExistsBijection
    <2>4. Cardinality(T) = i
      BY <2>3, FS_CountingElements
    <2> QED  BY <2>4 DEF T
  <1>3. ASSUME NEW i \in DOMAIN f PROVE Place(f[i], S, e) = i
    <2>1. {m \in S : m = f[i] \/ Sooner(m, f[i], e)} = {f[j] : j \in 1..i}
      <3>1. ASSUME NEW m \in S, m = f[i] \/ Sooner(m, f[i], e)
            PROVE  \E j \in 1..i : m = f[j]
        <4>1. m \in ToSet(f)
          BY <1>1, <3>1, SoonerOrder
        <4>2. PICK j \in DOMAIN f : m = f[j]
          BY <4>1 DEF ToSet
        <4>3. ~(i < j)
          BY <1>1, <3>1, <4>2, SoonerOrder DEF Ordered
        <4> QED  BY <1>1, <4>2, <4>3
      <3>2. ASSUME NEW j \in 1..i
            PROVE  f[j] \in S /\ (f[j] = f[i] \/ Sooner(f[j], f[i], e))
        <4>1. j \in DOMAIN f /\ (j < i \/ j = i)
          BY <1>1
        <4> QED  BY <1>1, <4>1 DEF Ordered
      <3> QED  BY <3>1, <3>2
    <2> QED  BY <1>1, <1>2, <2>1 DEF Place
  <1>4. ASSUME NEW n \in S \ ToSet(f) PROVE Place(n, S, e) > Len(f)
    <2> DEFINE T == {f[j] : j \in 1..Len(f)}
               U == {m \in S : m = n \/ Sooner(m, n, e)}
    <2>1. T = ToSet(f)
      BY <1>1 DEF ToSet
    <2>2. Cardinality(T) = Len(f)
      BY <1>1, <1>2
    <2>3. T \in SUBSET U /\ n \in U /\ n \notin T
      BY <1>1, <2>1
    <2>4. IsFiniteSet(U) /\ Cardinality(U) \in Nat
      <3>1. U \in SUBSET DOMAIN Chain
        OBVIOUS
      <3> HIDE DEF U
      <3> QED  BY <3>1, ChainTypes
    <2> HIDE DEF T, U
    <2>5. Cardinality(T) <= Cardinality(U) /\ Cardinality(T) # Cardinality(U)
      BY <2>3, <2>4, FS_Subset
    <2>6. Place(n, S, e) = Cardinality(U)
      BY DEF Place, U
    <2> QED  BY <1>1, <2>2, <2>4, <2>5, <2>6
  <1> QED  BY <1>3, <1>4

LEMMA FirstsInitial ==
    ASSUME NEW S \in SUBSET DOMAIN Chain, NEW e \in BOOLEAN, NEW size \in Nat,
           NEW n \in Firsts(S, size, e), NEW m \in S, Sooner(m, n, e)
    PROVE  m \in Firsts(S, size, e)
  <1>1. n \in S /\ Place(n, S, e) <= size
    BY DEF Firsts
  <1>2. /\ Place(n, S, e) \in 1..Cardinality(S) /\ Place(m, S, e) \in 1..Cardinality(S)
        /\ Place(m, S, e) < Place(n, S, e) /\ Cardinality(S) \in Nat
    BY <1>1, PlaceOrder, ChainTypes
  <1>3. Place(m, S, e) <= size
    BY <1>1, <1>2
  <1> QED  BY <1>3 DEF Firsts

LEMMA LastExists ==
    ASSUME NEW S \in SUBSET DOMAIN Chain, NEW e \in BOOLEAN, S # {}
    PROVE  /\ LastOf(S, e) \in S
           /\ \A m \in S : m = LastOf(S, e) \/ Sooner(m, LastOf(S, e), e)
  <1>1. PICK list \in Seq(DOMAIN Chain) : ToSet(list) = S /\ Ordered(list, e)
    BY InOrderList
  <1>2. Len(list) \in Nat /\ DOMAIN list = 1..Len(list) /\ Len(list) # 0
    BY <1>1 DEF ToSet
  <1>3. list[Len(list)] \in S
    BY <1>1, <1>2 DEF ToSet
  <1>4. \A m \in S : m = list[Len(list)] \/ Sooner(m, list[Len(list)], e)
    <2> TAKE m \in S
    <2>1. PICK i \in DOMAIN list : m = list[i]
      BY <1>1 DEF ToSet
    <2>2. i = Len(list) \/ i < Len(list)
      BY <1>2
    <2>3. i \in DOMAIN list /\ Len(list) \in DOMAIN list
      BY <1>2, <2>1
    <2> QED  BY <1>1, <2>1, <2>2, <2>3 DEF Ordered
  <1> QED  BY <1>3, <1>4 DEF LastOf

\* What counts of a request when its next answer or page is reckoned.
LEMMA SameRequest ==
    ASSUME NEW c, NEW d,
           d.start = c.start, d.end = c.end, d.exclude = c.exclude,
           d.earliest = c.earliest
    PROVE  /\ \A top : Found(top, d) = Found(top, c)
           /\ d.marker = c.marker => /\ \A top : Given(top, d) = Given(top, c)
                                     /\ \A top : Settled(top, d) <=> Settled(top, c)
           /\ d.first = c.first /\ d.per = c.per =>
                 /\ \A top : PageOf(top, d) = PageOf(top, c)
                 /\ d.offset = c.offset /\ d.list = c.list =>
                       \A f : Kept(f, d) <=> Kept(f, c)
  <1>1. \A top : History(top, d) = History(top, c)
    BY DEF History
  <1>2. \A top : Found(top, d) = Found(top, c)
    BY <1>1 DEF Found
  <1>3. ASSUME d.marker = c.marker PROVE \A top : Given(top, d) = Given(top, c)
    <2>1. \A n : Before(n, d) <=> Before(n, c)
      BY <1>3 DEF Before
    <2> QED  BY <1>2, <1>3, <2>1 DEF Given
  <1>4. d.marker = c.marker => \A top : Settled(top, d) <=> Settled(top, c)
    BY DEF Settled
  <1>5. d.first = c.first /\ d.per = c.per =>
           \A top : PageOf(top, d) = PageOf(top, c)
    BY <1>1 DEF PageOf
  <1>6. d.first = c.first /\ d.per = c.per /\ d.offset = c.offset /\ d.list = c.list =>
           \A f : Kept(f, d) <=> Kept(f, c)
    BY DEF Kept
  <1> QED  BY <1>2, <1>3, <1>4, <1>5, <1>6
-----------------------------------------------------------------------------
(* Types.                                                                   *)

LEMMA CallTypes ==
    ASSUME NEW c \in Calls
    PROVE  /\ c.step \in Steps /\ c.asked \in Nat /\ c.asked <= MaxLedger
           /\ c.per \in Nat /\ c.per >= 1
           /\ c.earliest \in BOOLEAN /\ c.exclude \in BOOLEAN
           /\ c.first \in Nat /\ c.offset \in Int
           /\ c.marker \in Int
           /\ c.remote = <<>> \/ c.remote[1] \in SUBSET DOMAIN Chain
           /\ c.list \in Lists
  <1>1. MaxLedger \in Nat
    BY ChainAssumption
  <1>2. c.asked \in 0..MaxLedger
    BY DEF Calls
  <1>3. c.per \in Sizes
    BY DEF Calls
  <1>4. c.per \in Nat /\ c.per >= 1
    <2>1. Sizes \subseteq Nat \ {0}
      BY HistoryAssumption
    <2>2. c.per \in Nat \ {0}
      BY <1>3, <2>1
    <2> QED  BY <2>2
  <1>5. c.marker \in Markers
    BY DEF Calls
  <1>6. c.marker \in Int
    <2>1. Len(Chain) + 1 \in Int /\ None \in Int
      BY ChainTypes DEF None
    <2> QED  BY <1>5, <2>1 DEF Markers
  <1>7. c.remote \in {<<>>} \cup {<<got>> : got \in SUBSET DOMAIN Chain}
    BY DEF Calls
  <1>8. c.remote = <<>> \/ c.remote[1] \in SUBSET DOMAIN Chain
    BY <1>7
  <1>9. /\ c.step \in Steps /\ c.earliest \in BOOLEAN /\ c.exclude \in BOOLEAN
        /\ c.first \in Nat /\ c.offset \in Int /\ c.list \in Lists
    BY DEF Calls, Lists
  <1> QED  BY <1>1, <1>2, <1>4, <1>6, <1>8, <1>9
-----------------------------------------------------------------------------
(* A round: what is kept of all that was given, and the page of it.         *)

LEMMA Merging ==
    ASSUME NEW c \in Calls, NEW f \in Lists, NEW b \in Lists, Kept(f, c)
    PROVE  LET d == Merged(c, b) IN
           /\ d = [c EXCEPT !.list = d.list, !.offset = d.offset]
           /\ d.list \in Lists /\ d.offset \in Int
           /\ Kept(f \o b, d)
           /\ d.offset > 0 => d.list = <<>>
           /\ Len(d.list) <= d.per
  <1> DEFINE all == c.list \o b
             rest == IF c.offset > 0 THEN SubSeq(all, c.offset + 1, Len(all)) ELSE all
             list == Shorter(rest, c.per)
             offset == IF c.offset > 0 THEN c.offset - Len(all) ELSE c.offset
             d == Merged(c, b)
             g == f \o b
  <1>1. d = [c EXCEPT !.list = list, !.offset = offset]
    BY DEF Merged
  <1>2. /\ DOMAIN c = {"step", "asked", "per", "earliest", "exclude", "start", "end",
                       "first", "offset", "marker", "remote", "local", "list"}
        /\ c = [c EXCEPT !.list = c.list]
    BY DEF Calls
  <1>3. /\ d.list = list /\ d.offset = offset /\ d.per = c.per /\ d.first = c.first
        /\ d = [c EXCEPT !.list = d.list, !.offset = d.offset]
    BY <1>1, <1>2
  <1>4. /\ c.per \in Nat /\ c.per >= 1 /\ c.first \in Nat /\ c.offset \in Int
        /\ c.list \in Lists
    BY CallTypes
  <1>5. /\ Len(f) \in Nat /\ Len(b) \in Nat /\ Len(c.list) \in Nat
        /\ Len(g) = Len(f) + Len(b) /\ g \in Lists
        /\ \A i \in 1..Len(f) : g[i] = f[i]
        /\ \A i \in 1..Len(b) : g[Len(f) + i] = b[i]
    BY <1>4 DEF Lists
  <1>6. /\ all \in Lists /\ Len(all) = Len(c.list) + Len(b)
        /\ \A i \in 1..Len(c.list) : all[i] = c.list[i]
        /\ \A i \in 1..Len(b) : all[Len(c.list) + i] = b[i]
    BY <1>4 DEF Lists
  <1> HIDE DEF all, g
  \* The rest is the list from the first one to give on.
  <1>7. /\ rest \in Lists /\ Len(rest) \in Nat
        /\ offset > 0 => rest = <<>> /\ offset = c.first - Len(g)
        /\ offset <= 0 =>
              /\ Len(g) >= c.first
              /\ Len(rest) = Len(g) - c.first \/ (Len(rest) >= c.per /\ Len(g) - c.first >= c.per)
              /\ \A i \in 1..Len(rest) : i <= c.per => rest[i] = g[c.first + i]
    <2>1. CASE c.offset > 0
      <3>1. c.list = <<>> /\ c.offset = c.first - Len(f)
        BY <2>1 DEF Kept
      <3>2. Len(c.list) = 0 /\ Len(all) = Len(b)
        BY <1>5, <1>6, <3>1
      <3>3. rest = SubSeq(all, c.offset + 1, Len(all)) /\ offset = c.offset - Len(all)
        BY <2>1
      <3>4. /\ rest \in Lists
            /\ Len(rest) = IF c.offset + 1 <= Len(all) THEN Len(all) - c.offset ELSE 0
            /\ \A i \in 1..Len(rest) : rest[i] = all[c.offset + i]
        <4>1. all \in Seq(DOMAIN Chain) /\ c.offset + 1 \in Int /\ c.offset + 1 >= 1
              /\ Len(all) \in Int
          BY <1>4, <1>5, <1>6, <2>1 DEF Lists
        <4> HIDE DEF rest
        <4>2. rest \in Lists
          BY <1>5, <3>2, <3>3, <4>1, SubSeqProperties DEF Lists
        <4>3. Len(rest) = IF c.offset + 1 <= Len(all) THEN Len(all) - c.offset ELSE 0
          BY <1>4, <1>5, <3>2, <3>3, <4>1, SubSeqProperties
        <4>4. \A i \in 1..Len(rest) : rest[i] = all[c.offset + i]
          <5>1. \A i \in 1..Len(all) - (c.offset + 1) + 1 : rest[i] = all[c.offset + 1 + i - 1]
            BY <1>5, <3>2, <3>3, <4>1, SubSeqProperties
          <5>2. \A i \in 1..Len(rest) : /\ i \in 1..Len(all) - (c.offset + 1) + 1
                                       /\ c.offset + 1 + i - 1 = c.offset + i
            BY <1>4, <4>1, <4>3
          <5> QED  BY <5>1, <5>2
        <4> QED  BY <4>2, <4>3, <4>4
      <3> HIDE DEF rest, offset
      <3>5. offset = c.offset - Len(all)
        BY <3>3
      <3>6. c.offset = c.first - Len(f) /\ Len(g) = Len(f) + Len(b) /\ Len(all) = Len(b)
        BY <1>5, <3>1, <3>2
      <3>7. Len(f) \in Nat /\ Len(b) \in Nat /\ c.first \in Nat /\ c.offset \in Int
        BY <1>4, <1>5
      <3>8. Len(rest) = IF c.offset + 1 <= Len(all) THEN Len(all) - c.offset ELSE 0
        BY <3>4
      <3>9. offset = c.first - Len(g)
        BY <3>5, <3>6, <3>7
      <3>10. offset > 0 => rest = <<>>
        <4>1. offset > 0 => Len(rest) = 0
          BY <3>5, <3>6, <3>7, <3>8
        <4> QED  BY <3>4, <4>1, EmptySeq DEF Lists
      <3>11. offset <= 0 => Len(g) >= c.first /\ Len(rest) = Len(g) - c.first
        BY <3>5, <3>6, <3>7, <3>8
      <3>12. ASSUME offset <= 0, NEW i \in 1..Len(rest) PROVE rest[i] = g[c.first + i]
        <4>1. Len(rest) = Len(b) - c.offset /\ c.first = Len(f) + c.offset
          BY <3>12, <3>5, <3>6, <3>7, <3>8
        <4>2. c.offset + i \in 1..Len(b) /\ c.first + i = Len(f) + (c.offset + i)
          BY <1>4, <1>5, <2>1, <3>12, <4>1
        <4>3. rest[i] = b[c.offset + i]
          <5>1. rest[i] = all[c.offset + i]
            BY <3>4
          <5>2. Len(c.list) + (c.offset + i) = c.offset + i
            BY <3>2, <3>7
          <5>3. all[Len(c.list) + (c.offset + i)] = b[c.offset + i]
            BY <1>6, <4>2
          <5> QED  BY <5>1, <5>2, <5>3
        <4> QED  BY <1>5, <4>2, <4>3
      <3>13. Len(rest) \in Nat
        BY <3>4 DEF Lists
      <3> QED  BY <3>4, <3>9, <3>10, <3>11, <3>12, <3>13
    <2>2. CASE ~(c.offset > 0)
      <3>1. /\ Len(f) >= c.first
            /\ Len(c.list) = IF Len(f) - c.first < c.per THEN Len(f) - c.first ELSE c.per
            /\ \A i \in 1..Len(c.list) : c.list[i] = f[c.first + i]
        BY <2>2 DEF Kept
      <3>2. rest = all /\ offset = c.offset
        BY <2>2
      <3> HIDE DEF rest, offset
      <3>3. Len(rest) = Len(g) - c.first \/ (Len(rest) >= c.per /\ Len(g) - c.first >= c.per)
        BY <1>4, <1>5, <1>6, <3>1, <3>2
      <3>4. ASSUME NEW i \in 1..Len(rest), i <= c.per PROVE rest[i] = g[c.first + i]
        <4>1. CASE i <= Len(c.list)
          <5>1. i \in 1..Len(c.list) /\ c.first + i \in 1..Len(f)
            BY <1>4, <1>5, <3>1, <4>1
          <5> QED  BY <1>5, <1>6, <3>1, <3>2, <5>1
        <4>2. CASE i > Len(c.list)
          <5>1. Len(c.list) = Len(f) - c.first
            BY <1>4, <1>5, <3>1, <3>4, <4>2
          <5>2. PICK j \in 1..Len(b) : i = Len(c.list) + j
            <6>1. i - Len(c.list) \in 1..Len(b) /\ i = Len(c.list) + (i - Len(c.list))
              BY <1>5, <1>6, <3>2, <4>2
            <6> QED  BY <6>1
          <5>3. c.first + i = Len(f) + j
            BY <1>4, <1>5, <5>1, <5>2
          <5> QED  BY <1>5, <1>6, <3>2, <5>2, <5>3
        <4> QED  BY <1>5, <4>1, <4>2
      <3>5. Len(rest) \in Nat
        BY <1>5, <1>6, <3>2
      <3> QED  BY <1>4, <1>5, <1>6, <2>2, <3>1, <3>2, <3>3, <3>4, <3>5
    <2> QED  BY <2>1, <2>2
  <1>8. offset \in Int
    BY <1>4, <1>5, <1>6
  <1> HIDE DEF rest, offset
  <1>9. /\ list \in Lists
        /\ Len(list) = IF Len(rest) < c.per THEN Len(rest) ELSE c.per
        /\ \A i \in 1..Len(list) : list[i] = rest[i]
    <2> DEFINE n == IF Len(rest) < c.per THEN Len(rest) ELSE c.per
    <2>1. list = SubSeq(rest, 1, n)
      BY DEF Shorter
    <2>2. n \in Nat /\ n <= Len(rest)
      BY <1>4, <1>7
    <2> HIDE DEF n, list
    <2>3. rest \in Seq(DOMAIN Chain)
      BY <1>7 DEF Lists
    <2>4. list \in Seq(DOMAIN Chain) /\ Len(list) = n /\ \A i \in 1..n : list[i] = rest[i]
      BY <2>1, <2>2, <2>3
    <2> QED  BY <2>4 DEF n, Lists
  <1> HIDE DEF list
  <1>10. Kept(g, d)
    <2>1. CASE offset > 0
      <3>1. rest = <<>> /\ offset = c.first - Len(g) /\ Len(rest) = 0
        BY <1>7, <2>1
      <3>2. Len(list) = 0
        BY <1>4, <1>9, <3>1
      <3>3. list = <<>>
        BY <1>9, <3>2, EmptySeq DEF Lists
      <3> QED  BY <1>3, <2>1, <3>1, <3>3 DEF Kept
    <2>2. CASE offset <= 0
      <3>1. Len(list) = IF Len(g) - c.first < c.per THEN Len(g) - c.first ELSE c.per
        BY <1>4, <1>5, <1>7, <1>9, <2>2
      <3>2. \A i \in 1..Len(list) : list[i] = g[c.first + i]
        <4> TAKE i \in 1..Len(list)
        <4>1. i \in 1..Len(rest) /\ i <= c.per
          BY <1>4, <1>7, <1>9
        <4> QED  BY <1>7, <1>9, <2>2, <4>1
      <3>3. ~(offset > 0) /\ Len(g) >= c.first
        BY <1>7, <1>8, <2>2
      <3> QED  BY <1>3, <3>1, <3>2, <3>3 DEF Kept
    <2> QED  BY <1>8, <2>1, <2>2
  <1>11. offset > 0 => list = <<>>
    BY <1>3, <1>10 DEF Kept
  <1>12. Len(list) <= c.per
    BY <1>4, <1>7, <1>9
  <1> HIDE DEF d
  <1> QED  BY <1>3, <1>8, <1>9, <1>10, <1>11, <1>12 DEF d, g

\* When all was given, or enough, the page of the list is the page.
LEMMA PageKept ==
    ASSUME NEW c \in Calls, NEW top, NEW f \in Lists,
           Ordered(f, c.earliest), ToSet(f) = Given(top, c), Kept(f, c),
           c.marker = None \/ Len(c.list) >= c.per
    PROVE  ToSet(c.list) = PageOf(top, c) /\ Ordered(c.list, c.earliest)
  <1> DEFINE S == Found(top, c)
             e == c.earliest
  <1>1. /\ c.per \in Nat /\ c.per >= 1 /\ c.first \in Nat /\ c.offset \in Int
        /\ c.list \in Lists /\ c.marker \in Int /\ c.earliest \in BOOLEAN
    BY CallTypes
  <1>2. /\ Len(f) \in Nat /\ DOMAIN f = 1..Len(f)
        /\ Len(c.list) \in Nat /\ DOMAIN c.list = 1..Len(c.list)
    BY <1>1 DEF Lists
  <1>3. S \in SUBSET DOMAIN Chain /\ ToSet(f) \subseteq S
    BY DEF Found, History, HistoryAt, Given
  <1>4. \A n \in DOMAIN Chain : n \in Nat
    BY ChainTypes
  <1>5. \A m \in ToSet(f), n \in S \ ToSet(f) : Sooner(m, n, e)
    <2> TAKE m \in ToSet(f), n \in S \ ToSet(f)
    <2>1. c.marker # None /\ Before(m, c) /\ ~Before(n, c)
      BY DEF Given
    <2>2. m \in Nat /\ n \in Nat
      BY <1>3, <1>4
    <2> QED  BY <1>1, <2>1, <2>2 DEF Before, Sooner
  <1>6. /\ \A i \in DOMAIN f : Place(f[i], S, e) = i
        /\ \A n \in S \ ToSet(f) : Place(n, S, e) > Len(f)
    <2> HIDE DEF S
    <2> QED  BY <1>1, <1>3, <1>5, ListedPlace
  <1>7. \A n \in S : Place(n, S, e) \in Nat
    <2>1. \A n \in S : Place(n, S, e) \in 1..Cardinality(S)
      BY <1>1, <1>3, PlaceOrder
    <2> QED  BY <2>1
  <1>8. c.marker = None => S \ ToSet(f) = {}
    BY DEF Given
  <1>9. PageOf(top, c) = {n \in S : Place(n, S, e) \in c.first + 1..c.first + c.per}
    BY DEF PageOf, Found
  <1> HIDE DEF S
  <1>10. CASE c.offset > 0
    <2>1. c.list = <<>> /\ c.offset = c.first - Len(f)
      BY <1>10 DEF Kept
    <2>2. Len(f) < c.first /\ c.marker = None
      BY <1>1, <1>2, <1>10, <2>1
    <2>3. \A n \in S : ~(Place(n, S, e) > c.first)
      <3> TAKE n \in S
      <3>1. PICK i \in DOMAIN f : n = f[i]
        BY <1>8, <2>2 DEF ToSet
      <3> QED  BY <1>1, <1>2, <1>6, <2>2, <3>1
    <2>4. PageOf(top, c) = {}
      BY <1>1, <1>7, <1>9, <2>3
    <2> QED  BY <2>1, <2>4 DEF ToSet, Ordered
  <1>11. CASE ~(c.offset > 0)
    <2>1. /\ Len(f) >= c.first
          /\ Len(c.list) = IF Len(f) - c.first < c.per THEN Len(f) - c.first ELSE c.per
          /\ \A i \in 1..Len(c.list) : c.list[i] = f[c.first + i]
      BY <1>11 DEF Kept
    <2>2. \A i \in 1..Len(c.list) : c.first + i \in DOMAIN f
      BY <1>1, <1>2, <2>1
    <2>3. Ordered(c.list, e)
      <3> SUFFICES ASSUME NEW i \in 1..Len(c.list), NEW j \in 1..Len(c.list), i < j
                   PROVE  Sooner(c.list[i], c.list[j], e)
        BY <1>2 DEF Ordered
      <3>1. c.first + i < c.first + j
        BY <1>1
      <3> QED  BY <2>1, <2>2, <3>1 DEF Ordered
    <2>4. ASSUME NEW i \in 1..Len(c.list)
          PROVE  c.list[i] \in PageOf(top, c)
      <3>1. c.list[i] \in S
        BY <1>3, <2>1, <2>2 DEF ToSet
      <3>2. Place(c.list[i], S, e) = c.first + i
        BY <1>6, <2>1, <2>2
      <3>3. c.first + i \in c.first + 1..c.first + c.per
        BY <1>1, <1>2, <2>1
      <3> QED  BY <1>9, <3>1, <3>2, <3>3
    <2>5. ASSUME NEW n \in PageOf(top, c)
          PROVE  \E i \in 1..Len(c.list) : n = c.list[i]
      <3>1. n \in S /\ Place(n, S, e) \in c.first + 1..c.first + c.per
        BY <1>9
      <3>2. n \in ToSet(f)
        <4>1. CASE c.marker = None
          BY <1>8, <3>1, <4>1
        <4>2. CASE Len(c.list) >= c.per
          <5>1. Len(f) >= c.first + c.per
            BY <1>1, <1>2, <2>1, <4>2
          <5>2. ~(Place(n, S, e) > Len(f))
            BY <1>1, <1>2, <1>7, <3>1, <5>1
          <5> QED  BY <1>6, <3>1, <5>2
        <4> QED  BY <4>1, <4>2
      <3>3. PICK k \in DOMAIN f : n = f[k]
        BY <3>2 DEF ToSet
      <3>4. k \in c.first + 1..c.first + c.per /\ k \in 1..Len(f)
        BY <1>2, <1>6, <3>1, <3>3
      <3>5. k - c.first \in 1..Len(c.list) /\ c.first + (k - c.first) = k
        BY <1>1, <1>2, <2>1, <3>4
      <3> QED  BY <2>1, <3>3, <3>5
    <2>6. ToSet(c.list) = PageOf(top, c)
      BY <1>2, <2>4, <2>5 DEF ToSet
    <2> QED  BY <2>3, <2>6
  <1> QED  BY <1>10, <1>11
-----------------------------------------------------------------------------
(* The steps of the pager.                                                  *)

CallFields ==
    {"step", "asked", "per", "earliest", "exclude", "start", "end",
     "first", "offset", "marker", "remote", "local", "list"}

LEMMA CallDomain ==
    ASSUME NEW c \in Calls
    PROVE  DOMAIN c = CallFields
  BY DEF Calls, CallFields

\* What was given, and what account_tx is to give, are of the history at one
\* moment: ledgers that closed since are after the marker of an ascending
\* request, and of no concern to a descending one.
LEMMA Onwards ==
    ASSUME TypeOK, call.asked <= height, Asking
    PROVE  \E top \in Tops, f \in Lists :
              /\ Ordered(f, call.earliest)
              /\ ToSet(f) = {n \in Found(top, call) : call.marker # None /\ Before(n, call)}
              /\ Onward(call) =
                    {n \in History(top, call) : call.marker = None \/ ~Before(n, call)}
              /\ Kept(f, call)
  <1> DEFINE e == call.earliest
             marker == call.marker
  <1>1. call \in Calls /\ height \in Nat /\ MaxLedger \in Nat
    BY ChainAssumption DEF TypeOK
  <1>2. /\ call.asked \in Nat /\ e \in BOOLEAN /\ marker \in Int
        /\ call.first \in Nat /\ call.per \in Nat /\ call.per >= 1
    BY <1>1, CallTypes
  <1>3. height \in Tops
    BY <1>1, <1>2 DEF Tops
  <1>4. \A n \in DOMAIN Chain : n \in Nat /\ Chain[n].ledger \in Nat
    BY ChainTypes
  <1>5. CASE marker = None
    <2>1. call.list = <<>> /\ call.offset = call.first
      BY <1>5 DEF Asking
    <2>2. <<>> \in Lists /\ Ordered(<<>>, e) /\ ToSet(<<>>) = {} /\ Len(<<>>) = 0
      BY DEF Lists, Ordered, ToSet
    <2>3. Kept(<<>>, call)
      <3>1. CASE call.offset > 0
        BY <1>2, <2>1, <3>1, <2>2 DEF Kept
      <3>2. CASE ~(call.offset > 0)
        <4>1. call.first = 0 /\ Len(call.list) = 0
          BY <1>2, <2>1, <2>2, <3>2
        <4> QED  BY <1>2, <2>2, <3>2, <4>1 DEF Kept
      <3> QED  BY <3>1, <3>2
    <2>4. Onward(call) = History(height, call)
      BY <1>5 DEF Onward
    <2> QED  BY <1>3, <1>5, <2>2, <2>3, <2>4
  <1>6. CASE marker # None
    <2>1. PICK top \in Tops, f \in Lists :
             /\ Ordered(f, e) /\ ToSet(f) = Given(top, call)
             /\ Settled(top, call) /\ Kept(f, call)
      BY <1>6 DEF Asking
    <2>2. top \in Nat /\ top <= height /\ top >= call.asked
      BY <1>1, <1>2, <2>1 DEF Tops
    <2>3. \A n : n \in History(height, call) <=>
             n \in DOMAIN Chain /\ Chain[n].ledger <= height
             /\ Chain[n].ledger \in call.start..call.end
      BY DEF History, HistoryAt
    <2>4. \A n : n \in History(top, call) <=>
             n \in DOMAIN Chain /\ Chain[n].ledger <= top
             /\ Chain[n].ledger \in call.start..call.end
      BY DEF History, HistoryAt
    <2>5. \A n \in DOMAIN Chain : Chain[n].ledger <= top => Chain[n].ledger <= height
      BY <1>1, <1>4, <2>2
    <2>6. Given(top, call) = {n \in Found(top, call) : marker # None /\ Before(n, call)}
      BY <1>6 DEF Given
    <2>7. CASE e
      <3>1. \A n \in DOMAIN Chain : n < marker => Chain[n].ledger <= top
        BY <1>6, <2>1, <2>7 DEF Settled
      <3>2. \A n : Before(n, call) <=> n < marker
        BY <2>7 DEF Before
      <3>3. \A n \in DOMAIN Chain : ~Before(n, call) <=> n >= marker
        BY <1>2, <1>4, <3>2
      <3>4. Onward(call) = {n \in History(height, call) : marker = None \/ ~Before(n, call)}
        <4>1. Onward(call) = {n \in History(height, call) : n >= marker}
          BY <1>6, <2>7 DEF Onward
        <4> QED  BY <1>6, <2>3, <3>3, <4>1
      <3>5. \A n : Before(n, call) => (n \in History(height, call) <=> n \in History(top, call))
        BY <2>3, <2>4, <2>5, <3>1, <3>2
      <3>6. ToSet(f) = {n \in Found(height, call) : marker # None /\ Before(n, call)}
        BY <2>1, <2>6, <3>5 DEF Found
      <3> QED  BY <1>3, <2>1, <2>7, <3>4, <3>6
    <2>8. CASE ~e
      <3>1. \A n \in DOMAIN Chain : n <= marker => Chain[n].ledger <= top
        BY <1>6, <2>1, <2>8 DEF Settled
      <3>2. \A n \in DOMAIN Chain : ~Before(n, call) <=> n <= marker
        BY <1>2, <1>4, <2>8 DEF Before
      <3>3. Onward(call) = {n \in History(height, call) : n <= marker}
        BY <1>6, <2>8 DEF Onward
      <3>4. Onward(call) = {n \in History(top, call) : marker = None \/ ~Before(n, call)}
        BY <1>6, <2>3, <2>4, <2>5, <3>1, <3>2, <3>3
      <3> QED  BY <2>1, <2>6, <3>4
    <2> QED  BY <1>2, <2>7, <2>8
  <1> QED  BY <1>5, <1>6

\* What the remote has answered takes the marker past it.
LEMMA RemoteStep ==
    ASSUME TypeOK, call.asked <= height, PagerInv,
           NEW more \in BOOLEAN, RemoteAnswers(more)
    PROVE  /\ call' \in Calls /\ call'.step = "querying" /\ call'.remote # <<>>
           /\ call'.asked = call.asked
           /\ call'.list = call.list /\ call'.offset = call.offset
           /\ call'.per = call.per
           /\ Answered'
  <1> DEFINE e == call.earliest
             got == Got(call)
             last == LastOf(got, e)
             marker == IF ~more THEN None ELSE IF e THEN last + 1 ELSE last - 1
             given == {n \in got : Passes(n, call.exclude)}
  <1>1. call \in Calls /\ height \in Nat
    BY ChainAssumption DEF TypeOK
  <1>2. /\ call.asked \in Nat /\ e \in BOOLEAN /\ call.marker \in Int
    BY <1>1, CallTypes
  <1>3. /\ call.step = "querying" /\ call.remote = <<>> /\ height' = height
        /\ more => Cardinality(got) = Limit
        /\ ~more => got = Onward(call)
        /\ call' = [call EXCEPT !.remote = <<got>>, !.marker = marker]
    BY DEF RemoteAnswers, Waiting
  <1>4. PICK top \in Tops, f \in Lists :
           /\ Ordered(f, e)
           /\ ToSet(f) = {n \in Found(top, call) : call.marker # None /\ Before(n, call)}
           /\ Onward(call) =
                 {n \in History(top, call) : call.marker = None \/ ~Before(n, call)}
           /\ Kept(f, call)
    <2>1. Asking
      BY <1>3 DEF PagerInv
    <2> QED  BY <2>1, Onwards
  <1>5. /\ got \subseteq Onward(call) /\ Onward(call) \subseteq History(top, call)
        /\ History(top, call) \subseteq DOMAIN Chain
        /\ got = Firsts(Onward(call), Limit, e)
    BY <1>4 DEF Got, Firsts, History, HistoryAt
  <1>6. got \in SUBSET DOMAIN Chain
    BY <1>5
  <1>7. Limit \in Nat /\ Limit # 0
    BY HistoryAssumption
  <1>8. ASSUME more PROVE last \in got /\ \A m \in got : m = last \/ Sooner(m, last, e)
    <2>1. got # {}
      BY <1>3, <1>7, <1>8, FS_EmptySet
    <2> HIDE DEF got
    <2> QED  BY <1>2, <1>6, <2>1, LastExists
  <1> HIDE DEF got, last
  <1>9. \A n \in DOMAIN Chain : n \in Nat /\ n >= 1 /\ n <= Len(Chain) /\ Chain[n].ledger \in Nat
    BY ChainTypes
  <1>10. marker \in Markers
    <2>1. more => last \in Nat /\ last >= 1 /\ last <= Len(Chain)
      BY <1>6, <1>8, <1>9
    <2>2. Len(Chain) \in Nat
      BY ChainTypes
    <2> QED  BY <2>1, <2>2 DEF Markers
  <1> HIDE DEF marker
  <1>11. /\ call'.remote = <<got>> /\ call'.marker = marker
         /\ call'.step = "querying" /\ call'.asked = call.asked /\ call'.per = call.per
         /\ call'.earliest = e /\ call'.exclude = call.exclude
         /\ call'.start = call.start /\ call'.end = call.end /\ call'.first = call.first
         /\ call'.offset = call.offset /\ call'.list = call.list
    BY <1>1, <1>3, CallDomain DEF CallFields
  <1>12. call' \in Calls
    BY <1>1, <1>3, <1>6, <1>10 DEF Calls
  <1>13. \A n \in given : n \in Onward(call) /\ n \in Found(top, call)
    BY <1>5 DEF Found
  <1>14. ToSet(f) \cup given = Given(top, call')
    <2>1. CASE ~more
      <3>1. Given(top, call') = Found(top, call)
        <4>1. marker = None
          BY <2>1 DEF marker
        <4>2. Found(top, call') = Found(top, call)
          BY <1>11, SameRequest
        <4> QED  BY <1>11, <4>1, <4>2 DEF Given
      <3>2. \A n \in Found(top, call) : n \in ToSet(f) \/ n \in given
        BY <1>3, <1>4, <2>1 DEF Found
      <3>3. \A n \in ToSet(f) : n \in Found(top, call)
        BY <1>4
      <3> QED  BY <1>13, <3>1, <3>2, <3>3
    <2>2. CASE more
      <3>1. last \in Nat /\ last \in DOMAIN Chain /\ last \in Onward(call)
        BY <1>5, <1>6, <1>8, <1>9, <2>2
      <3>2. \A n \in DOMAIN Chain : Before(n, call') <=> n = last \/ Sooner(n, last, e)
        <4>1. marker = IF e THEN last + 1 ELSE last - 1
          BY <2>2 DEF marker
        <4>2. \A n \in DOMAIN Chain : Before(n, call') <=> IF e THEN n < marker ELSE n > marker
          BY <1>11 DEF Before
        <4> HIDE DEF marker
        <4> QED  BY <1>2, <1>9, <3>1, <4>1, <4>2 DEF Sooner
      <3>3. marker # None
        <4>1. last >= 1
          BY <1>9, <3>1
        <4> QED  BY <1>2, <2>2, <3>1, <4>1 DEF marker, None
      <3>4. Given(top, call') = {n \in Found(top, call) : n = last \/ Sooner(n, last, e)}
        <4>1. Found(top, call') = Found(top, call)
          BY <1>11, SameRequest
        <4>2. Found(top, call) \subseteq DOMAIN Chain
          BY DEF Found, History, HistoryAt
        <4> QED  BY <1>11, <3>2, <3>3, <4>1, <4>2 DEF Given
      <3>5. ASSUME NEW n \in ToSet(f) PROVE n \in Given(top, call')
        <4>1. n \in Found(top, call) /\ call.marker # None /\ Before(n, call)
          BY <1>4
        <4>2. ~Before(last, call)
          BY <1>4, <3>1, <4>1
        <4>3. n \in Nat
          BY <1>9, <4>1 DEF Found, History, HistoryAt
        <4>4. Sooner(n, last, e)
          BY <1>2, <3>1, <4>1, <4>2, <4>3 DEF Before, Sooner
        <4> QED  BY <3>4, <4>1, <4>4
      <3>6. ASSUME NEW n \in given PROVE n \in Given(top, call')
        BY <1>8, <1>13, <2>2, <3>4
      <3>7. ASSUME NEW n \in Given(top, call') PROVE n \in ToSet(f) \/ n \in given
        <4>1. n \in Found(top, call) /\ (n = last \/ Sooner(n, last, e))
          BY <3>4
        <4>2. CASE call.marker # None /\ Before(n, call)
          BY <1>4, <4>1, <4>2
        <4>3. CASE ~(call.marker # None /\ Before(n, call))
          <5>1. n \in Onward(call) /\ Passes(n, call.exclude)
            BY <1>4, <4>1, <4>3 DEF Found
          <5>2. n \in got
            <6>1. last \in Firsts(Onward(call), Limit, e)
              BY <1>5, <1>8, <2>2
            <6>2. Onward(call) \in SUBSET DOMAIN Chain
              BY <1>5
            <6>3. CASE n = last
              BY <1>8, <2>2, <6>3
            <6>4. CASE Sooner(n, last, e)
              BY <1>2, <1>5, <1>7, <5>1, <6>1, <6>2, <6>4, FirstsInitial
            <6> QED  BY <4>1, <6>3, <6>4
          <5> QED  BY <5>1, <5>2
        <4> QED  BY <4>2, <4>3
      <3> QED  BY <3>5, <3>6, <3>7
    <2> QED  BY <2>1, <2>2
  <1>15. \A m \in ToSet(f), n \in given : Sooner(m, n, e)
    <2> TAKE m \in ToSet(f), n \in given
    <2>1. call.marker # None /\ Before(m, call) /\ m \in Found(top, call)
      BY <1>4
    <2>2. ~Before(n, call)
      BY <1>4, <1>13, <2>1
    <2>3. m \in Nat /\ n \in Nat
      BY <1>6, <1>9, <2>1 DEF Found, History, HistoryAt
    <2> QED  BY <1>2, <2>1, <2>2, <2>3 DEF Before, Sooner
  <1>16. Settled(top, call')
    <2> SUFFICES ASSUME more, NEW n \in DOMAIN Chain,
                        IF e THEN n < marker ELSE n <= marker
                 PROVE  Chain[n].ledger <= top
      BY <1>11 DEF Settled, marker
    <2>1. last \in DOMAIN Chain /\ Chain[last].ledger <= top /\ last \in Nat
      BY <1>5, <1>8, <1>9 DEF History, HistoryAt
    <2>2. n <= last
      BY <1>2, <1>9, <2>1 DEF marker
    <2>3. Chain[n].ledger <= Chain[last].ledger
      BY <2>1, <2>2, ChainTypes
    <2>4. top \in Int
      BY <1>4 DEF Tops
    <2> QED  BY <1>9, <2>1, <2>3, <2>4
  <1>17. Kept(f, call')
    BY <1>4, <1>11, SameRequest
  <1>18. Answered'
    <2>1. call'.remote[1] = got /\ top \in Tops'
      BY <1>3, <1>4, <1>11 DEF Tops
    <2>2. {n \in call'.remote[1] : Passes(n, call'.exclude)} = given
      BY <1>11, <2>1
    <2> HIDE DEF given
    <2> QED  BY <1>4, <1>11, <1>14, <1>15, <1>16, <1>17, <2>1, <2>2 DEF Answered
  <1> QED  BY <1>11, <1>12, <1>18

\* A round merges what the remote gave, and goes on from the marker or ends.
LEMMA RoundStep ==
    ASSUME IInv, Round
    PROVE  IInv'
  <1> DEFINE e == call.earliest
             given == {n \in call.remote[1] : Passes(n, call.exclude)}
             b == InOrder(given, e)
             c == Merged(call, b)
             step == IF Len(c.list) >= c.per \/ c.marker = None THEN "dating" ELSE "again"
  <1>1. /\ call \in Calls /\ height \in 0..MaxLedger /\ rows \subseteq Rows
        /\ call.asked <= height /\ NothingKeptBeforeOffset
        /\ height' = height /\ rows' = rows
        /\ call.step = "querying" /\ call.remote # <<>>
    BY DEF IInv, TypeOK, Round
  <1>2. CASE OnlyLocal(call) # {}
    <2>1. call' = [call EXCEPT !.step = "thrown"]
      BY <1>2 DEF Round
    <2>2. /\ call'.step = "thrown" /\ call'.asked = call.asked /\ call'.list = call.list
          /\ call'.offset = call.offset /\ call'.per = call.per /\ call' \in Calls
      BY <1>1, <2>1 DEF Calls, Steps
    <2> QED  BY <1>1, <2>2 DEF IInv, TypeOK, NothingKeptBeforeOffset, PagerInv, AnswerIsPage
  <1>3. CASE ~(OnlyLocal(call) # {})
    <2>1. call' = [c EXCEPT !.remote = <<>>, !.local = <<>>, !.step = step]
      BY <1>3 DEF Round, Filtered
    <2>2. call.remote[1] \in SUBSET DOMAIN Chain /\ e \in BOOLEAN
      BY <1>1, CallTypes
    <2>3. given \in SUBSET DOMAIN Chain
      BY <2>2
    <2> HIDE DEF given
    <2>4. b \in Lists /\ ToSet(b) = given /\ Ordered(b, e)
      BY <2>2, <2>3, InOrderList DEF Lists
    <2> HIDE DEF b
    <2>5. PICK top \in Tops, f \in Lists :
             /\ Ordered(f, e)
             /\ ToSet(f) \cup given = Given(top, call)
             /\ \A m \in ToSet(f), n \in given : Sooner(m, n, e)
             /\ Settled(top, call) /\ Kept(f, call)
      BY <1>1 DEF IInv, PagerInv, Answered, given
    <2> DEFINE g == f \o b
    <2>6. /\ c = [call EXCEPT !.list = c.list, !.offset = c.offset]
          /\ c.list \in Lists /\ c.offset \in Int
          /\ Kept(g, c)
          /\ c.offset > 0 => c.list = <<>>
          /\ Len(c.list) <= c.per
      BY <1>1, <2>4, <2>5, Merging
    <2>7. step \in Steps /\ step \in {"dating", "again"}
      BY DEF Steps
    <2> HIDE DEF c, step, g
    <2>8. /\ c.step = "querying" /\ c.asked = call.asked /\ c.per = call.per
          /\ c.earliest = e /\ c.exclude = call.exclude /\ c.start = call.start
          /\ c.end = call.end /\ c.first = call.first /\ c.marker = call.marker
          /\ c \in Calls
      <3>1. c.list \in Seq(DOMAIN Chain)
        BY <2>6 DEF Lists
      <3>2. c \in Calls
        BY <1>1, <2>6, <3>1 DEF Calls
      <3> QED  BY <1>1, <2>6, <3>2, CallDomain DEF CallFields
    <2>9. /\ call'.step = step /\ call'.asked = call.asked /\ call'.per = call.per
          /\ call'.earliest = e /\ call'.exclude = call.exclude
          /\ call'.start = call.start /\ call'.end = call.end
          /\ call'.first = call.first /\ call'.marker = call.marker
          /\ call'.list = c.list /\ call'.offset = c.offset /\ call'.remote = <<>>
      BY <2>1, <2>8, CallDomain DEF CallFields
    <2>10. call' \in Calls
      BY <2>1, <2>7, <2>8 DEF Calls
    <2>11. g \in Lists /\ ToSet(g) = Given(top, call) /\ Ordered(g, e)
      <3>1. /\ Len(f) \in Nat /\ Len(b) \in Nat /\ g \in Lists
            /\ DOMAIN f = 1..Len(f) /\ DOMAIN b = 1..Len(b) /\ DOMAIN g = 1..Len(f) + Len(b)
            /\ \A i \in 1..Len(f) : g[i] = f[i]
            /\ \A i \in 1..Len(b) : g[Len(f) + i] = b[i]
        BY <2>4, <2>5 DEF Lists, g
      <3>2. ASSUME NEW i \in DOMAIN g
            PROVE  \/ i \in DOMAIN f
                   \/ i > Len(f) /\ i - Len(f) \in DOMAIN b /\ g[i] = b[i - Len(f)]
        <4>1. i \in 1..Len(f) + Len(b)
          BY <3>1
        <4>2. CASE i <= Len(f)
          BY <3>1, <4>1, <4>2
        <4>3. CASE i > Len(f)
          <5>1. i - Len(f) \in 1..Len(b) /\ i = Len(f) + (i - Len(f))
            BY <3>1, <4>1, <4>3
          <5> QED  BY <3>1, <4>3, <5>1
        <4> QED  BY <3>1, <4>1, <4>2, <4>3
      <3>3. ToSet(g) = ToSet(f) \cup ToSet(b)
        <4>1. ASSUME NEW i \in DOMAIN f PROVE f[i] \in ToSet(g)
          <5>1. i \in DOMAIN g /\ g[i] = f[i]
            BY <3>1
          <5> QED  BY <5>1 DEF ToSet
        <4>2. ASSUME NEW i \in DOMAIN b PROVE b[i] \in ToSet(g)
          <5>1. Len(f) + i \in DOMAIN g /\ g[Len(f) + i] = b[i]
            BY <3>1
          <5> QED  BY <5>1 DEF ToSet
        <4>3. ASSUME NEW i \in DOMAIN g PROVE g[i] \in ToSet(f) \/ g[i] \in ToSet(b)
          BY <3>1, <3>2 DEF ToSet
        <4> QED  BY <4>1, <4>2, <4>3 DEF ToSet
      <3>4. Ordered(g, e)
        <4> SUFFICES ASSUME NEW i \in DOMAIN g, NEW j \in DOMAIN g, i < j
                     PROVE  Sooner(g[i], g[j], e)
          BY DEF Ordered
        <4>1. i \in Nat /\ j \in Nat
          BY <3>1
        <4>2. CASE j \in DOMAIN f
          <5>1. i \in DOMAIN f /\ g[i] = f[i] /\ g[j] = f[j]
            BY <3>1, <4>1, <4>2
          <5> QED  BY <2>5, <4>2, <5>1 DEF Ordered
        <4>3. CASE j \notin DOMAIN f
          <5>1. j > Len(f) /\ j - Len(f) \in DOMAIN b /\ g[j] = b[j - Len(f)]
            BY <3>2, <4>3
          <5>2. CASE i \in DOMAIN f
            <6>1. g[i] \in ToSet(f) /\ g[j] \in given
              BY <2>4, <3>1, <5>1, <5>2 DEF ToSet
            <6> QED  BY <2>5, <6>1
          <5>3. CASE i \notin DOMAIN f
            <6>1. i > Len(f) /\ i - Len(f) \in DOMAIN b /\ g[i] = b[i - Len(f)]
              BY <3>2, <5>3
            <6>2. i - Len(f) < j - Len(f)
              BY <3>1, <4>1
            <6> QED  BY <2>4, <5>1, <6>1, <6>2 DEF Ordered
          <5> QED  BY <5>2, <5>3
        <4> QED  BY <4>2, <4>3
      <3> QED  BY <2>4, <2>5, <3>1, <3>3, <3>4
    <2>12. /\ Given(top, call') = Given(top, call) /\ Settled(top, call')
           /\ Kept(g, call') /\ top \in Tops'
      <3>1. Given(top, call') = Given(top, call) /\ Settled(top, call')
        BY <2>5, <2>9, SameRequest
      <3>2. Kept(g, call')
        BY <2>6, <2>8, <2>9, SameRequest
      <3> QED  BY <1>1, <2>5, <2>9, <3>1, <3>2 DEF Tops
    <2>13. PagerInv'
      <3>1. CASE step = "again"
        <4>1. call'.marker # None
          BY <2>8, <2>9, <3>1 DEF step
        <4>2. Asking'
          BY <2>9, <2>11, <2>12, <4>1 DEF Asking
        <4> QED  BY <2>9, <3>1, <4>1, <4>2 DEF PagerInv
      <3>2. CASE step = "dating"
        <4>1. call'.marker = None \/ Len(call'.list) >= call'.per
          BY <2>8, <2>9, <3>2 DEF step
        <4>2. Finished'
          BY <2>9, <2>11, <2>12, <4>1 DEF Finished
        <4> QED  BY <2>9, <3>2, <4>2 DEF PagerInv
      <3> QED  BY <2>7, <3>1, <3>2
    <2>14. NothingKeptBeforeOffset'
      BY <2>6, <2>8, <2>9 DEF NothingKeptBeforeOffset
    <2>15. AnswerIsPage'
      BY <2>7, <2>9 DEF AnswerIsPage
    <2> QED  BY <1>1, <2>9, <2>10, <2>13, <2>14, <2>15 DEF IInv, TypeOK
  <1> QED  BY <1>2, <1>3

\* attachDate gives a list of the same transactions, by ledger; those of one
\* ledger stay in their order.
LEMMA DatedList ==
    ASSUME NEW list \in Lists, NEW dated \in ByLedger(list)
    PROVE  /\ dated \in Lists /\ ToSet(dated) = ToSet(list) /\ Len(dated) = Len(list)
           /\ \A i, j \in DOMAIN dated : i < j =>
                 \/ Chain[dated[i]].ledger < Chain[dated[j]].ledger
                 \/ /\ Chain[dated[i]].ledger = Chain[dated[j]].ledger
                    /\ \E k, l \in DOMAIN list :
                          k < l /\ dated[i] = list[k] /\ dated[j] = list[l]
  <1>1. list \in Seq(DOMAIN Chain) /\ Len(list) \in Nat /\ DOMAIN list = 1..Len(list)
    BY DEF Lists
  <1>2. PICK from \in [DOMAIN list -> DOMAIN list] :
           /\ dated = [k \in DOMAIN list |-> list[from[k]]]
           /\ \A j, k \in DOMAIN list : j < k =>
                 \/ Chain[list[from[j]]].ledger < Chain[list[from[k]]].ledger
                 \/ /\ Chain[list[from[j]]].ledger = Chain[list[from[k]]].ledger
                    /\ from[j] < from[k]
    BY DEF ByLedger
  <1>3. \A k \in DOMAIN list : /\ from[k] \in DOMAIN list /\ from[k] \in Nat /\ k \in Nat
                              /\ list[from[k]] \in DOMAIN Chain
                              /\ Chain[list[from[k]]].ledger \in Nat
    <2> TAKE k \in DOMAIN list
    <2>1. from[k] \in DOMAIN list
      OBVIOUS
    <2>2. list[from[k]] \in DOMAIN Chain
      BY <1>1, <2>1
    <2> QED  BY <1>1, <2>1, <2>2, ChainTypes
  <1>4. DOMAIN dated = 1..Len(list) /\ \A k \in DOMAIN list : dated[k] = list[from[k]]
    BY <1>1, <1>2
  <1>5. dated \in Lists /\ Len(dated) = Len(list)
    <2>1. dated \in [1..Len(list) -> DOMAIN Chain]
      BY <1>1, <1>2, <1>3
    <2> QED  BY <1>1, <2>1 DEF Lists
  <1>6. \A k \in DOMAIN list : \E j \in DOMAIN list : from[j] = k
    <2>1. \A j, k \in DOMAIN list : from[j] = from[k] => j = k
      <3> TAKE j, k \in DOMAIN list
      <3>1. j < k => from[j] # from[k]
        BY <1>2, <1>3
      <3>2. k < j => from[j] # from[k]
        BY <1>2, <1>3
      <3> QED  BY <1>3, <3>1, <3>2
    <2>2. from \in Injection(DOMAIN list, DOMAIN list)
      BY <2>1 DEF Injection, IsInjective
    <2>3. IsFiniteSet(DOMAIN list)
      BY <1>1, FS_Interval
    <2>4. from \in Surjection(DOMAIN list, DOMAIN list)
      BY <2>2, <2>3, FS_Injection
    <2> QED  BY <2>4 DEF Surjection
  <1>7. ToSet(dated) = ToSet(list)
    <2>1. \A k \in DOMAIN list : \E j \in DOMAIN list : list[k] = dated[j]
      BY <1>4, <1>6
    <2>2. \A j \in DOMAIN list : \E k \in DOMAIN list : dated[j] = list[k]
      BY <1>3, <1>4
    <2> QED  BY <1>1, <1>4, <2>1, <2>2 DEF ToSet
  <1>8. ASSUME NEW i \in DOMAIN dated, NEW j \in DOMAIN dated, i < j
        PROVE  \/ Chain[dated[i]].ledger < Chain[dated[j]].ledger
               \/ /\ Chain[dated[i]].ledger = Chain[dated[j]].ledger
                  /\ \E k, l \in DOMAIN list :
                        k < l /\ dated[i] = list[k] /\ dated[j] = list[l]
    <2>1. /\ i \in DOMAIN list /\ j \in DOMAIN list
          /\ dated[i] = list[from[i]] /\ dated[j] = list[from[j]]
          /\ from[i] \in DOMAIN list /\ from[j] \in DOMAIN list
      BY <1>1, <1>3, <1>4
    <2> QED  BY <1>2, <1>8, <2>1
  <1> QED  BY <1>5, <1>7, <1>8

LEMMA AnswerStep ==
    ASSUME IInv, Answer
    PROVE  IInv'
  <1>1. /\ call \in Calls /\ height \in 0..MaxLedger /\ rows \subseteq Rows
        /\ call.asked <= height /\ NothingKeptBeforeOffset /\ Finished
        /\ height' = height /\ rows' = rows /\ call.step = "dating"
    BY DEF IInv, TypeOK, PagerInv, Answer
  <1>2. PICK dated \in ByLedger(call.list) :
           call' = [call EXCEPT !.list = dated, !.step = "answered"]
    BY DEF Answer
  <1>3. /\ call.list \in Lists /\ call.earliest \in BOOLEAN
        /\ Len(call.list) \in Nat /\ DOMAIN call.list = 1..Len(call.list)
    BY <1>1, CallTypes DEF Lists
  <1>4. /\ dated \in Lists /\ ToSet(dated) = ToSet(call.list) /\ Len(dated) = Len(call.list)
        /\ \A i, j \in DOMAIN dated : i < j =>
              \/ Chain[dated[i]].ledger < Chain[dated[j]].ledger
              \/ /\ Chain[dated[i]].ledger = Chain[dated[j]].ledger
                 /\ \E k, l \in DOMAIN call.list :
                       k < l /\ dated[i] = call.list[k] /\ dated[j] = call.list[l]
    BY <1>3, DatedList
  <1>5. /\ call'.list = dated /\ call'.step = "answered" /\ call'.asked = call.asked
        /\ call'.per = call.per /\ call'.offset = call.offset
        /\ call'.earliest = call.earliest /\ call'.exclude = call.exclude
        /\ call'.start = call.start /\ call'.end = call.end /\ call'.first = call.first
    BY <1>1, <1>2, CallDomain DEF CallFields
  <1>6. call' \in Calls
    BY <1>1, <1>2, <1>4 DEF Calls, Steps, Lists
  <1>7. PICK top \in Tops, f \in Lists :
           /\ Ordered(f, call.earliest) /\ ToSet(f) = Given(top, call) /\ Kept(f, call)
    BY <1>1 DEF Finished
  <1>8. ToSet(call.list) = PageOf(top, call) /\ Ordered(call.list, call.earliest)
    <2>1. call.marker = None \/ Len(call.list) >= call.per
      BY <1>1 DEF Finished
    <2> QED  BY <1>1, <1>7, <2>1, PageKept
  <1>9. PageOf(top, call') = PageOf(top, call) /\ top \in call'.asked..height'
    BY <1>1, <1>5, <1>7, SameRequest DEF Tops
  <1>10. \A i, j \in DOMAIN dated : i < j =>
            \/ Chain[dated[i]].ledger < Chain[dated[j]].ledger
            \/ /\ Chain[dated[i]].ledger = Chain[dated[j]].ledger
               /\ Sooner(dated[i], dated[j], call.earliest)
    BY <1>4, <1>8 DEF Ordered
  <1>11. AnswerIsPage'
    BY <1>4, <1>5, <1>8, <1>9, <1>10 DEF AnswerIsPage
  <1>12. NothingKeptBeforeOffset'
    <2>1. call.offset > 0 => dated = <<>>
      <3>1. call.offset > 0 => Len(dated) = 0
        BY <1>1, <1>4 DEF NothingKeptBeforeOffset
      <3> QED  BY <1>4, <3>1, EmptySeq DEF Lists
    <2> QED  BY <1>1, <1>4, <1>5, <2>1 DEF NothingKeptBeforeOffset
  <1>13. PagerInv'
    BY <1>5 DEF PagerInv
  <1> QED  BY <1>1, <1>5, <1>6, <1>11, <1>12, <1>13 DEF IInv, TypeOK

LEMMA Requested ==
    ASSUME height \in 0..MaxLedger, NEW c \in Requests
    PROVE  /\ c \in Calls /\ c.step = "querying" /\ c.asked = height /\ c.remote = <<>>
           /\ c.marker = None /\ c.list = <<>> /\ c.offset = c.first
           /\ c.per \in Nat /\ c.per >= 1
  <1>1. PICK per \in Sizes, page \in Pages, earliest \in BOOLEAN, exclude \in BOOLEAN,
             start \in Starts, end \in Ends :
           c = Request(per, page, earliest, exclude, start, end)
    BY DEF Requests
  <1>2. per * (page - 1) \in Nat /\ per \in Nat /\ per >= 1
    <2>1. Sizes \subseteq Nat \ {0} /\ Pages \subseteq Nat \ {0}
      BY HistoryAssumption
    <2>2. per \in Nat \ {0} /\ page \in Nat \ {0}
      BY <2>1
    <2>3. \A m, n \in Nat : m * n \in Nat
      OBVIOUS
    <2>4. page - 1 \in Nat
      BY <2>2
    <2> QED  BY <2>2, <2>3, <2>4
  <1>3. /\ c.step = "querying" /\ c.asked = height /\ c.per = per /\ c.earliest = earliest
        /\ c.exclude = exclude /\ c.start = start /\ c.end = end
        /\ c.first = per * (page - 1) /\ c.offset = per * (page - 1) /\ c.marker = None
        /\ c.remote = <<>> /\ c.local = <<>> /\ c.list = <<>>
    BY <1>1 DEF Request
  <1>4. c \in Calls
    <2>1. per * (page - 1) \in Int
      BY <1>2
    <2>2. None \in Markers /\ <<>> \in Seq(DOMAIN Chain)
      BY DEF Markers
    <2> DEFINE n == per * (page - 1)
    <2>3. n \in Nat /\ n \in Int /\ c = [step |-> "querying", asked |-> height, per |-> per,
             earliest |-> earliest, exclude |-> exclude, start |-> start, end |-> end,
             first |-> n, offset |-> n, marker |-> None,
             remote |-> <<>>, local |-> <<>>, list |-> <<>>]
      BY <1>1, <1>2, <2>1 DEF Request
    <2> HIDE DEF n
    <2> QED  BY <2>2, <2>3 DEF Calls, Steps
  <1> QED  BY <1>2, <1>3, <1>4

\* A fresh request has the invariant.
LEMMA Fresh ==
    ASSUME height \in 0..MaxLedger, rows \subseteq Rows, call \in Requests
    PROVE  IInv
  <1>1. /\ call \in Calls /\ call.step = "querying" /\ call.asked = height
        /\ call.remote = <<>> /\ call.marker = None /\ call.list = <<>>
        /\ call.offset = call.first /\ call.per \in Nat /\ call.per >= 1
    BY Requested
  <1>2. call.asked <= height
    BY <1>1, ChainAssumption
  <1>3. Len(call.list) = 0
    BY <1>1
  <1>4. NothingKeptBeforeOffset
    BY <1>1, <1>3 DEF NothingKeptBeforeOffset
  <1>5. PagerInv
    BY <1>1 DEF PagerInv, Asking
  <1>6. AnswerIsPage
    BY <1>1 DEF AnswerIsPage
  <1> QED  BY <1>1, <1>2, <1>4, <1>5, <1>6 DEF IInv, TypeOK

\* Ledgers that close and payments that fail leave it so.
LEMMA Unheard ==
    ASSUME IInv, call' = call, height' \in height..MaxLedger, rows' \subseteq Rows
    PROVE  IInv'
  <1>1. /\ call \in Calls /\ height \in 0..MaxLedger /\ call.asked <= height
        /\ MaxLedger \in Nat
    BY ChainAssumption DEF IInv, TypeOK
  <1>2. /\ height' \in 0..MaxLedger /\ call.asked \in Nat /\ call.asked <= height'
        /\ \A top \in call.asked..height : top \in call.asked..height'
    BY <1>1, CallTypes
  <1>3. TypeOK' /\ call'.asked <= height'
    BY <1>1, <1>2 DEF IInv, TypeOK
  <1>4. \A top \in Tops : top \in Tops'
    BY <1>2 DEF Tops
  <1>5. Asking => Asking'
    <2> SUFFICES ASSUME Asking PROVE Asking'
      OBVIOUS
    <2>1. CASE call.marker = None
      BY <2>1 DEF Asking
    <2>2. CASE call.marker # None
      <3>1. PICK top \in Tops, f \in Lists :
               /\ Ordered(f, call.earliest) /\ ToSet(f) = Given(top, call)
               /\ Settled(top, call) /\ Kept(f, call)
        BY <2>2 DEF Asking
      <3> QED  BY <1>4, <2>2, <3>1 DEF Asking
    <2> QED  BY <2>1, <2>2
  <1>6. Answered => Answered'
    <2> SUFFICES ASSUME Answered PROVE Answered'
      OBVIOUS
    <2>1. PICK top \in Tops, f \in Lists :
             LET batch == {n \in call.remote[1] : Passes(n, call.exclude)} IN
             /\ Ordered(f, call.earliest)
             /\ ToSet(f) \cup batch = Given(top, call)
             /\ \A m \in ToSet(f), n \in batch : Sooner(m, n, call.earliest)
             /\ Settled(top, call) /\ Kept(f, call)
      BY DEF Answered
    <2> QED  BY <1>4, <2>1 DEF Answered
  <1>7. Finished => Finished'
    <2> SUFFICES ASSUME Finished PROVE Finished'
      OBVIOUS
    <2>1. PICK top \in Tops, f \in Lists :
             /\ Ordered(f, call.earliest) /\ ToSet(f) = Given(top, call) /\ Kept(f, call)
      BY DEF Finished
    <2> QED  BY <1>4, <2>1 DEF Finished
  <1>8. PagerInv'
    BY <1>5, <1>6, <1>7 DEF IInv, PagerInv
  <1>9. AnswerIsPage'
    <2> SUFFICES ASSUME call.step = "answered" PROVE AnswerIsPage'
      BY DEF AnswerIsPage
    <2>1. PICK top \in call.asked..height : ToSet(call.list) = PageOf(top, call)
      BY DEF IInv, AnswerIsPage
    <2>2. top \in call'.asked..height'
      BY <1>2
    <2>3. \A i, j \in DOMAIN call.list : i < j =>
             LET m == call.list[i]  n == call.list[j] IN
             \/ Chain[m].ledger < Chain[n].ledger
             \/ /\ Chain[m].ledger = Chain[n].ledger
                /\ Sooner(m, n, call.earliest)
      BY DEF IInv, AnswerIsPage
    <2> QED  BY <2>1, <2>2, <2>3 DEF AnswerIsPage
  <1> QED  BY <1>3, <1>8, <1>9 DEF IInv, NothingKeptBeforeOffset

\* So does a step of the request that touches neither its list nor the remote.
LEMMA Untouched ==
    ASSUME IInv, UNCHANGED <<height, rows>>, call' \in Calls,
           NEW step \in {"querying", "error", "gone"},
           call.step \in {"querying", "again", "dating"} \/ step = "gone",
           step = "querying" => call.step \in {"querying", "again"},
           NEW local, call' = [call EXCEPT !.local = local, !.step = step]
    PROVE  IInv'
  <1>1. /\ call \in Calls /\ height \in 0..MaxLedger /\ rows \subseteq Rows
        /\ call.asked <= height
    BY DEF IInv, TypeOK
  <1>2. /\ call'.step = step /\ call'.asked = call.asked /\ call'.per = call.per
        /\ call'.earliest = call.earliest /\ call'.exclude = call.exclude
        /\ call'.start = call.start /\ call'.end = call.end
        /\ call'.first = call.first /\ call'.marker = call.marker
        /\ call'.list = call.list /\ call'.offset = call.offset
        /\ call'.remote = call.remote
    BY <1>1, CallDomain DEF CallFields
  <1>3. /\ \A top : Given(top, call') = Given(top, call)
        /\ \A top : Settled(top, call') <=> Settled(top, call)
        /\ \A f : Kept(f, call') <=> Kept(f, call)
        /\ Tops' = Tops
    <2>1. PICK c, d : c = call /\ d = call'
      OBVIOUS
    <2>2. /\ d.start = c.start /\ d.end = c.end /\ d.exclude = c.exclude
          /\ d.earliest = c.earliest /\ d.marker = c.marker /\ d.first = c.first
          /\ d.per = c.per /\ d.offset = c.offset /\ d.list = c.list
      BY <1>2, <2>1
    <2>3. /\ \A top : Given(top, d) = Given(top, c)
          /\ \A top : Settled(top, d) <=> Settled(top, c)
          /\ \A f : Kept(f, d) <=> Kept(f, c)
      BY <2>2, SameRequest
    <2>4. \A top : Given(top, call') = Given(top, call)
      BY <2>1, <2>3
    <2>5. \A top : Settled(top, call') <=> Settled(top, call)
      BY <2>1, <2>3
    <2>6. \A f : Kept(f, call') <=> Kept(f, call)
      BY <2>1, <2>3
    <2>7. Tops' = Tops
      BY <1>2 DEF Tops
    <2> QED  BY <2>4, <2>5, <2>6, <2>7
  <1>4. Asking => Asking'
    <2> SUFFICES ASSUME Asking PROVE Asking'
      OBVIOUS
    <2>1. CASE call.marker = None
      BY <1>2, <2>1 DEF Asking
    <2>2. CASE call.marker # None
      <3>1. PICK top \in Tops, f \in Lists :
               /\ Ordered(f, call.earliest) /\ ToSet(f) = Given(top, call)
               /\ Settled(top, call) /\ Kept(f, call)
        BY <2>2 DEF Asking
      <3> QED  BY <1>2, <1>3, <2>2, <3>1 DEF Asking
    <2> QED  BY <2>1, <2>2
  <1>5. Answered => Answered'
    <2> SUFFICES ASSUME Answered PROVE Answered'
      OBVIOUS
    <2> DEFINE batch == {n \in call.remote[1] : Passes(n, call.exclude)}
    <2>1. PICK top \in Tops, f \in Lists :
             /\ Ordered(f, call.earliest)
             /\ ToSet(f) \cup batch = Given(top, call)
             /\ \A m \in ToSet(f), n \in batch : Sooner(m, n, call.earliest)
             /\ Settled(top, call) /\ Kept(f, call)
      BY DEF Answered
    <2>2. {n \in call'.remote[1] : Passes(n, call'.exclude)} = batch
      BY <1>2
    <2> HIDE DEF batch
    <2> QED  BY <1>2, <1>3, <2>1, <2>2 DEF Answered
  <1>6. PagerInv'
    <2>1. CASE step = "querying"
      <3>1. IF call.remote = <<>> THEN Asking ELSE Answered
        BY <2>1 DEF IInv, PagerInv
      <3> QED  BY <1>2, <1>4, <1>5, <2>1, <3>1 DEF PagerInv
    <2>2. CASE step \in {"error", "gone"}
      BY <1>2, <2>2 DEF PagerInv
    <2> QED  BY <2>1, <2>2
  <1>7. TypeOK' /\ call'.asked <= height'
    BY <1>1, <1>2 DEF TypeOK
  <1>8. NothingKeptBeforeOffset'
    BY <1>2 DEF IInv, NothingKeptBeforeOffset
  <1>9. AnswerIsPage'
    BY <1>2 DEF AnswerIsPage
  <1> QED  BY <1>6, <1>7, <1>8, <1>9 DEF IInv
-----------------------------------------------------------------------------
THEOREM Invariance == Spec => []IInv
  <1>1. Init => IInv
    BY Fresh DEF Init
  <1>2. IInv /\ [Next]_vars => IInv'
    <2> SUFFICES ASSUME IInv, [Next]_vars PROVE IInv'
      OBVIOUS
    <2>1. /\ call \in Calls /\ height \in 0..MaxLedger /\ rows \subseteq Rows
          /\ call.asked <= height /\ MaxLedger \in Nat
      BY ChainAssumption DEF IInv, TypeOK
    <2>2. CASE Close
      <3>1. height' \in height..MaxLedger /\ rows' \subseteq Rows /\ call' = call
        BY <2>1, <2>2 DEF Close
      <3> QED  BY <3>1, Unheard
    <2>3. ASSUME NEW row \in Rows, FailLocally(row) PROVE IInv'
      <3>1. height' \in height..MaxLedger /\ rows' \subseteq Rows /\ call' = call
        BY <2>1, <2>3 DEF FailLocally
      <3> QED  BY <3>1, Unheard
    <2>4. ASSUME NEW more \in BOOLEAN, RemoteAnswers(more) PROVE IInv'
      <3>1. PagerInv /\ height' = height /\ rows' = rows
        BY <2>4 DEF IInv, RemoteAnswers
      <3>2. /\ call' \in Calls /\ call'.step = "querying" /\ call'.remote # <<>>
            /\ call'.asked = call.asked /\ call'.list = call.list
            /\ call'.offset = call.offset /\ call'.per = call.per
            /\ Answered'
        BY <2>1, <2>4, <3>1, RemoteStep DEF IInv
      <3>3. PagerInv'
        BY <3>2 DEF PagerInv
      <3> QED  BY <2>1, <3>1, <3>2, <3>3
            DEF IInv, TypeOK, NothingKeptBeforeOffset, AnswerIsPage
    <2>5. CASE LocalAnswers
      <3> DEFINE hashes ==
              {row.hash : row \in
                 {x \in rows : ~call.exclude /\ x.ledger \in call.start..call.end}}
      <3>1. /\ call.step = "querying" /\ UNCHANGED <<height, rows>>
            /\ call' = [call EXCEPT !.local = <<hashes>>]
        BY <2>5 DEF LocalAnswers
      <3>2. hashes \in SUBSET {row.hash : row \in Rows}
        BY <2>1
      <3> HIDE DEF hashes
      <3>3. call' \in Calls
        BY <2>1, <3>1, <3>2 DEF Calls
      <3>4. call' = [call EXCEPT !.local = <<hashes>>, !.step = "querying"]
        BY <2>1, <3>1 DEF Calls
      <3> QED  BY <3>1, <3>3, <3>4, Untouched
    <2>6. CASE Round
      BY <2>6, RoundStep
    <2>7. CASE Again
      <3>1. /\ call.step = "again" /\ UNCHANGED <<height, rows>>
            /\ call' = [call EXCEPT !.step = "querying"]
        BY <2>7 DEF Again
      <3>2. call' \in Calls
        BY <2>1, <3>1 DEF Calls, Steps
      <3>3. call' = [call EXCEPT !.local = call.local, !.step = "querying"]
        BY <2>1, <3>1 DEF Calls
      <3> QED  BY <3>1, <3>2, <3>3, Untouched
    <2>8. CASE Answer
      BY <2>8, AnswerStep
    <2>9. CASE QueryFails
      <3>1. /\ call.step \in {"querying", "dating"} /\ UNCHANGED <<height, rows>>
            /\ call' = [call EXCEPT !.step = "error"]
        BY <2>9 DEF QueryFails
      <3>2. call' \in Calls
        BY <2>1, <3>1 DEF Calls, Steps
      <3>3. call' = [call EXCEPT !.local = call.local, !.step = "error"]
        BY <2>1, <3>1 DEF Calls
      <3> QED  BY <3>1, <3>2, <3>3, Untouched
    <2>10. ASSUME NEW c \in Requests, Ask(c) PROVE IInv'
      <3>1. height' = height /\ rows' = rows /\ call' = c
        BY <2>10 DEF Ask
      <3>2. height' \in 0..MaxLedger /\ rows' \subseteq Rows
        BY <2>1, <3>1
      <3>3. call' \in Requests'
        BY <3>1 DEF Requests, Request
      <3>4. (height \in 0..MaxLedger /\ rows \subseteq Rows /\ call \in Requests => IInv)'
        BY Fresh, PTL
      <3> QED  BY <3>2, <3>3, <3>4
    <2>11. CASE UNCHANGED vars
      <3>1. height' \in height..MaxLedger /\ rows' \subseteq Rows /\ call' = call
        BY <2>1, <2>11 DEF vars
      <3> QED  BY <3>1, Unheard
    <2>12. CASE Restart
      <3>1. /\ call.step = "thrown" /\ UNCHANGED <<height, rows>>
            /\ call' = [call EXCEPT !.step = "gone"]
        BY <2>12 DEF Restart
      <3>2. call' \in Calls
        BY <2>1, <3>1 DEF Calls, Steps
      <3>3. call' = [call EXCEPT !.local = call.local, !.step = "gone"]
        BY <2>1, <3>1 DEF Calls
      <3> QED  BY <3>1, <3>2, <3>3, Untouched
    <2> QED  BY <2>2, <2>3, <2>4, <2>5, <2>6, <2>7, <2>8, <2>9, <2>10, <2>11, <2>12
          DEF Next, Pager
  <1> QED  BY <1>1, <1>2, PTL DEF Spec

\* The state of the pager: what it keeps in the options of the request between
\* its rounds is of its type.
THEOREM TypeCorrect == Spec => []TypeOK
  <1>1. IInv => TypeOK
    BY DEF IInv
  <1> QED  BY <1>1, Invariance, PTL

\* mergeAndTruncateResults: nothing is kept of a page while transactions are
\* still to be skipped, and never more than a page.
THEOREM NothingKeptTooSoon == Spec => []NothingKeptBeforeOffset
  <1>1. IInv => NothingKeptBeforeOffset
    BY DEF IInv
  <1> QED  BY <1>1, Invariance, PTL

\* The recursion of getAccountTransactions: when it ends, previous_transactions
\* is the page of the account's history at one moment of the request, for every
\* history, limit of the remote, page and size, and whatever happens between
\* the rounds.
THEOREM PagerGivesPage == Spec => []PageIsSlice
  <1>1. IInv => PageIsSlice
    <2> SUFFICES ASSUME IInv, call.step = "dating" PROVE PageIsSlice
      BY DEF PageIsSlice
    <2>1. call \in Calls /\ Finished
      BY DEF IInv, TypeOK, PagerInv
    <2>2. PICK top \in Tops, f \in Lists :
             /\ Ordered(f, call.earliest) /\ ToSet(f) = Given(top, call) /\ Kept(f, call)
      BY <2>1 DEF Finished
    <2>3. call.marker = None \/ Len(call.list) >= call.per
      BY <2>1 DEF Finished
    <2>4. ToSet(call.list) = PageOf(top, call) /\ Ordered(call.list, call.earliest)
      BY <2>1, <2>2, <2>3, PageKept
    <2> QED  BY <2>2, <2>4 DEF PageIsSlice, Tops, Ordered
  <1> QED  BY <1>1, Invariance, PTL

\* attachDate, attachResourceId: the answer holds the payments of that page, each
\* once, by ledger and the oldest first, and those of one ledger in the order
\* asked for.
THEOREM AnswerHoldsPage == Spec => []AnswerIsPage
  <1>1. IInv => AnswerIsPage
    BY DEF IInv
  <1> QED  BY <1>1, Invariance, PTL
=============================================================================
