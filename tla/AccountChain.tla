---------------------------- MODULE AccountChain ----------------------------
(***************************************************************************)
(* The history of one account as the remote has it, and the helpers that   *)
(* AccountHistory and Notifications share: what account_tx gives, the      *)
(* order of lists, Array.slice, and attachDate of api/lib/utils.js.        *)
(***************************************************************************)
EXTENDS Integers, SequencesExt

CONSTANTS
    Chain,      \* the account's transactions in their order in the ledgers
    MaxLedger   \* bound on the number of ledgers that close

\* A transaction of Chain is a payment that succeeded, a payment with another
\* result, or one of another kind.  Its hash is its place in Chain.
Kinds == {"payment", "failed", "other"}

ASSUME ChainAssumption ==
    /\ MaxLedger \in Nat
    /\ Chain \in Seq([ledger : 1..MaxLedger, kind : Kinds])
    /\ \A m, n \in DOMAIN Chain : m < n => Chain[m].ledger <= Chain[n].ledger

\* The account's transactions in the ledgers start..end, when the validated
\* ledgers are 1..top.
HistoryAt(top, start, end) ==
    {n \in DOMAIN Chain : Chain[n].ledger <= top /\ Chain[n].ledger \in start..end}

\* The order of a list: from the earliest on, or from the latest.
Sooner(m, n, earliest) == IF earliest THEN m < n ELSE m > n

\* The place of n among the transactions S, the first ones of them, and the
\* list of them.
Place(n, S, earliest) == Cardinality({m \in S : m = n \/ Sooner(m, n, earliest)})

Firsts(S, size, earliest) == {n \in S : Place(n, S, earliest) <= size}

InOrder(S, earliest) ==
    [k \in 1..Cardinality(S) |-> CHOOSE n \in S : Place(n, S, earliest) = k]

Shorter(s, n) == SubSeq(s, 1, IF Len(s) < n THEN Len(s) ELSE n)

\* The definitions whose names have a suffix after an underscore are faulty
\* variants of the one that follows them.  Here the list is indexed by the
\* ledger, not grouped by it.
ByLedger_Indexed(list) ==
    {FlattenSeq([l \in 1..MaxLedger |->
        Shorter(SelectSeq(list, LAMBDA n : Chain[n].ledger = l), 1)])}

\* The groups are joined in the order in which their ledgers are met, as those of
\* a map would be.
ByLedger_AsMet(list) == {list}

\* attachDate: the list is grouped by ledger.  The ledgers are the keys of an
\* object, which are enumerated from the smallest; in a group the order stays.
\* There is one such list.
ByLedger(list) ==
    LET at(i) == Chain[list[i]].ledger IN
    {[k \in DOMAIN list |-> list[from[k]]] :
        from \in {f \in [DOMAIN list -> DOMAIN list] :
            \A j, k \in DOMAIN list : j < k =>
               \/ at(f[j]) < at(f[k])
               \/ at(f[j]) = at(f[k]) /\ f[j] < f[k]}}
=============================================================================
