------------------------------ MODULE TxStore ------------------------------
(***************************************************************************)
(* DatabaseInterface of api/lib/db-interface.js: saveTransaction with its  *)
(* lock per client_resource_id, its 'unlocked:<id>' listeners and its two  *)
(* queries (a select that decides, then an update or an insert).           *)
(*                                                                         *)
(* One element of Saves is one call of saveTransaction with its snapshot   *)
(* of a transaction.  JavaScript runs the code between two queries in one  *)
(* turn, so every action below is one turn: the call itself, and the       *)
(* answer of one query with all the code that waited for it.  The queries  *)
(* of different identifiers interleave freely.                             *)
(***************************************************************************)
EXTENDS Sequences

CONSTANTS Saves, Ids, ClientId, Owner, NoRow

ASSUME StoreAssumption == ClientId \in [Saves -> Ids] /\ NoRow \notin Saves

VARIABLES
    stage,      \* where each call of saveTransaction is
    lock,       \* the identifiers i with this.lock[i] set
    waiters,    \* per identifier, the once('unlocked:' + i) listeners in order
    rows        \* transaction_history, by its primary key

vars == <<stage, lock, waiters, rows>>

\* A save whose select, update or insert is with the database.
InFlight == {"selecting", "updating", "inserting"}

Stages == {"idle", "waiting"} \cup InFlight

TypeOK ==
    /\ stage \in [Saves -> Stages]
    /\ lock \subseteq Ids
    /\ waiters \in [Ids -> Seq(Saves)]
    /\ rows \in [Ids -> Saves \cup {NoRow}]

-----------------------------------------------------------------------------
\* The constructor's lock = {} and init's createTable on a new file.
Init ==
    /\ stage = [s \in Saves |-> "idle"]
    /\ lock = {}
    /\ waiters = [i \in Ids |-> <<>>]
    /\ rows = [i \in Ids |-> NoRow]

(* The definitions whose names have a suffix after an underscore are faulty variants of the one that
   follows them: each stands for a slip in that code, and a property below
   must notice it.                                                          *)

\* The newest listener is put in front of the others.
Wait_Newest(s) ==
    /\ stage[s] = "idle"
    /\ ClientId[s] \in lock
    /\ waiters' = [waiters EXCEPT ![ClientId[s]] = <<s>> \o @]
    /\ stage' = [stage EXCEPT ![s] = "waiting"]
    /\ UNCHANGED <<lock, rows>>

\* saveTransaction is called while another save has the lock: the call is
\* repeated when that save emits 'unlocked:' + id.
Wait(s) ==
    /\ stage[s] = "idle"
    /\ ClientId[s] \in lock
    /\ waiters' = [waiters EXCEPT ![ClientId[s]] = Append(@, s)]
    /\ stage' = [stage EXCEPT ![s] = "waiting"]
    /\ UNCHANGED <<lock, rows>>

\* The lock is set without a look at it.
Acquire_Unguarded(s) ==
    /\ stage[s] = "idle"
    /\ lock' = lock \cup {ClientId[s]}
    /\ stage' = [stage EXCEPT ![s] = "selecting"]
    /\ UNCHANGED <<waiters, rows>>

\* The lock table is indexed by the snapshot instead of its identifier.
Acquire_WrongKey(s) ==
    /\ stage[s] = "idle"
    /\ ClientId[s] \notin lock
    /\ lock' = lock \cup {s}
    /\ stage' = [stage EXCEPT ![s] = "selecting"]
    /\ UNCHANGED <<waiters, rows>>

\* saveTransaction is called while the lock is free: lock, send the select.
Acquire(s) ==
    /\ stage[s] = "idle"
    /\ ClientId[s] \notin lock
    /\ lock' = lock \cup {ClientId[s]}
    /\ stage' = [stage EXCEPT ![s] = "selecting"]
    /\ UNCHANGED <<waiters, rows>>

\* txQuery names the client_resource_id alone.
Matches_IdOnly(s) == rows[ClientId[s]] # NoRow

\* The row found by the query where(txQuery): same owner, same identifier.
Matches(s) == rows[ClientId[s]] # NoRow /\ Owner[rows[ClientId[s]]] = Owner[s]

\* The lock is released by the select, not by the end of the promise chain.
Select_Unlocks(s) ==
    /\ stage[s] = "selecting"
    /\ stage' = [stage EXCEPT ![s] = IF Matches(s) THEN "updating"
                                                   ELSE "inserting"]
    /\ lock' = lock \ {ClientId[s]}
    /\ UNCHANGED <<waiters, rows>>

\* The select answers: res.length decides between update and insert.
Select(s) ==
    /\ stage[s] = "selecting"
    /\ stage' = [stage EXCEPT ![s] = IF Matches(s) THEN "updating"
                                                   ELSE "inserting"]
    /\ UNCHANGED <<lock, waiters, rows>>

\* The lock is deleted and no event is emitted.
Unlock_Silent(s) ==
    /\ lock' = lock \ {ClientId[s]}
    /\ stage' = [stage EXCEPT ![s] = "idle"]
    /\ UNCHANGED waiters

\* The 'finally' handler of s: it deletes the lock and emits the unlock
\* event.  Its listeners run in order, in the same turn: the first finds no
\* lock and takes it, each of the others finds it taken and registers again
\* behind the one before it.
Unlock(s) ==
    LET i == ClientId[s] IN
    IF waiters[i] = <<>>
    THEN /\ lock' = lock \ {i}
         /\ stage' = [stage EXCEPT ![s] = "idle"]
         /\ UNCHANGED waiters
    ELSE /\ waiters' = [waiters EXCEPT ![i] = Tail(@)]
         /\ stage' = [stage EXCEPT ![s] = "idle",
                                   ![Head(waiters[i])] = "selecting"]
         /\ UNCHANGED lock

\* The update answers.  It writes the rows of where(txQuery), if any.
Update(s) ==
    /\ stage[s] = "updating"
    /\ rows' = IF Matches(s) THEN [rows EXCEPT ![ClientId[s]] = s] ELSE rows
    /\ Unlock(s)

\* The insert answers.  The primary key is client_resource_id alone.
Insert(s) ==
    /\ stage[s] = "inserting"
    /\ rows' = IF rows[ClientId[s]] = NoRow
               THEN [rows EXCEPT ![ClientId[s]] = s] ELSE rows
    /\ Unlock(s)

\* A query is rejected by the database: logged, and the lock is released.
QueryError(s) ==
    /\ stage[s] \in InFlight
    /\ UNCHANGED rows
    /\ Unlock(s)

\* The process ends and starts again on the same database file.
Crash ==
    /\ stage' = [s \in Saves |-> "idle"]
    /\ lock' = {}
    /\ waiters' = [i \in Ids |-> <<>>]
    /\ UNCHANGED rows

Call(s) == Wait(s) \/ Acquire(s)

Answer(s) == Select(s) \/ Update(s) \/ Insert(s) \/ QueryError(s)

Next == (\E s \in Saves : Call(s) \/ Answer(s)) \/ Crash

\* sqlite and knex settle the promise of every query.
Fairness == \A s \in Saves : WF_vars(Answer(s))

SafeSpec == Init /\ [][Next]_vars

Spec == SafeSpec /\ Fairness
-----------------------------------------------------------------------------
Active(i) == {s \in Saves : ClientId[s] = i /\ stage[s] \in InFlight}

\* "Force synchronous per-transaction updates": of the saves with the same
\* client_resource_id at most one is with the database, and the identifier is
\* locked exactly while one is.  No save waits for a lock nobody holds.
MutualExclusion ==
    /\ \A s, t \in Saves :
          stage[s] \in InFlight /\ stage[t] \in InFlight /\ s # t
             => ClientId[s] # ClientId[t]
    /\ \A i \in Ids : i \in lock <=> Active(i) # {}
    /\ \A i \in Ids : waiters[i] # <<>> => i \in lock

\* What the select found still holds when the update or insert decided by it
\* reaches the database: an update finds its row, and an insert meets at most
\* a row of another owner.
DecisionFresh ==
    \A s \in Saves :
       /\ stage[s] = "updating" => Matches(s)
       /\ stage[s] = "inserting" => ~Matches(s)

\* A row is never removed and never passes to another source_account or type.
RowKeepsOwner ==
    [][\A i \in Ids : rows[i] # NoRow =>
          rows'[i] # NoRow /\ Owner[rows'[i]] = Owner[rows[i]]]_vars

\* Every call of saveTransaction comes to an end, waiting ones included
\* (a crash ends them too).
SavesEnd == \A s \in Saves : stage[s] # "idle" ~> stage[s] = "idle"

\* The queue of an identifier in AtomicStore: the save that holds the lock,
\* then the listeners in the order in which they will get it.
TodoOf(i) ==
    IF Active(i) = {} THEN <<>>
    ELSE <<CHOOSE s \in Active(i) : TRUE>> \o waiters[i]

Store == INSTANCE AtomicStore WITH todo <- [i \in Ids |-> TodoOf(i)]

\* saveTransaction implements a store whose saves are atomic and in order.
AtomicSaves == Store!Spec
=============================================================================
