--------------------------- MODULE TxStoreProofs ---------------------------
(***************************************************************************)
(* Proofs about TxStore, for every set of saves, identifiers and owners:   *)
(* the lock of saveTransaction excludes, its waiting saves always have     *)
(* somebody to wake them, what a select decided is still right when the    *)
(* write comes, a row keeps its owner, and the whole implements the        *)
(* atomic, ordered saves of AtomicStore.                                   *)
(***************************************************************************)
EXTENDS TxStore, SequenceTheorems, TLAPS

\* The listeners of an identifier are distinct saves of that identifier that
\* wait.  This is what makes the invariant inductive: the listener that gets
\* the lock leaves none of the others in flight.
ListenersWait ==
    \A i \in Ids :
       /\ \A k \in 1..Len(waiters[i]) :
             /\ ClientId[waiters[i][k]] = i
             /\ stage[waiters[i][k]] = "waiting"
       /\ \A j, k \in 1..Len(waiters[i]) :
             waiters[i][j] = waiters[i][k] => j = k

LockInv == TypeOK /\ MutualExclusion /\ ListenersWait

IInv == LockInv /\ DecisionFresh

LEMMA InitLock == Init => LockInv
  BY StoreAssumption
     DEF Init, LockInv, TypeOK, MutualExclusion, ListenersWait, Active, Stages,
         InFlight

\* What the 'finally' handler of a save in flight does to the lock and its
\* listeners: the lock is handed on to the first listener, or released.
LEMMA UnlockLock ==
  ASSUME LockInv, NEW s \in Saves, stage[s] \in InFlight, Unlock(s),
         rows' \in [Ids -> Saves \cup {NoRow}]
  PROVE  LockInv'
  <1> DEFINE i == ClientId[s]
  <1>0. i \in Ids
    BY StoreAssumption
  <1>1. TypeOK /\ MutualExclusion /\ ListenersWait
    BY DEF LockInv
  <1>2. waiters[i] \in Seq(Saves)
    BY <1>0, <1>1 DEF TypeOK
  <1>3. CASE waiters[i] = <<>>
    <2>1. /\ lock' = lock \ {i}
          /\ stage' = [stage EXCEPT ![s] = "idle"]
          /\ waiters' = waiters
      BY <1>3 DEF Unlock
    <2>2. TypeOK'
      BY <2>1, <1>0, <1>1 DEF TypeOK, Stages
    <2>3. MutualExclusion'
      BY <2>1, <1>0, <1>1, <1>3, StoreAssumption
         DEF MutualExclusion, TypeOK, Active, InFlight
    <2>4. ListenersWait'
      BY <2>1, <1>0, <1>1, <1>3, StoreAssumption
         DEF ListenersWait, TypeOK, InFlight
    <2>5. QED
      BY <2>2, <2>3, <2>4 DEF LockInv
  <1>4. CASE waiters[i] # <<>>
    <2> DEFINE w == Head(waiters[i])
    <2>1. /\ lock' = lock
          /\ waiters' = [waiters EXCEPT ![i] = Tail(@)]
          /\ stage' = [stage EXCEPT ![s] = "idle", ![w] = "selecting"]
      BY <1>4 DEF Unlock
    <2>2. /\ Tail(waiters[i]) \in Seq(Saves)
          /\ Len(Tail(waiters[i])) = Len(waiters[i]) - 1
          /\ Len(waiters[i]) \in Nat \ {0}
          /\ \A k \in 1..Len(Tail(waiters[i])) :
                Tail(waiters[i])[k] = waiters[i][k + 1]
          /\ w \in Saves /\ w = waiters[i][1]
      BY <1>2, <1>4, HeadTailProperties, EmptySeq
    <2>3. ClientId[w] = i /\ stage[w] = "waiting" /\ w # s
      BY <2>2, <1>0, <1>1 DEF ListenersWait, InFlight
    <2>4. TypeOK'
      BY <2>1, <2>2, <1>0, <1>1 DEF TypeOK, Stages, InFlight
    <2>5. MutualExclusion'
      <3>1. \A t \in Saves : stage'[t] \in InFlight
               <=> t = w \/ (t # s /\ stage[t] \in InFlight)
        BY <2>1, <2>2, <2>3, <1>1 DEF TypeOK, InFlight
      <3>2. \A t, u \in Saves :
               stage'[t] \in InFlight /\ stage'[u] \in InFlight /\ t # u
                  => ClientId[t] # ClientId[u]
        BY <3>1, <2>2, <2>3, <1>1 DEF MutualExclusion
      <3>3. \A j \in Ids : j \in lock' <=> Active(j)' # {}
        <4>1. i \in lock' /\ w \in Active(i)'
          BY <3>1, <2>1, <2>2, <2>3, <1>0, <1>1, <1>4
             DEF MutualExclusion, Active
        <4>2. ASSUME NEW j \in Ids, j # i
              PROVE  Active(j)' = Active(j)
          BY <4>2, <3>1, <2>2, <2>3 DEF Active
        <4>3. QED
          BY <4>1, <4>2, <2>1, <1>1 DEF MutualExclusion
      <3>4. \A j \in Ids : waiters'[j] # <<>> => j \in lock'
        BY <2>1, <1>0, <1>1, <1>4 DEF MutualExclusion, TypeOK
      <3>5. QED
        BY <3>2, <3>3, <3>4 DEF MutualExclusion
    <2>6. ListenersWait'
      <3> SUFFICES ASSUME NEW j \in Ids
                   PROVE  /\ \A k \in 1..Len(waiters'[j]) :
                                /\ ClientId[waiters'[j][k]] = j
                                /\ stage'[waiters'[j][k]] = "waiting"
                          /\ \A l, k \in 1..Len(waiters'[j]) :
                                waiters'[j][l] = waiters'[j][k] => l = k
        BY DEF ListenersWait
      <3>1. CASE j = i
        BY <3>1, <2>1, <2>2, <2>3, <1>0, <1>1
           DEF ListenersWait, TypeOK, InFlight
      <3>2. CASE j # i
        BY <3>2, <2>1, <2>2, <2>3, <1>0, <1>1
           DEF ListenersWait, TypeOK, InFlight
      <3>3. QED
        BY <3>1, <3>2
    <2>7. QED
      BY <2>4, <2>5, <2>6 DEF LockInv
  <1>5. QED
    BY <1>3, <1>4

LEMMA NextLock == LockInv /\ [Next]_vars => LockInv'
  <1> SUFFICES ASSUME LockInv, [Next]_vars
               PROVE  LockInv'
    OBVIOUS
  <1>0. TypeOK /\ MutualExclusion /\ ListenersWait
    BY DEF LockInv
  <1>1. ASSUME NEW s \in Saves, Wait(s)
        PROVE  LockInv'
    <2> DEFINE i == ClientId[s]
    <2>1. i \in Ids /\ waiters[i] \in Seq(Saves)
      BY <1>0, StoreAssumption DEF TypeOK
    <2>2. /\ waiters' = [waiters EXCEPT ![i] = Append(@, s)]
          /\ stage' = [stage EXCEPT ![s] = "waiting"]
          /\ stage[s] = "idle" /\ i \in lock
          /\ lock' = lock /\ rows' = rows
      BY <1>1 DEF Wait
    <2>3. /\ Append(waiters[i], s) \in Seq(Saves)
          /\ Len(Append(waiters[i], s)) = Len(waiters[i]) + 1
          /\ Len(waiters[i]) \in Nat
          /\ \A k \in 1..Len(waiters[i]) :
                Append(waiters[i], s)[k] = waiters[i][k]
          /\ Append(waiters[i], s)[Len(waiters[i]) + 1] = s
      BY <2>1, AppendProperties, LenProperties
    <2>4. TypeOK'
      BY <2>1, <2>2, <2>3, <1>0 DEF TypeOK, Stages
    <2>5. MutualExclusion'
      BY <2>1, <2>2, <1>0 DEF MutualExclusion, TypeOK, Active, InFlight
    <2>6. ListenersWait'
      <3> SUFFICES ASSUME NEW j \in Ids
                   PROVE  /\ \A k \in 1..Len(waiters'[j]) :
                                /\ ClientId[waiters'[j][k]] = j
                                /\ stage'[waiters'[j][k]] = "waiting"
                          /\ \A l, k \in 1..Len(waiters'[j]) :
                                waiters'[j][l] = waiters'[j][k] => l = k
        BY DEF ListenersWait
      <3>1. CASE j = i
        BY <3>1, <2>1, <2>2, <2>3, <1>0 DEF ListenersWait, TypeOK
      <3>2. CASE j # i
        BY <3>2, <2>1, <2>2, <1>0 DEF ListenersWait, TypeOK
      <3>3. QED
        BY <3>1, <3>2
    <2>7. QED
      BY <2>4, <2>5, <2>6 DEF LockInv
  <1>2. ASSUME NEW s \in Saves, Acquire(s)
        PROVE  LockInv'
    <2>1. TypeOK'
      BY <1>0, <1>2, StoreAssumption DEF Acquire, TypeOK, Stages, InFlight
    <2>2. MutualExclusion'
      BY <1>0, <1>2, StoreAssumption
         DEF Acquire, MutualExclusion, TypeOK, Active, InFlight
    <2>3. ListenersWait'
      BY <1>0, <1>2, StoreAssumption
         DEF Acquire, ListenersWait, TypeOK
    <2>4. QED
      BY <2>1, <2>2, <2>3 DEF LockInv
  <1>3. ASSUME NEW s \in Saves, Select(s)
        PROVE  LockInv'
    <2>1. /\ TypeOK' /\ lock' = lock /\ waiters' = waiters
          /\ \A t \in Saves : /\ stage'[t] \in InFlight <=> stage[t] \in InFlight
                              /\ stage[t] = "waiting" => stage'[t] = "waiting"
      BY <1>0, <1>3 DEF Select, TypeOK, Stages, InFlight
    <2>2. MutualExclusion'
      BY <1>0, <2>1 DEF MutualExclusion, Active
    <2>3. ListenersWait'
      BY <1>0, <2>1, ElementOfSeq DEF ListenersWait, TypeOK
    <2>4. QED
      BY <2>1, <2>2, <2>3 DEF LockInv
  <1>4. ASSUME NEW s \in Saves, Update(s) \/ Insert(s) \/ QueryError(s)
        PROVE  LockInv'
    <2>1. stage[s] \in InFlight /\ Unlock(s)
      BY <1>4 DEF Update, Insert, QueryError, InFlight
    <2>2. rows' \in [Ids -> Saves \cup {NoRow}]
      BY <1>0, <1>4 DEF Update, Insert, QueryError, TypeOK
    <2>3. QED
      BY <2>1, <2>2, UnlockLock
  <1>5. CASE Crash
    BY <1>0, <1>5, StoreAssumption
       DEF Crash, LockInv, TypeOK, MutualExclusion, ListenersWait, Active,
           Stages, InFlight
  <1>6. CASE UNCHANGED vars
    BY <1>0, <1>6
       DEF vars, LockInv, TypeOK, MutualExclusion, ListenersWait, Active
  <1>7. QED
    BY <1>1, <1>2, <1>3, <1>4, <1>5, <1>6 DEF Next, Call, Answer

LEMMA UnlockFlight ==
  ASSUME LockInv, NEW s \in Saves, stage[s] \in InFlight, Unlock(s)
  PROVE  \A t \in Saves :
            /\ stage'[t] \in {"updating", "inserting"}
                  => t # s /\ stage'[t] = stage[t]
            /\ stage[t] \in {"updating", "inserting"} /\ t # s
                  => ClientId[t] # ClientId[s]
  BY EmptySeq, HeadTailProperties, StoreAssumption
     DEF Unlock, LockInv, TypeOK, MutualExclusion, InFlight

\* The decision of a select survives until its write: only a save of the same
\* client_resource_id can change the row, and none of them is in flight.
LEMMA NextFresh == IInv /\ [Next]_vars => DecisionFresh'
  <1> SUFFICES ASSUME IInv, [Next]_vars, NEW t \in Saves
               PROVE  /\ stage'[t] = "updating" => Matches(t)'
                      /\ stage'[t] = "inserting" => ~Matches(t)'
    BY DEF DecisionFresh
  <1>0. LockInv /\ DecisionFresh /\ TypeOK
    BY DEF IInv, LockInv
  <1>1. ASSUME NEW s \in Saves, Call(s)
        PROVE  /\ stage'[t] = "updating" => Matches(t)'
               /\ stage'[t] = "inserting" => ~Matches(t)'
    BY <1>0, <1>1 DEF Call, Wait, Acquire, DecisionFresh, Matches, TypeOK
  <1>2. ASSUME NEW s \in Saves, Select(s)
        PROVE  /\ stage'[t] = "updating" => Matches(t)'
               /\ stage'[t] = "inserting" => ~Matches(t)'
    BY <1>0, <1>2 DEF Select, DecisionFresh, Matches, TypeOK
  <1>3. ASSUME NEW s \in Saves, Update(s) \/ Insert(s) \/ QueryError(s)
        PROVE  /\ stage'[t] = "updating" => Matches(t)'
               /\ stage'[t] = "inserting" => ~Matches(t)'
    <2>1. stage[s] \in InFlight /\ Unlock(s)
      BY <1>3 DEF Update, Insert, QueryError, InFlight
    <2>2. \A i \in Ids : i # ClientId[s] => rows'[i] = rows[i]
      BY <1>0, <1>3 DEF Update, Insert, QueryError, TypeOK
    <2>3. stage'[t] \in {"updating", "inserting"}
             => /\ stage'[t] = stage[t]
                /\ ClientId[t] # ClientId[s]
                /\ ClientId[t] \in Ids
      BY <1>0, <2>1, UnlockFlight, StoreAssumption
    <2>4. QED
      BY <1>0, <2>2, <2>3 DEF DecisionFresh, Matches
  <1>4. CASE Crash
    BY <1>4 DEF Crash
  <1>5. CASE UNCHANGED vars
    BY <1>0, <1>5 DEF vars, DecisionFresh, Matches
  <1>6. QED
    BY <1>1, <1>2, <1>3, <1>4, <1>5 DEF Next, Answer

\* The inductive invariant holds in every state TxStore can reach.
THEOREM Invariance == SafeSpec => []IInv
  <1>1. Init => IInv
    BY InitLock DEF IInv, Init, DecisionFresh
  <1>2. IInv /\ [Next]_vars => IInv'
    BY NextLock, NextFresh DEF IInv
  <1>3. QED
    BY <1>1, <1>2, PTL DEF SafeSpec

\* saveTransaction keeps its lock table, listeners and rows well typed.
THEOREM TypeCorrect == SafeSpec => []TypeOK
  <1>1. IInv => TypeOK
    BY DEF IInv, LockInv
  <1>2. QED
    BY <1>1, Invariance, PTL

\* The lock of saveTransaction: one save in flight per client_resource_id, the
\* lock set exactly while there is one, nobody waiting for a free lock.
THEOREM LockSafe == SafeSpec => []MutualExclusion
  <1>1. IInv => MutualExclusion
    BY DEF IInv, LockInv
  <1>2. QED
    BY <1>1, Invariance, PTL

\* The update or insert that saveTransaction chose is still the right one when
\* the database executes it.
THEOREM DecisionsStayFresh == SafeSpec => []DecisionFresh
  <1>1. IInv => DecisionFresh
    BY DEF IInv
  <1>2. QED
    BY <1>1, Invariance, PTL

\* No sequence of saves, errors and crashes removes a row or gives it to
\* another account or transaction type.
THEOREM OwnersStay == SafeSpec => RowKeepsOwner
  <1>1. IInv /\ [Next]_vars =>
           [\A i \in Ids : rows[i] # NoRow =>
              rows'[i] # NoRow /\ Owner[rows'[i]] = Owner[rows[i]]]_vars
    <2> SUFFICES ASSUME IInv, Next, NEW i \in Ids, rows[i] # NoRow
                 PROVE  rows'[i] # NoRow /\ Owner[rows'[i]] = Owner[rows[i]]
      OBVIOUS
    <2>0. TypeOK
      BY DEF IInv, LockInv
    <2>1. ASSUME NEW s \in Saves, Update(s) \/ Insert(s)
          PROVE  rows'[i] # NoRow /\ Owner[rows'[i]] = Owner[rows[i]]
      BY <2>0, <2>1, StoreAssumption DEF Update, Insert, Matches, TypeOK
    <2>2. QED
      BY <2>1 DEF Next, Call, Wait, Acquire, Answer, Select, QueryError, Crash
  <1>2. QED
    BY <1>1, Invariance, PTL DEF SafeSpec, RowKeepsOwner

-----------------------------------------------------------------------------
(* The refinement.  The queue of AtomicStore is the save that holds the lock
   followed by the listeners; a save joins it when it is called and leaves it
   when its update, insert or error is answered; a select is a stutter.     *)

\* The queue of an identifier, told by the save in flight for it.
TodoShape ==
    \A i \in Ids :
       /\ Active(i) = {} => TodoOf(i) = <<>>
       /\ \A s \in Active(i) : TodoOf(i) = <<s>> \o waiters[i]

LEMMA HolderLeads == LockInv => TodoShape
  <1> SUFFICES ASSUME LockInv, NEW i \in Ids
               PROVE  /\ Active(i) = {} => TodoOf(i) = <<>>
                      /\ \A s \in Active(i) : TodoOf(i) = <<s>> \o waiters[i]
    BY DEF TodoShape
  <1>1. \A s, t \in Active(i) : s = t
    BY DEF LockInv, MutualExclusion, Active
  <1>2. ASSUME NEW s \in Active(i)
        PROVE  TodoOf(i) = <<s>> \o waiters[i]
    <2>1. (CHOOSE t \in Active(i) : TRUE) = s
      BY <1>1
    <2>2. QED
      BY <2>1 DEF TodoOf
  <1>3. QED
    BY <1>2 DEF TodoOf

LEMMA HolderLeadsNext == LockInv' => TodoShape'
  BY HolderLeads, PTL

\* A queue with a new first element, and one without its first element.
LEMMA PushPop ==
  ASSUME NEW S, NEW q \in Seq(S), NEW e \in S
  PROVE  /\ <<e>> \o q # <<>>
         /\ Head(<<e>> \o q) = e
         /\ Tail(<<e>> \o q) = q
         /\ \A f \in S : Append(<<e>> \o q, f) = <<e>> \o Append(q, f)
         /\ q # <<>> => <<Head(q)>> \o Tail(q) = q
  <1>1. <<e>> \in Seq(S) /\ Len(<<e>>) = 1 /\ <<e>>[1] = e
    OBVIOUS
  <1>2. /\ <<e>> \o q \in Seq(S)
        /\ Len(<<e>> \o q) = Len(q) + 1
        /\ \A k \in 1..Len(q) + 1 :
              (<<e>> \o q)[k] = IF k <= 1 THEN e ELSE q[k - 1]
        /\ Len(q) \in Nat
    BY <1>1, ConcatProperties, LenProperties
  <1>3. <<e>> \o q # <<>>
    BY <1>2, EmptySeq
  <1>4. Head(<<e>> \o q) = e
    BY <1>2, <1>3
  <1>5. Tail(<<e>> \o q) = q
    <2>1. /\ Tail(<<e>> \o q) \in Seq(S)
          /\ Len(Tail(<<e>> \o q)) = Len(q)
          /\ \A k \in 1..Len(q) : Tail(<<e>> \o q)[k] = q[k]
      BY <1>2, <1>3, HeadTailProperties
    <2>2. QED
      BY <2>1, SeqEqual
  <1>6. ASSUME NEW f \in S
        PROVE  Append(<<e>> \o q, f) = <<e>> \o Append(q, f)
    <2>1. Append(<<e>> \o q, f) = (<<e>> \o q) \o <<f>>
      BY <1>2, AppendIsConcat
    <2>2. Append(q, f) = q \o <<f>>
      BY AppendIsConcat
    <2>3. <<f>> \in Seq(S)
      OBVIOUS
    <2>4. QED
      BY <1>1, <2>1, <2>2, <2>3, ConcatAssociative
  <1>7. ASSUME q # <<>>
        PROVE  <<Head(q)>> \o Tail(q) = q
    <2>1. /\ Head(q) \in S /\ Head(q) = q[1]
          /\ Tail(q) \in Seq(S)
          /\ Len(Tail(q)) = Len(q) - 1
          /\ \A k \in 1..Len(Tail(q)) : Tail(q)[k] = q[k + 1]
          /\ Len(q) \in Nat \ {0}
      BY <1>7, HeadTailProperties, EmptySeq
    <2>2. /\ <<Head(q)>> \in Seq(S)
          /\ Len(<<Head(q)>>) = 1
          /\ <<Head(q)>>[1] = q[1]
      BY <2>1
    <2>3. /\ <<Head(q)>> \o Tail(q) \in Seq(S)
          /\ Len(<<Head(q)>> \o Tail(q)) = Len(q)
          /\ \A k \in 1..Len(q) : (<<Head(q)>> \o Tail(q))[k] = q[k]
      BY <2>1, <2>2, ConcatProperties
    <2>4. QED
      BY <2>3, SeqEqual
  <1>8. QED
    BY <1>3, <1>4, <1>5, <1>6, <1>7

\* A call of saveTransaction puts the save at the end of its queue.
LEMMA CallRefines ==
  ASSUME LockInv, LockInv', NEW s \in Saves, Call(s)
  PROVE  Store!Call(s)
  <1> DEFINE i == ClientId[s]
  <1>0. TypeOK /\ MutualExclusion /\ TodoShape /\ TodoShape'
    BY HolderLeads, HolderLeadsNext DEF LockInv
  <1>1. i \in Ids /\ waiters[i] \in Seq(Saves) /\ rows' = rows
    BY <1>0, StoreAssumption DEF TypeOK, Call, Wait, Acquire
  <1>2. ASSUME NEW j \in Ids, j # i
        PROVE  TodoOf(j)' = TodoOf(j)
    <2>1. Active(j)' = Active(j) /\ waiters'[j] = waiters[j]
      BY <1>0, <1>2, StoreAssumption
         DEF Call, Wait, Acquire, Active, InFlight, TypeOK
    <2>2. QED
      BY <2>1 DEF TodoOf
  <1>3. TodoOf(i)' = Append(TodoOf(i), s)
    <2>1. CASE Wait(s)
      <3>1. PICK h \in Active(i) : TRUE
        BY <2>1, <1>0, <1>1 DEF Wait, MutualExclusion
      <3>2. h \in Saves /\ h \in Active(i)'
        BY <2>1, <3>1, <1>0 DEF Wait, Active, TypeOK, InFlight
      <3>3. /\ TodoOf(i) = <<h>> \o waiters[i]
            /\ TodoOf(i)' = <<h>> \o waiters'[i]
        BY <3>1, <3>2, <1>0, <1>1 DEF TodoShape
      <3>4. waiters'[i] = Append(waiters[i], s)
        BY <2>1, <1>0, <1>1 DEF Wait, TypeOK
      <3>5. QED
        BY <3>2, <3>3, <3>4, <1>1, PushPop
    <2>2. CASE Acquire(s)
      <3>1. Active(i) = {} /\ waiters[i] = <<>> /\ waiters'[i] = <<>>
        BY <2>2, <1>0, <1>1 DEF Acquire, MutualExclusion
      <3>2. s \in Active(i)'
        BY <2>2, <1>0 DEF Acquire, Active, TypeOK, InFlight
      <3>3. TodoOf(i) = <<>> /\ TodoOf(i)' = <<s>> \o <<>>
        BY <3>1, <3>2, <1>0, <1>1 DEF TodoShape
      <3>4. <<s>> \o <<>> = <<s>> /\ Append(<<>>, s) = <<s>>
        OBVIOUS
      <3>5. QED
        BY <3>3, <3>4
    <2>3. QED
      BY <2>1, <2>2 DEF Call
  <1>4. [j \in Ids |-> TodoOf(j)'] =
           [[j \in Ids |-> TodoOf(j)] EXCEPT ![i] = Append(@, s)]
    BY <1>1, <1>2, <1>3
  <1>5. QED
    BY <1>1, <1>4 DEF Store!Call, Store!Requested

\* The end of a save takes it, the head, off its queue.
LEMMA UnlockPops ==
  ASSUME LockInv, LockInv', NEW s \in Saves, stage[s] \in InFlight, Unlock(s)
  PROVE  /\ ClientId[s] \in Ids
         /\ TodoOf(ClientId[s]) # <<>>
         /\ Head(TodoOf(ClientId[s])) = s
         /\ [j \in Ids |-> TodoOf(j)'] =
               [[j \in Ids |-> TodoOf(j)] EXCEPT ![ClientId[s]] = Tail(@)]
  <1> DEFINE i == ClientId[s]
             q == waiters[i]
  <1>0. /\ TypeOK /\ MutualExclusion /\ ListenersWait
        /\ TodoShape /\ TodoShape' /\ MutualExclusion'
    BY HolderLeads, HolderLeadsNext DEF LockInv
  <1>1. i \in Ids /\ q \in Seq(Saves) /\ s \in Active(i)
    BY <1>0, StoreAssumption DEF TypeOK, Active
  <1>2. TodoOf(i) = <<s>> \o q
    BY <1>0, <1>1 DEF TodoShape
  <1>3. TodoOf(i)' = q
    <2>1. CASE q = <<>>
      <3>1. lock' = lock \ {i}
        BY <2>1 DEF Unlock
      <3>2. Active(i)' = {}
        BY <3>1, <1>0, <1>1 DEF MutualExclusion
      <3>3. QED
        BY <3>2, <2>1, <1>0, <1>1 DEF TodoShape
    <2>2. CASE q # <<>>
      <3>1. /\ waiters'[i] = Tail(q)
            /\ stage' = [stage EXCEPT ![s] = "idle", ![Head(q)] = "selecting"]
        BY <2>2, <1>0, <1>1 DEF Unlock, TypeOK
      <3>2. Head(q) \in Saves /\ ClientId[Head(q)] = i
        BY <2>2, <1>0, <1>1, EmptySeq, HeadTailProperties DEF ListenersWait
      <3>3. Head(q) \in Active(i)'
        BY <3>1, <3>2, <1>0 DEF Active, TypeOK, InFlight
      <3>4. TodoOf(i)' = <<Head(q)>> \o Tail(q)
        BY <3>1, <3>3, <1>0, <1>1 DEF TodoShape
      <3>5. QED
        BY <3>4, <2>2, <1>1, PushPop
    <2>3. QED
      BY <2>1, <2>2
  <1>4. ASSUME NEW j \in Ids, j # i
        PROVE  TodoOf(j)' = TodoOf(j)
    <2>1. waiters'[j] = waiters[j]
      BY <1>0, <1>1, <1>4 DEF Unlock, TypeOK
    <2>2. q # <<>> => Head(q) \in Saves /\ ClientId[Head(q)] = i
      BY <1>0, <1>1, EmptySeq, HeadTailProperties DEF ListenersWait
    <2>3. Active(j)' = Active(j)
      BY <2>2, <1>0, <1>1, <1>4 DEF Unlock, Active, TypeOK, InFlight
    <2>4. QED
      BY <2>1, <2>3 DEF TodoOf
  <1>5. TodoOf(i) # <<>> /\ Head(TodoOf(i)) = s /\ Tail(TodoOf(i)) = q
    BY <1>1, <1>2, PushPop
  <1>6. QED
    BY <1>1, <1>3, <1>4, <1>5

LEMMA StepRefines ==
  IInv /\ IInv' /\ [Next]_vars => [Store!Next]_(Store!vars)
  <1> SUFFICES ASSUME IInv, IInv', [Next]_vars
               PROVE  [Store!Next]_(Store!vars)
    OBVIOUS
  <1>0. /\ LockInv /\ LockInv' /\ DecisionFresh /\ TypeOK
        /\ TodoShape /\ TodoShape'
    BY HolderLeads, HolderLeadsNext DEF IInv, LockInv
  <1>1. ASSUME NEW s \in Saves, Call(s)
        PROVE  Store!Next
    BY <1>0, <1>1, CallRefines DEF Store!Next
  <1>2. ASSUME NEW s \in Saves, Select(s)
        PROVE  UNCHANGED Store!vars
    <2>1. \A i \in Ids : Active(i)' = Active(i)
      BY <1>0, <1>2 DEF Select, Active, TypeOK, InFlight
    <2>2. waiters' = waiters /\ rows' = rows
      BY <1>2 DEF Select
    <2>3. ASSUME NEW i \in Ids
          PROVE  TodoOf(i)' = TodoOf(i)
      <3>1. Active(i)' = Active(i) /\ waiters'[i] = waiters[i]
        BY <2>1, <2>2
      <3>2. QED
        BY <3>1 DEF TodoOf
    <2>4. QED
      BY <2>2, <2>3 DEF Store!vars
  <1>3. ASSUME NEW s \in Saves, Update(s) \/ Insert(s) \/ QueryError(s)
        PROVE  Store!Next
    <2> DEFINE i == ClientId[s]
    <2>1. stage[s] \in InFlight /\ Unlock(s)
      BY <1>3 DEF Update, Insert, QueryError, InFlight
    <2>2. /\ i \in Ids
          /\ TodoOf(i) # <<>>
          /\ Head(TodoOf(i)) = s
          /\ [j \in Ids |-> TodoOf(j)'] =
                [[j \in Ids |-> TodoOf(j)] EXCEPT ![i] = Tail(@)]
      BY <1>0, <2>1, UnlockPops
    <2>3. CASE rows' = rows
      <3>1. Store!Drop(i)
        BY <2>2, <2>3 DEF Store!Drop
      <3>2. QED
        BY <2>2, <3>1 DEF Store!Next
    <2>4. CASE rows' # rows
      <3>1. /\ rows' = [rows EXCEPT ![i] = s]
            /\ rows[i] = NoRow \/ Owner[rows[i]] = Owner[s]
        BY <1>3, <2>4 DEF Update, Insert, QueryError, Matches
      <3>2. Store!Apply(i)
        BY <2>2, <3>1 DEF Store!Apply, Store!Accepts
      <3>3. QED
        BY <2>2, <3>2 DEF Store!Next
    <2>5. QED
      BY <2>3, <2>4
  <1>4. CASE Crash
    <2>1. \A i \in Ids : Active(i)' = {}
      BY <1>4 DEF Crash, Active, InFlight
    <2>2. \A i \in Ids : TodoOf(i)' = <<>>
      BY <1>0, <2>1 DEF TodoShape
    <2>3. Store!Crash
      BY <1>4, <2>2 DEF Crash, Store!Crash
    <2>4. QED
      BY <2>3 DEF Store!Next
  <1>5. CASE UNCHANGED vars
    <2>1. \A i \in Ids : Active(i)' = Active(i)
      BY <1>5 DEF vars, Active
    <2>2. ASSUME NEW i \in Ids
          PROVE  TodoOf(i)' = TodoOf(i)
      <3>1. Active(i)' = Active(i) /\ waiters'[i] = waiters[i]
        BY <1>5, <2>1 DEF vars
      <3>2. QED
        BY <3>1 DEF TodoOf
    <2>3. QED
      BY <1>5, <2>2 DEF vars, Store!vars
  <1>6. QED
    BY <1>1, <1>2, <1>3, <1>4, <1>5 DEF Next, Answer

\* saveTransaction implements AtomicStore: with two queries per save, a lock
\* and a queue of listeners, the saves of one client_resource_id still take
\* effect one at a time, at one instant, in the order of the calls.
THEOREM SavesAreAtomic == SafeSpec => Store!SafeSpec
  <1>1. Init => Store!Init
    <2> SUFFICES ASSUME Init
                 PROVE  Store!Init
      OBVIOUS
    <2>1. \A i \in Ids : Active(i) = {}
      BY DEF Init, Active, InFlight
    <2>2. \A i \in Ids : TodoOf(i) = <<>>
      BY <2>1 DEF TodoOf
    <2>3. QED
      BY <2>2 DEF Init, Store!Init
  <1>2. QED
    BY <1>1, StepRefines, Invariance, PTL DEF SafeSpec, Store!SafeSpec
=============================================================================
