---------------------------- MODULE LookupProofs ----------------------------
(***************************************************************************)
(* Theorems about Lookup, for any payments, lookups and number of          *)
(* submissions: type correctness, and that a validated payment is found.   *)
(*                                                                         *)
(* The lookup trusts the hash of the row, and the remote, which knows only *)
(* one of the payment's hashes.  So the invariant follows the hash from    *)
(* the 'success' event to the row: what is saved as validated has the hash *)
(* that is in the ledger, and no save comes after it.                      *)
(***************************************************************************)
EXTENDS Lookup, SequenceTheorems, TLAPS

IsFinal(row) == row # None /\ row.state = "validated"

\* The transaction of p, its saves and its row agree with the ledger.
HashInv(p) ==
    /\ validated[p] # None => validated[p] <= tx[p].sends
    /\ tx[p].state = "validated" =>
          validated[p] # None /\ tx[p].result = validated[p]
    /\ \A i \in DOMAIN saves[p] : saves[p][i].state = "validated" =>
          /\ validated[p] = saves[p][i].hash
          /\ i = Len(saves[p]) /\ ~Live(p)
    /\ IsFinal(rows[p]) =>
          validated[p] = rows[p].hash /\ saves[p] = <<>> /\ ~Live(p)

IInv == TypeOK /\ \A p \in Payments : HashInv(p)

\* The types of the payment's part of the state.
StoreType ==
    /\ tx \in [Payments -> Object]
    /\ saves \in [Payments -> Seq(Rows)]
    /\ rows \in [Payments -> Rows \cup {None}]
    /\ validated \in [Payments -> Sends \cup {None}]

\* The types of a lookup.
LookType(h) ==
    /\ h \in Handlers
    /\ h.reply # None <=> h.at = "over"
    /\ h.at \in {"remote", "ledger"} => h.hash # None

-----------------------------------------------------------------------------
(* The payment.                                                             *)

\* A lookup by client_resource_id that has found, or will find, the final row
\* of its payment.
Found(l) ==
    LET h == look[l]
        row == rows[h.of]
    IN
    /\ IsFinal(row)
    /\ h.at \in {"table", "remote", "ledger", "over", "gone"}
    /\ h.at = "table" => h.by = None
    /\ h.at = "remote" => h.hash = row.hash
    /\ h.reply \in {None, "validated", "noLedger", "error"}

LEMMA Between ==
    ASSUME NEW a \in Nat, NEW b \in Nat, NEW c \in Nat, a <= b, c >= b
    PROVE  a <= c
  OBVIOUS

\* A live transaction that becomes t, when its result is that of the ledger if
\* it is validated, keeps the hashes in agreement.
LEMMA BecomeStep ==
    ASSUME IInv, NEW p \in Payments, NEW t \in Object, Live(p), Become(p, t),
           UNCHANGED <<rows, validated, look>>, t.sends >= tx[p].sends,
           t.sends > 0 \/ t.state # "validated",
           t.state = "validated" =>
              validated[p] # None /\ t.result = validated[p]
    PROVE  IInv'
  <1>1. /\ StoreType /\ HashInv(p) /\ tx[p] \in Object /\ saves[p] \in Seq(Rows)
        /\ look \in [Lookups -> Handlers] /\ \A l \in Lookups : LookType(look[l])
    BY DEF IInv, TypeOK, StoreType, LookType
  <1>2. tx' = [tx EXCEPT ![p] = t] /\ tx'[p] = t
    BY <1>1 DEF Become, StoreType
  <1>3. /\ ~IsFinal(rows[p]) /\ tx[p].state # "validated"
        /\ \A i \in DOMAIN saves[p] : saves[p][i].state # "validated"
    BY <1>1 DEF HashInv, Live, Final
  <1>6. validated[p] # None => validated[p] <= t.sends
    <2>1. validated[p] \in Sends \cup {None}
      BY <1>1 DEF StoreType
    <2>2. tx[p].sends \in Nat /\ t.sends \in Nat /\ Sends \subseteq Nat
      BY <1>1, LookupAssumption DEF Object, Sends
    <2>3. validated[p] # None => validated[p] <= tx[p].sends
      BY <1>1 DEF HashInv
    <2>4. validated[p] # None => validated[p] \in Nat
      BY <2>1, <2>2
    <2> QED  BY <2>2, <2>3, <2>4, Between
  <1>4. CASE saves'[p] = saves[p] /\ t.state # "validated"
    <2>1. saves' = saves
      BY <1>1, <1>4 DEF Become, StoreType
    <2>2. StoreType'
      BY <1>1, <1>2, <2>1 DEF StoreType
    <2>3. HashInv(p)'
      BY <1>1, <1>2, <1>3, <1>4, <1>6, <2>1 DEF HashInv
    <2>4. ASSUME NEW q \in Payments, q # p
          PROVE  HashInv(q)'
      <3>1. HashInv(q) /\ tx'[q] = tx[q] /\ saves'[q] = saves[q]
        BY <1>1, <1>2, <2>1, <2>4 DEF IInv, StoreType
      <3> QED  BY <3>1 DEF HashInv, Live
    <2> QED  BY <1>1, <2>2, <2>3, <2>4 DEF IInv, TypeOK, StoreType, LookType
  <1>5. CASE t.sends > 0 /\ saves' = [saves EXCEPT ![p] = Append(@, RowOf(t))]
    <2>1. RowOf(t) \in Rows
      BY <1>5, LookupAssumption DEF RowOf, Rows, Object, Sends
    <2>2. /\ Append(saves[p], RowOf(t)) \in Seq(Rows)
          /\ saves'[p] = Append(saves[p], RowOf(t))
      BY <1>1, <1>5, <2>1 DEF StoreType
    <2>3. StoreType'
      BY <1>1, <1>2, <1>5, <2>2 DEF StoreType
    <2>4. HashInv(p)'
      <3>1. ~IsFinal(rows[p])'
        BY <1>3 DEF IsFinal
      <3>2. tx'[p].state = "validated" => /\ validated'[p] # None
                                          /\ tx'[p].result = validated'[p]
        BY <1>2
      <3>3. ASSUME NEW i \in DOMAIN saves'[p], saves'[p][i].state = "validated"
            PROVE  /\ validated'[p] = saves'[p][i].hash
                   /\ i = Len(saves'[p]) /\ ~Live(p)'
        <4>1. /\ Len(saves'[p]) = Len(saves[p]) + 1
              /\ saves'[p][Len(saves[p]) + 1] = RowOf(t)
              /\ \A k \in 1..Len(saves[p]) : saves'[p][k] = saves[p][k]
              /\ DOMAIN saves'[p] = 1..Len(saves'[p])
              /\ Len(saves[p]) \in Nat /\ DOMAIN saves[p] = 1..Len(saves[p])
          BY <1>1, <2>1, <2>2, AppendProperties
        <4>2. i = Len(saves[p]) + 1
          BY <1>3, <3>3, <4>1
        <4>3. t.state = "validated" /\ saves'[p][i].hash = t.result
          BY <3>3, <4>1, <4>2 DEF RowOf
        <4> QED  BY <1>2, <4>1, <4>2, <4>3 DEF Live, Final
      <3>4. (validated[p] # None => validated[p] <= tx[p].sends)'
        BY <1>2, <1>6
      <3> QED  BY <3>1, <3>2, <3>3, <3>4 DEF HashInv
    <2>5. ASSUME NEW q \in Payments, q # p
          PROVE  HashInv(q)'
      <3>1. HashInv(q) /\ tx'[q] = tx[q] /\ saves'[q] = saves[q]
        BY <1>1, <1>2, <1>5, <2>5 DEF IInv, StoreType
      <3> QED  BY <3>1 DEF HashInv, Live
    <2> QED  BY <1>1, <2>3, <2>4, <2>5 DEF IInv, TypeOK, StoreType, LookType
  <1> QED
    <2>1. t.sends > tx[p].sends => t.sends > 0
      BY <1>1 DEF Object
    <2>2. CASE t.sends > 0 /\ (t.state # tx[p].state \/ t.sends > tx[p].sends)
      BY <1>5, <2>2 DEF Become
    <2>3. CASE ~(t.sends > 0 /\ (t.state # tx[p].state \/ t.sends > tx[p].sends))
      BY <1>1, <1>3, <1>4, <2>3 DEF Become, StoreType
    <2> QED  BY <2>2, <2>3

LEMMA PaymentStep ==
    ASSUME IInv, NEW p \in Payments, Send(p) \/ Respond(p) \/ Succeed(p) \/ Fail(p)
    PROVE  IInv'
  <1> DEFINE t1 == [tx[p] EXCEPT !.sends = @ + 1]
             t2 == [tx[p] EXCEPT !.result = tx[p].sends, !.state = "pending"]
             t3 == [tx[p] EXCEPT !.result = validated[p], !.state = "validated"]
             t4 == [tx[p] EXCEPT !.state = "failed"]
  <1>1. /\ HashInv(p) /\ tx[p] \in Object
        /\ validated[p] \in Sends \cup {None} /\ Live(p)
    BY DEF IInv, TypeOK, Send, Respond, Succeed, Fail
  <1>2. CASE Send(p)
    <2>1. /\ t1 \in Object /\ t1.sends = tx[p].sends + 1
          /\ t1.state = tx[p].state /\ tx[p].sends \in Nat
      BY <1>1, <1>2, LookupAssumption DEF Object, Send
    <2>2. Become(p, t1) /\ UNCHANGED <<rows, validated, look>>
      BY <1>2 DEF Send
    <2>3. t1.state # "validated"
      BY <1>1, <2>1 DEF Live, Final
    <2> HIDE DEF t1
    <2> QED  BY <1>1, <2>1, <2>2, <2>3, BecomeStep
  <1>3. CASE Respond(p)
    <2>1. /\ t2 \in Object /\ t2.sends = tx[p].sends /\ t2.state = "pending"
          /\ tx[p].sends \in Nat
      <3>1. tx[p].sends \in Sends /\ tx[p].sends \in Nat
        BY <1>1, <1>3, LookupAssumption DEF Object, Respond, Sends
      <3>2. "pending" \in States
        BY DEF States
      <3>3. t2 \in Object
        BY <1>1, <3>1, <3>2 DEF Object
      <3> QED  BY <1>1, <3>1, <3>3 DEF Object
    <2>2. Become(p, t2) /\ UNCHANGED <<rows, validated, look>>
      BY <1>3 DEF Respond
    <2> HIDE DEF t2
    <2> QED  BY <1>1, <2>1, <2>2, BecomeStep
  <1>4. CASE Succeed(p)
    <2>1. /\ t3 \in Object /\ t3.sends = tx[p].sends /\ t3.state = "validated"
          /\ t3.result = validated[p] /\ tx[p].sends \in Nat
      <3>1. tx[p].sends \in Nat /\ "validated" \in States
        BY <1>1, LookupAssumption DEF Object, States
      <3> QED  BY <1>1, <3>1 DEF Object
    <2>2. Become(p, t3) /\ UNCHANGED <<rows, validated, look>>
      BY <1>4 DEF Succeed
    <2>3. validated[p] # None /\ t3.sends > 0
      BY <1>1, <1>4, <2>1, LookupAssumption DEF HashInv, Succeed, Sends
    <2> HIDE DEF t3
    <2> QED  BY <1>1, <2>1, <2>2, <2>3, BecomeStep
  <1>5. CASE Fail(p)
    <2>1. /\ t4 \in Object /\ t4.sends = tx[p].sends /\ t4.state = "failed"
          /\ tx[p].sends \in Nat
      BY <1>1, <1>5, LookupAssumption DEF Object, Fail, Sends, States
    <2>2. Become(p, t4) /\ UNCHANGED <<rows, validated, look>>
      BY <1>5 DEF Fail
    <2> HIDE DEF t4
    <2> QED  BY <1>1, <2>1, <2>2, BecomeStep
  <1> QED  BY <1>2, <1>3, <1>4, <1>5

\* Nothing that is validated or failed was not undecided before.
LEMMA ValidateStep ==
    ASSUME IInv, NEW p \in Payments, NEW k \in Sends, Validate(p, k)
    PROVE  IInv'
  <1>1. /\ validated' = [validated EXCEPT ![p] = k] /\ validated[p] = None
        /\ k <= tx[p].sends /\ UNCHANGED <<tx, saves, rows, look>>
    BY DEF Validate
  <1>2. TypeOK'
    BY <1>1 DEF IInv, TypeOK
  <1>3. ASSUME NEW q \in Payments
        PROVE  HashInv(q)'
    <2>1. HashInv(q) /\ rows[q] \in Rows \cup {None} /\ saves[q] \in Seq(Rows)
      BY DEF IInv, TypeOK
    <2>2. CASE q = p
      <3>1. validated'[p] = k /\ None \notin Nat /\ Sends \subseteq Nat
        BY <1>1, LookupAssumption DEF IInv, TypeOK, Sends
      <3>2. \A i \in DOMAIN saves[p] : saves[p][i].hash # None
        <4>1. \A i \in DOMAIN saves[p] : saves[p][i] \in Rows
          BY <2>1, <2>2
        <4> QED  BY <3>1, <4>1 DEF Rows
      <3>3. IsFinal(rows[p]) => rows[p].hash # None
        BY <2>1, <2>2, <3>1 DEF Rows, IsFinal
      <3>4. /\ tx[p].state # "validated" /\ ~IsFinal(rows[p])
            /\ \A i \in DOMAIN saves[p] : saves[p][i].state # "validated"
        BY <1>1, <2>1, <2>2, <3>2, <3>3 DEF HashInv
      <3> QED  BY <1>1, <2>2, <3>1, <3>4 DEF HashInv, IsFinal
    <2>3. CASE q # p
      <3>1. validated'[q] = validated[q]
        BY <1>1, <2>3 DEF IInv, TypeOK
      <3> QED  BY <1>1, <2>1, <3>1 DEF HashInv, Live
    <2> QED  BY <2>2, <2>3
  <1> QED  BY <1>2, <1>3 DEF IInv

\* The save that reaches the table as validated was the last one.
LEMMA SaveStep ==
    ASSUME IInv, NEW p \in Payments, Save(p)
    PROVE  IInv'
  <1>1. /\ saves[p] # <<>> /\ saves' = [saves EXCEPT ![p] = Tail(@)]
        /\ UNCHANGED <<tx, validated, look>>
        /\ rows' = [rows EXCEPT ![p] = Head(saves[p])] \/ UNCHANGED rows
    BY DEF Save
  <1>2. HashInv(p) /\ saves[p] \in Seq(Rows)
    BY DEF IInv, TypeOK
  <1> DEFINE s == saves[p]
  <1>3. /\ Head(s) = s[1] /\ Head(s) \in Rows /\ Tail(s) \in Seq(Rows)
        /\ Len(s) \in Nat \ {0} /\ Len(Tail(s)) = Len(s) - 1
        /\ \A i \in 1..Len(Tail(s)) : Tail(s)[i] = s[i + 1]
        /\ DOMAIN Tail(s) = 1..Len(Tail(s)) /\ DOMAIN s = 1..Len(s)
    BY <1>1, <1>2, HeadTailProperties, EmptySeq
  <1>4. saves'[p] = Tail(s)
    BY <1>1 DEF IInv, TypeOK
  <1>5. TypeOK'
    BY <1>1, <1>3 DEF IInv, TypeOK
  <1>6. ~IsFinal(rows[p])
    BY <1>1, <1>2 DEF HashInv
  <1>7. HashInv(p)'
    <2>1. ASSUME NEW i \in DOMAIN Tail(s), Tail(s)[i].state = "validated"
          PROVE  /\ validated[p] = Tail(s)[i].hash
                 /\ i = Len(Tail(s)) /\ ~Live(p)
      <3>1. i + 1 \in DOMAIN s /\ Tail(s)[i] = s[i + 1]
        BY <1>3
      <3> QED  BY <1>2, <1>3, <2>1, <3>1 DEF HashInv
    <2>2. ASSUME IsFinal(rows'[p])
          PROVE  validated[p] = rows'[p].hash /\ Tail(s) = <<>> /\ ~Live(p)
      <3>1. rows'[p] = s[1]
        BY <1>1, <1>3, <1>6, <2>2 DEF IInv, TypeOK
      <3>2. /\ s[1].state = "validated" /\ 1 \in DOMAIN s
        BY <1>3, <2>2, <3>1 DEF IsFinal
      <3>3. validated[p] = s[1].hash /\ 1 = Len(s) /\ ~Live(p)
        BY <1>2, <3>2 DEF HashInv
      <3>4. Len(Tail(s)) = 0 /\ Tail(s) \in Seq(Rows)
        BY <1>3, <3>3
      <3>5. Tail(s) = <<>>
        BY <3>4, EmptySeq
      <3> QED  BY <3>1, <3>3, <3>5
    <2> QED  BY <1>1, <1>2, <1>4, <2>1, <2>2 DEF HashInv, Live
  <1>8. ASSUME NEW q \in Payments, q # p
        PROVE  HashInv(q)'
    <2>1. HashInv(q) /\ saves'[q] = saves[q] /\ rows'[q] = rows[q]
      BY <1>1, <1>8 DEF IInv, TypeOK
    <2> QED  BY <1>1, <2>1 DEF HashInv, Live
  <1> QED  BY <1>5, <1>7, <1>8 DEF IInv

LEMMA CrashStep ==
    ASSUME IInv, Crash
    PROVE  IInv'
  <1>1. ASSUME NEW p \in Payments
        PROVE  HashInv(p)'
    <2>1. HashInv(p) /\ tx[p] \in Object /\ saves'[p] = <<>> /\ ~Live(p)'
          /\ tx'[p].state = tx[p].state /\ tx'[p].result = tx[p].result
          /\ tx'[p].sends = tx[p].sends
      BY DEF IInv, TypeOK, Crash, Object, Live
    <2> QED  BY <2>1 DEF HashInv, Crash
  <1>2. ASSUME NEW p \in Payments
        PROVE  tx'[p] \in Object /\ saves'[p] \in Seq(Rows)
    <2>1. tx[p] \in Object /\ tx'[p] = [tx[p] EXCEPT !.lost = TRUE]
      BY DEF IInv, TypeOK, Crash
    <2>2. saves'[p] = <<>>
      BY DEF Crash
    <2> QED  BY <2>1, <2>2, EmptySeq DEF Object
  <1>3. ASSUME NEW l \in Lookups
        PROVE  LookType(look'[l])
    <2>1. LookType(look[l]) /\ look'[l] = IF look[l].at \in {"idle", "over"}
                  THEN look[l] ELSE [look[l] EXCEPT !.at = "gone"]
      BY DEF IInv, TypeOK, LookType, Crash
    <2> QED  BY <2>1 DEF LookType, Handlers, Places
  <1> QED  BY <1>1, <1>2, <1>3 DEF IInv, TypeOK, Crash, LookType

-----------------------------------------------------------------------------
(* The lookups.                                                             *)

\* The record of the lookup l becomes h.
LEMMA LookStep ==
    ASSUME IInv, NEW l \in Lookups, NEW h, Step(l, h), LookType(h)
    PROVE  IInv'
  <1>1. look' = [look EXCEPT ![l] = h] /\ UNCHANGED <<tx, saves, rows, validated>>
    BY DEF Step
  <1>2. TypeOK'
    BY <1>1 DEF IInv, TypeOK, LookType
  <1>3. ASSUME NEW p \in Payments
        PROVE  HashInv(p)'
    <2>1. HashInv(p)
      BY DEF IInv
    <2> QED  BY <1>1, <2>1 DEF HashInv, Live
  <1> QED  BY <1>2, <1>3 DEF IInv

LEMMA ReplyStep ==
    ASSUME IInv, NEW l \in Lookups, NEW what \in Replies, Reply(l, what)
    PROVE  /\ IInv'
           /\ look' = [look EXCEPT ![l] = [@ EXCEPT !.at = "over", !.reply = what]]
  <1> DEFINE h == [look[l] EXCEPT !.at = "over", !.reply = what]
  <1>1. look[l] \in Handlers
    BY DEF IInv, TypeOK
  <1>2. what # None
    BY LookupAssumption
  <1>3. LookType(h)
    BY <1>1, <1>2 DEF LookType, Handlers, Places
  <1>4. Step(l, h)
    BY DEF Reply
  <1>5. IInv'
    BY <1>3, <1>4, LookStep
  <1> QED  BY <1>4, <1>5 DEF Step

\* A turn of a lookup.
Turn(l) ==
    \/ \E by \in Sends \cup {None} : Ask(l, by)
    \/ TableAnswers(l) \/ TableFails(l)
    \/ RemoteAnswers(l) \/ RemoteFails(l) \/ LedgerAnswers(l)

\* Each turn answers, or goes on to the next place.
LEMMA TurnStep ==
    ASSUME IInv, NEW l \in Lookups, Turn(l)
    PROVE  /\ IInv' /\ UNCHANGED rows
           /\ \A m \in Lookups : m # l => look'[m] = look[m]
           /\ Found(l) => Found(l)'
  <1> DEFINE c == look[l]
  <1>1. /\ c \in Handlers /\ LookType(c) /\ HashInv(c.of)
        /\ rows[c.of] \in Rows \cup {None} /\ look \in [Lookups -> Handlers]
    BY DEF IInv, TypeOK, LookType, Handlers
  <1>2. ASSUME NEW what \in Replies, Reply(l, what),
               Found(l) => what \in {"validated", "noLedger", "error"}
        PROVE  /\ IInv' /\ UNCHANGED rows
               /\ \A m \in Lookups : m # l => look'[m] = look[m]
               /\ Found(l) => Found(l)'
    <2>1. IInv' /\ look' = [look EXCEPT ![l] = [c EXCEPT !.at = "over", !.reply = what]]
      BY <1>2, ReplyStep
    <2>2. UNCHANGED rows
      BY <1>2 DEF Reply, Step
    <2>3. /\ look'[l] = [c EXCEPT !.at = "over", !.reply = what]
          /\ \A m \in Lookups : m # l => look'[m] = look[m]
      BY <1>1, <2>1
    <2>4. look'[l].at = "over" /\ look'[l].reply = what /\ look'[l].of = c.of
      BY <1>1, <2>3 DEF Handlers
    <2> QED  BY <1>2, <2>1, <2>2, <2>3, <2>4 DEF Found
  <1>3. ASSUME NEW h, Step(l, h), LookType(h), h.of = c.of,
               Found(l) => /\ h.at \in {"remote", "ledger"}
                           /\ h.at = "remote" => h.hash = rows[c.of].hash
                           /\ h.reply = c.reply
        PROVE  /\ IInv' /\ UNCHANGED rows
               /\ \A m \in Lookups : m # l => look'[m] = look[m]
               /\ Found(l) => Found(l)'
    <2>1. IInv' /\ look' = [look EXCEPT ![l] = h] /\ UNCHANGED rows
      BY <1>3, LookStep DEF Step
    <2>2. look'[l] = h /\ \A m \in Lookups : m # l => look'[m] = look[m]
      BY <1>1, <2>1
    <2> QED  BY <1>3, <2>1, <2>2 DEF Found
  <1>4. CASE \E by \in Sends \cup {None} : Ask(l, by)
    <2>1. PICK by \in Sends \cup {None} : Ask(l, by)
      BY <1>4
    <2>2. c.at = "idle" /\ ~Found(l)
      BY <2>1 DEF Ask, Found
    <2>3. CASE Reply(l, "error")
      BY <1>2, <2>3 DEF Replies
    <2>4. CASE Step(l, [c EXCEPT !.at = "table", !.by = by])
      <3> DEFINE h == [c EXCEPT !.at = "table", !.by = by]
      <3>1. LookType(h) /\ h.of = c.of
        BY <1>1, <2>2 DEF LookType, Handlers, Places
      <3> HIDE DEF h
      <3> QED  BY <1>3, <2>2, <2>4, <3>1 DEF h
    <2> QED  BY <2>1, <2>3, <2>4 DEF Ask
  <1>5. CASE TableAnswers(l)
    <2>1. CASE c.by = None /\ rows[c.of] = None /\ Reply(l, "unknown")
      BY <1>2, <2>1 DEF Found, IsFinal, Replies
    <2>2. ASSUME NEW n \in Sends, Step(l, [c EXCEPT !.at = "remote", !.hash = n]),
                 Found(l) => n = rows[c.of].hash
          PROVE  /\ IInv' /\ UNCHANGED rows
                 /\ \A m \in Lookups : m # l => look'[m] = look[m]
                 /\ Found(l) => Found(l)'
      <3> DEFINE h == [c EXCEPT !.at = "remote", !.hash = n]
      <3>1. c.at = "table" /\ n # None
        BY <1>5, LookupAssumption DEF TableAnswers, Sends
      <3>2. /\ LookType(h) /\ h.of = c.of /\ h.at = "remote" /\ h.hash = n
            /\ h.reply = c.reply
        BY <1>1, <3>1 DEF LookType, Handlers, Places
      <3> HIDE DEF h
      <3> QED  BY <1>3, <2>2, <3>2 DEF h
    <2>3. CASE /\ c.by = None /\ rows[c.of] # None
               /\ Step(l, [c EXCEPT !.at = "remote", !.hash = rows[c.of].hash])
      BY <1>1, <2>2, <2>3 DEF Rows
    <2>4. CASE /\ c.by # None
               /\ Step(l, [c EXCEPT !.at = "remote", !.hash = c.by])
      <3>1. c.by \in Sends /\ ~Found(l)
        BY <1>1, <1>5, <2>4 DEF Handlers, TableAnswers, Found
      <3> QED  BY <2>2, <2>4, <3>1
    <2> QED  BY <1>5, <2>1, <2>3, <2>4 DEF TableAnswers
  <1>6. CASE TableFails(l)
    BY <1>2, <1>6 DEF TableFails, Replies
  <1>7. CASE RemoteAnswers(l)
    <2>1. c.at = "remote" /\ c.hash # None
      BY <1>1, <1>7 DEF RemoteAnswers, LookType
    <2>2. Found(l) => validated[c.of] = c.hash
      BY <1>1, <2>1 DEF Found, HashInv
    <2>3. CASE Reply(l, "validated")
      BY <1>2, <2>3 DEF Replies
    <2>4. CASE Step(l, [c EXCEPT !.at = "ledger"])
      <3> DEFINE h == [c EXCEPT !.at = "ledger"]
      <3>1. /\ LookType(h) /\ h.of = c.of /\ h.at = "ledger" /\ h.reply = c.reply
        BY <1>1, <2>1 DEF LookType, Handlers, Places
      <3> HIDE DEF h
      <3> QED  BY <1>3, <2>4, <3>1 DEF h
    <2>5. CASE validated[c.of] # c.hash /\ Reply(l, "missing")
      BY <1>2, <2>2, <2>5 DEF Replies
    <2>6. CASE validated[c.of] = None /\ Reply(l, "pending")
      BY <1>2, <2>1, <2>2, <2>6 DEF Replies
    <2> QED  BY <1>7, <2>3, <2>4, <2>5, <2>6 DEF RemoteAnswers
  <1>8. CASE RemoteFails(l)
    BY <1>2, <1>8 DEF RemoteFails, Replies
  <1>9. CASE LedgerAnswers(l)
    BY <1>2, <1>9 DEF LedgerAnswers, Replies
  <1> QED  BY <1>4, <1>5, <1>6, <1>7, <1>8, <1>9 DEF Turn

-----------------------------------------------------------------------------
LEMMA InitInv == Init => IInv
  <1> SUFFICES ASSUME Init PROVE IInv
    OBVIOUS
  <1>1. ASSUME NEW p \in Payments
        PROVE  /\ tx[p] \in Object /\ tx[p].state = "unsubmitted"
               /\ saves[p] = <<>> /\ saves[p] \in Seq(Rows)
               /\ rows[p] = None /\ validated[p] = None
    <2>1. 0 \in 0..MaxSends
      BY LookupAssumption
    <2> QED  BY <2>1, EmptySeq DEF Init, Object, States
  <1>2. ASSUME NEW p \in Payments
        PROVE  HashInv(p)
    <2>1. DOMAIN saves[p] = {}
      BY <1>1
    <2> QED  BY <1>1, <2>1 DEF HashInv, IsFinal
  <1>3. ASSUME NEW l \in Lookups
        PROVE  LookType(look[l])
    BY DEF Init, LookType
  <1>4. TypeOK
    BY <1>1, <1>3 DEF Init, TypeOK, LookType
  <1> QED  BY <1>2, <1>4 DEF IInv

LEMMA StepInv ==
    ASSUME IInv, [Next]_vars
    PROVE  IInv' /\ \A l \in Lookups : Found(l) => Found(l)'
  <1>1. CASE UNCHANGED vars
    BY <1>1 DEF vars, IInv, TypeOK, HashInv, Live, Found
  <1>2. ASSUME NEW p \in Payments,
               \/ Send(p) \/ Respond(p) \/ Succeed(p) \/ Fail(p)
               \/ \E k \in Sends : Validate(p, k)
        PROVE  IInv' /\ \A l \in Lookups : Found(l) => Found(l)'
    <2>1. IInv'
      BY <1>2, PaymentStep, ValidateStep
    <2>2. UNCHANGED <<rows, look>>
      BY <1>2 DEF Send, Respond, Succeed, Fail, Validate
    <2> QED  BY <2>1, <2>2 DEF Found
  <1>3. ASSUME NEW p \in Payments, Save(p)
        PROVE  IInv' /\ \A l \in Lookups : Found(l) => Found(l)'
    <2>1. IInv'
      BY <1>3, SaveStep
    <2>2. ~IsFinal(rows[p]) /\ \A q \in Payments : q # p => rows'[q] = rows[q]
      BY <1>3 DEF Save, IInv, TypeOK, HashInv
    <2>3. look' = look /\ \A l \in Lookups : look[l].of \in Payments
      BY <1>3 DEF Save, IInv, TypeOK, Handlers
    <2> QED  BY <2>1, <2>2, <2>3 DEF Found
  <1>4. ASSUME NEW l \in Lookups, Turn(l)
        PROVE  IInv' /\ \A m \in Lookups : Found(m) => Found(m)'
    BY <1>4, TurnStep DEF Found
  <1>5. CASE Crash
    <2>1. IInv' /\ UNCHANGED rows
      BY <1>5, CrashStep DEF Crash
    <2>2. ASSUME NEW l \in Lookups, Found(l)
          PROVE  Found(l)'
      <3>1. look[l] \in Handlers /\ look'[l] = IF look[l].at \in {"idle", "over"}
                    THEN look[l] ELSE [look[l] EXCEPT !.at = "gone"]
        BY <1>5 DEF IInv, TypeOK, Crash
      <3> QED  BY <2>1, <2>2, <3>1 DEF Found, Handlers
    <2> QED  BY <2>1, <2>2
  <1> QED  BY <1>1, <1>2, <1>3, <1>4, <1>5 DEF Next, Turn

\* The invariant, in every behaviour, without the fairness.
THEOREM Invariance == Spec => []IInv
  <1> QED  BY InitInv, StepInv, PTL DEF Spec

-----------------------------------------------------------------------------
\* The type invariant of the lookups: one that is over, and no other, has an
\* answer, and one that asks the remote has a hash to ask for.
THEOREM TypeCorrect == Spec => []TypeOK
  <1>1. IInv => TypeOK
    BY DEF IInv
  <1> QED  BY Invariance, <1>1, PTL

\* getTransaction finds a validated payment by its client_resource_id whenever
\* it reads the final row: the row has the hash that the ledger knows, of
\* whichever submission, and neither a late save nor a restart changes it.
THEOREM FinalRowFinds == Spec => FinalIsFound
  <1> SUFFICES ASSUME NEW l \in Lookups
               PROVE  Spec =>
       [](/\ look[l].at = "table" /\ look[l].by = None
          /\ rows[look[l].of] # None /\ rows[look[l].of].state = "validated"
          => [](look[l].reply \in {None, "validated", "noLedger", "error"}))
    BY DEF FinalIsFound
  <1> DEFINE A == /\ look[l].at = "table" /\ look[l].by = None
                  /\ rows[look[l].of] # None /\ rows[look[l].of].state = "validated"
             B == look[l].reply \in {None, "validated", "noLedger", "error"}
  <1>1. IInv /\ A => Found(l)
    BY DEF IInv, TypeOK, Found, IsFinal
  <1>2. IInv /\ [Next]_vars /\ Found(l) => Found(l)'
    BY StepInv
  <1>3. Found(l) => B
    BY DEF Found
  <1> HIDE DEF A, B
  <1>4. Spec => [](A => []B)
    BY Invariance, <1>1, <1>2, <1>3, PTL DEF Spec
  <1> QED  BY <1>4 DEF A, B
=============================================================================
