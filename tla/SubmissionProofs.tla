--------------------------- MODULE SubmissionProofs ---------------------------
(***************************************************************************)
(* Theorems about Submission, for any number of requests, identifiers and  *)
(* submissions: type correctness, what the clients are told, and what the  *)
(* table holds of the transactions.                                        *)
(*                                                                         *)
(* Every turn of a request changes its record only, by a composition of    *)
(* the event operators.  So the invariant is a predicate on one record,    *)
(* and a lemma per operator says what it makes of a record.                *)
(***************************************************************************)
EXTENDS Submission, SequenceTheorems, TLAPS

Conversations ==
    [step : Steps, replies : Seq(Replies), on : SUBSET Listeners,
     state : TxStates, final : BOOLEAN, sends : 0..MaxSends,
     awaits : BOOLEAN, heard : Heard, saves : Seq(TxStates)]

\* The replies that a request can have been given.
Told(r, c) ==
    \/ c.replies \in {<<>>, <<"duplicate">>, <<"error">>, <<"pending">>,
                      <<"validated">>}
    \/ /\ c.replies = <<"pending", "pending">>
       /\ r \notin Validated
       /\ c.sends > 1

\* A transaction that is not final: as long as 'error' is listened to there
\* was no answer, and a request without that listener was answered "pending",
\* for which it gave up waiting.
Open(r, c) ==
    /\ c.state \notin Final
    /\ "aborted" \notin c.on
    /\ c.awaits => c.sends > 0
    /\ "error" \in c.on => c.replies = <<>>
    /\ "error" \notin c.on =>
          /\ r \notin Validated
          /\ "submitted" \notin c.on
          /\ c.sends > 0
          /\ \/ c.replies = <<"pending">>
             \/ /\ c.replies = <<"pending", "pending">>
                /\ c.sends > 1
                /\ "proposed" \notin c.on

\* A tec result was answered, so an answer that may propose is one to a resend.
Resent(c) == "error" \notin c.on /\ "proposed" \in c.on => c.sends > 1

\* A final transaction.
Closed(r, c) ==
    /\ c.state \in Final
    /\ r \in Validated =>
          c.replies = IF c.state = "validated" THEN <<"validated">> ELSE <<"error">>

ConversationInv(r, c) ==
    /\ c \in Conversations
    /\ Told(r, c)
    /\ c.step \in {"idle", "checking", "checked"} => c = [Fresh EXCEPT !.step = c.step]
    /\ c.step = "active" =>
          IF c.final THEN Closed(r, c)
          ELSE Open(r, c) /\ (c.awaits => Resent(c))

\* Nothing is saved after a final state.
FinalLast(q) == \A k \in DOMAIN q : q[k] \in Final => k = Len(q)

\* In a turn that began in the state st: the saves made so far end with the
\* state of the transaction, and if there are none its state is still st.
\* Only a payment that has been submitted is saved.
Current(r, st, c) ==
    /\ IF r \notin Recorded \/ c.sends = 0 THEN c.saves = <<>>
       ELSE IF c.saves = <<>> THEN c.state = st
       ELSE c.saves[Len(c.saves)] = c.state
    /\ FinalLast(c.saves)

\* Nothing happens to a request any more.
Gone(r) ==
    \/ req[r].step \in {"over", "crashed"}
    \/ req[r].step = "active" /\ req[r].final

IInv ==
    /\ req \in [Requests -> Conversations]
    /\ \A r \in Requests : ConversationInv(r, req[r]) /\ req[r].saves = <<>>
    /\ Table!TypeOK
-----------------------------------------------------------------------------
\* A second reply that is like the first.
LEMMA AppendTwice ==
    ASSUME NEW S, NEW x \in S
    PROVE  Append(<<x>>, x) = <<x, x>>
  <1> DEFINE s == <<x>>
             t == <<x, x>>
  <1>1. /\ s \in Seq(S) /\ Len(s) = 1 /\ s[1] = x
        /\ t \in Seq(S) /\ Len(t) = 2 /\ t[1] = x /\ t[2] = x
    OBVIOUS
  <1> HIDE DEF s, t
  <1>2. /\ Append(s, x) \in Seq(S) /\ Len(Append(s, x)) = 2
        /\ Append(s, x)[1] = x /\ Append(s, x)[2] = x
    BY <1>1, AppendProperties
  <1>3. Append(s, x) = t
    BY <1>1, <1>2, SeqEqual
  <1> QED  BY <1>3 DEF s, t

\* The saves of a turn that had made none.
LEMMA FinalLastOfOne ==
    /\ FinalLast(<<>>)
    /\ \A x : FinalLast(<<x>>)
  BY DEF FinalLast

\* One more save, after one of a state that is not final.
LEMMA FinalLastAppend ==
    ASSUME NEW q \in Seq(TxStates), NEW new \in TxStates, FinalLast(q),
           q # <<>> => q[Len(q)] \notin Final
    PROVE  FinalLast(Append(q, new))
  <1>1. /\ Len(q) \in Nat /\ DOMAIN q = 1..Len(q)
        /\ q # <<>> <=> Len(q) > 0
        /\ Len(Append(q, new)) = Len(q) + 1
        /\ DOMAIN Append(q, new) = 1..(Len(q) + 1)
        /\ \A k \in 1..Len(q) : Append(q, new)[k] = q[k]
    OBVIOUS
  <1> QED  BY <1>1 DEF FinalLast

\* d is c with another state and with other saves of the turn.
StateSet(r, c, new, d) ==
    /\ d \in Conversations
    /\ d.state = new
    /\ d.step = c.step /\ d.replies = c.replies /\ d.on = c.on
    /\ d.final = c.final /\ d.sends = c.sends /\ d.awaits = c.awaits
    /\ \A st : Current(r, st, c) => Current(r, st, d)

\* setState changes the state and the saves of the turn, nothing else.
LEMMA SetStateEffect ==
    ASSUME NEW r, NEW c \in Conversations, NEW new \in TxStates,
           c.state \notin Final
    PROVE  StateSet(r, c, new, SetState(r, c, new))
  <1> DEFINE q == IF r \in Recorded /\ c.sends > 0 THEN Append(c.saves, new)
                                                   ELSE c.saves
  <1>1. q \in Seq(TxStates)
    <2>1. c.saves \in Seq(TxStates)
      BY DEF Conversations
    <2> QED  BY <2>1
  <1>2. SetState(r, c, new) = IF c.state = new THEN c
                              ELSE [c EXCEPT !.state = new, !.saves = q]
    BY DEF SetState
  <1>3. /\ r \in Recorded /\ c.sends > 0 => q # <<>> /\ q[Len(q)] = new
        /\ ~(r \in Recorded /\ c.sends > 0) => q = c.saves
    <2>1. c.saves \in Seq(TxStates)
      BY DEF Conversations
    <2> QED  BY <2>1
  <1> HIDE DEF q
  <1>4. CASE c.state = new
    BY <1>2, <1>4 DEF StateSet
  <1>5. CASE c.state # new
    <2> DEFINE d == [c EXCEPT !.state = new, !.saves = q]
    <2>1. /\ d \in Conversations /\ d.state = new /\ d.saves = q
          /\ d.step = c.step /\ d.replies = c.replies /\ d.on = c.on
          /\ d.final = c.final /\ d.sends = c.sends /\ d.awaits = c.awaits
      BY <1>1 DEF Conversations
    <2>2. SetState(r, c, new) = d
      BY <1>2, <1>5
    <2>3. c.sends \in Nat
      BY SubmissionAssumption DEF Conversations
    <2> HIDE DEF d
    <2>4. ASSUME NEW st, Current(r, st, c)
          PROVE  Current(r, st, d)
      <3>1. FinalLast(q)
        <4>1. FinalLast(c.saves) /\ c.saves \in Seq(TxStates)
          BY <2>4 DEF Current, Conversations
        <4>2. CASE r \in Recorded /\ c.sends > 0
          <5>1. c.saves # <<>> => c.saves[Len(c.saves)] \notin Final
            BY <2>3, <2>4, <4>2 DEF Current
          <5> QED  BY <4>1, <4>2, <5>1, FinalLastAppend DEF q
        <4>3. CASE ~(r \in Recorded /\ c.sends > 0)
          BY <1>3, <4>1, <4>3
        <4> QED  BY <4>2, <4>3
      <3> QED  BY <1>3, <2>1, <2>3, <2>4, <3>1 DEF Current
    <2> QED  BY <2>1, <2>2, <2>4 DEF StateSet
  <1> QED  BY <1>4, <1>5

\* An answer appends a reply and changes nothing else.
LEMMA ReplyEffect ==
    ASSUME NEW c \in Conversations, NEW what \in Replies
    PROVE  /\ Reply(c, what) \in Conversations
           /\ Reply(c, what).replies = Append(c.replies, what)
           /\ Reply(c, what).state = c.state
           /\ Reply(c, what).step = c.step
           /\ Reply(c, what).on = c.on
           /\ Reply(c, what).final = c.final
           /\ Reply(c, what).sends = c.sends
           /\ Reply(c, what).awaits = c.awaits
           /\ Reply(c, what).saves = c.saves
  <1> DEFINE q == Append(c.replies, what)
  <1>1. q \in Seq(Replies)
    <2>1. c.replies \in Seq(Replies)
      BY DEF Conversations
    <2> QED  BY <2>1
  <1>2. Reply(c, what) = [c EXCEPT !.replies = q]
    BY DEF Reply
  <1> HIDE DEF q
  <1>3. /\ [c EXCEPT !.replies = q] \in Conversations
        /\ [c EXCEPT !.replies = q].replies = q
    BY <1>1 DEF Conversations
  <1> QED  BY <1>2, <1>3 DEF Conversations, q

\* An error closes a transaction that has not been answered, or one whose
\* client no longer listens; it answers the former, and it answers it once.
LEMMA EmitErrorEffect ==
    ASSUME NEW r, NEW c \in Conversations,
           c.step = "active", c.state \notin Final,
           c.on \cap {"error", "aborted"} # {} => c.replies = <<>>,
           c.on \cap {"error", "aborted"} = {} => r \notin Validated,
           Told(r, c)
    PROVE  /\ EmitError(r, c) \in Conversations
           /\ EmitError(r, c).step = "active"
           /\ EmitError(r, c).sends = c.sends
           /\ EmitError(r, c).final
           /\ Closed(r, EmitError(r, c))
           /\ Told(r, EmitError(r, c))
           /\ \A st : Current(r, st, c) => Current(r, st, EmitError(r, c))
  <1> DEFINE e == [c EXCEPT !.final = TRUE]
             f == SetState(r, e, "failed")
             g == [f EXCEPT !.on = @ \ {"error", "aborted"}]
  <1>1. e \in Conversations /\ "failed" \in TxStates /\ "error" \in Replies
    BY DEF Conversations, TxStates, Replies
  <1>2. /\ f \in Conversations
        /\ f.state = "failed" /\ f.step = "active" /\ f.final
        /\ f.on = c.on /\ f.replies = c.replies /\ f.sends = c.sends
        /\ \A st : Current(r, st, c) => Current(r, st, f)
    <2>1. /\ e.step = "active" /\ e.final /\ e.on = c.on
          /\ e.replies = c.replies /\ e.sends = c.sends
          /\ e.saves = c.saves /\ e.state = c.state
      BY DEF Conversations
    <2> HIDE DEF e
    <2>2. \A st : Current(r, st, c) => Current(r, st, e)
      BY <2>1 DEF Current
    <2>3. StateSet(r, e, "failed", f)
      BY <1>1, <2>1, SetStateEffect
    <2> HIDE DEF f
    <2> QED  BY <2>1, <2>2, <2>3 DEF StateSet
  <1>3. EmitError(r, c) = IF f.on \cap {"error", "aborted"} = {} THEN f
                          ELSE Reply(g, "error")
    BY DEF EmitError
  <1>4. /\ g \in Conversations
        /\ g.state = "failed" /\ g.step = "active" /\ g.final
        /\ g.replies = c.replies /\ g.sends = c.sends
        /\ g.saves = f.saves
    <2> HIDE DEF f
    <2> QED  BY <1>2 DEF Conversations
  <1> HIDE DEF e, f, g
  <1>5. CASE f.on \cap {"error", "aborted"} = {}
    BY <1>2, <1>3, <1>5 DEF Closed, Told, Final
  <1>6. CASE f.on \cap {"error", "aborted"} # {}
    <2>1. EmitError(r, c) = Reply(g, "error") /\ c.replies = <<>>
      BY <1>2, <1>3, <1>6
    <2>2. Reply(g, "error").replies = <<"error">>
      BY <1>1, <1>4, <2>1, ReplyEffect
    <2>3. /\ Reply(g, "error") \in Conversations
          /\ Reply(g, "error").state = "failed"
          /\ Reply(g, "error").step = "active"
          /\ Reply(g, "error").final
          /\ Reply(g, "error").sends = c.sends
          /\ Reply(g, "error").saves = f.saves
      BY <1>1, <1>4, ReplyEffect
    <2> HIDE DEF g
    <2>4. \A st : Current(r, st, c) => Current(r, st, Reply(g, "error"))
      BY <1>2, <2>3 DEF Current
    <2> QED  BY <2>1, <2>2, <2>3, <2>4 DEF Closed, Told, Final
  <1> QED  BY <1>5, <1>6

\* formatTransactionResponseWrapper: the reply, and no 'error' listener.
LEMMA FormatResponseEffect ==
    ASSUME NEW c \in Conversations, NEW what \in Replies
    PROVE  /\ FormatResponse(c, what) \in Conversations
           /\ FormatResponse(c, what).replies = Append(c.replies, what)
           /\ FormatResponse(c, what).on = c.on \ {"error"}
           /\ FormatResponse(c, what).state = c.state
           /\ FormatResponse(c, what).step = c.step
           /\ FormatResponse(c, what).final = c.final
           /\ FormatResponse(c, what).sends = c.sends
           /\ FormatResponse(c, what).awaits = c.awaits
           /\ FormatResponse(c, what).saves = c.saves
  <1> DEFINE d == [c EXCEPT !.on = @ \ {"error"}]
  <1>1. /\ d \in Conversations
        /\ d.on = c.on \ {"error"}
        /\ d.replies = c.replies /\ d.state = c.state /\ d.step = c.step
        /\ d.final = c.final /\ d.sends = c.sends /\ d.awaits = c.awaits
        /\ d.saves = c.saves
    BY DEF Conversations
  <1>2. FormatResponse(c, what) = Reply(d, what)
    BY DEF FormatResponse
  <1> HIDE DEF d
  <1> QED  BY <1>1, <1>2, ReplyEffect

\* The record with another set of listeners.
LEMMA ListenersEffect ==
    ASSUME NEW c \in Conversations, NEW on \in SUBSET Listeners
    PROVE  /\ [c EXCEPT !.on = on] \in Conversations
           /\ [c EXCEPT !.on = on].on = on
           /\ [c EXCEPT !.on = on].replies = c.replies
           /\ [c EXCEPT !.on = on].state = c.state
           /\ [c EXCEPT !.on = on].step = c.step
           /\ [c EXCEPT !.on = on].final = c.final
           /\ [c EXCEPT !.on = on].sends = c.sends
           /\ [c EXCEPT !.on = on].awaits = c.awaits
           /\ [c EXCEPT !.on = on].saves = c.saves
  BY DEF Conversations

\* The records on which an answer to a submission acts.
Hearing(r, c) ==
    /\ c \in Conversations /\ c.step = "active"
    /\ ~c.final /\ ~c.awaits /\ c.sends > 0
    /\ Told(r, c) /\ Open(r, c) /\ Resent(c)

\* The 'submitted' event closes a transaction when it aborts it; otherwise
\* it leaves it open, and it answers at a tec result only.
LEMMA OnSubmittedEffect ==
    ASSUME NEW r, NEW c, NEW result \in Results, Hearing(r, c)
    PROVE  LET d == OnSubmitted(r, c, result) IN
           /\ d \in Conversations /\ d.step = "active" /\ Told(r, d)
           /\ d.sends = c.sends
           /\ d.final => Closed(r, d)
           /\ ~d.final => Open(r, d) /\ ~d.awaits
           /\ result \in {"tes", "fatal"} => Hearing(r, d) /\ "submitted" \notin d.on
           /\ \A st : Current(r, st, c) => Current(r, st, d)
  <1> DEFINE e == [c EXCEPT !.on = @ \ {"submitted"}]
             d == SetState(r, e, "submitted")
             a == [d EXCEPT !.on = (@ \ {"error"}) \cup {"aborted"}]
  <1>1. CASE "submitted" \notin c.on
    BY <1>1 DEF OnSubmitted, Hearing
  <1>2. ASSUME "submitted" \in c.on
        PROVE  /\ d \in Conversations /\ d.step = "active" /\ ~d.final
               /\ ~d.awaits /\ d.sends = c.sends /\ d.state = "submitted"
               /\ d.on = c.on \ {"submitted"}
               /\ d.replies = <<>> /\ "error" \in d.on /\ "aborted" \notin d.on
               /\ \A st : Current(r, st, c) => Current(r, st, d)
    <2>1. c.replies = <<>> /\ "error" \in c.on /\ "aborted" \notin c.on
      BY <1>2 DEF Hearing, Open
    <2>2. c.on \ {"submitted"} \in SUBSET Listeners
      BY DEF Hearing, Conversations
    <2>3. /\ e \in Conversations /\ e.on = c.on \ {"submitted"}
          /\ e.replies = <<>> /\ e.step = "active" /\ ~e.final /\ ~e.awaits
          /\ e.sends = c.sends /\ e.saves = c.saves /\ e.state = c.state
      BY <2>1, <2>2, ListenersEffect DEF Hearing
    <2>4. "submitted" \in TxStates
      BY DEF TxStates
    <2> HIDE DEF e
    <2>5. \A st : Current(r, st, c) => Current(r, st, e)
      BY <2>3 DEF Current
    <2>6. StateSet(r, e, "submitted", d)
      <3>1. e.state \notin Final
        BY <2>3 DEF Hearing, Open
      <3> QED  BY <2>3, <2>4, <3>1, SetStateEffect
    <2> HIDE DEF d
    <2> QED  BY <1>2, <2>1, <2>3, <2>5, <2>6 DEF StateSet
  <1>3. CASE "submitted" \in c.on /\ result = "tec" /\ r \notin Validated
    <2> DEFINE f == FormatResponse(d, "pending")
    <2>1. OnSubmitted(r, c, result) = f
      BY <1>3 DEF OnSubmitted
    <2>2. "pending" \in Replies
      BY DEF Replies
    <2> HIDE DEF d
    <2>3. /\ f \in Conversations /\ f.step = "active" /\ ~f.final /\ ~f.awaits
          /\ f.state = "submitted"
          /\ f.on = c.on \ {"submitted", "error"} /\ "aborted" \notin f.on
          /\ f.sends = c.sends /\ f.sends > 0 /\ f.saves = d.saves
      BY <1>2, <1>3, <2>2, FormatResponseEffect DEF Hearing
    <2>4. f.replies = <<"pending">>
      BY <1>2, <1>3, <2>2, FormatResponseEffect
    <2> HIDE DEF f
    <2>5. \A st : Current(r, st, c) => Current(r, st, f)
      BY <1>2, <1>3, <2>3 DEF Current
    <2> QED  BY <1>3, <2>1, <2>3, <2>4, <2>5 DEF Told, Open, Final
  <1>4. CASE "submitted" \in c.on /\ result = "terAbort"
    <2>1. OnSubmitted(r, c, result) = EmitError(r, a)
      BY <1>4 DEF OnSubmitted
    <2>2. (d.on \ {"error"}) \cup {"aborted"} \in SUBSET Listeners
      <3> HIDE DEF d
      <3> QED  BY <1>2, <1>4 DEF Conversations, Listeners
    <2>3. /\ a \in Conversations /\ a.step = "active"
          /\ "aborted" \in a.on /\ a.replies = <<>> /\ a.sends = c.sends
          /\ a.saves = d.saves /\ a.state = d.state
      <3> DEFINE on == (d.on \ {"error"}) \cup {"aborted"}
      <3>1. "aborted" \in on
        OBVIOUS
      <3>2. a = [d EXCEPT !.on = on]
        OBVIOUS
      <3>3. d \in Conversations /\ on \in SUBSET Listeners
        BY <1>2, <1>4, <2>2
      <3>4. d.step = "active" /\ d.replies = <<>> /\ d.sends = c.sends
        BY <1>2, <1>4
      <3> HIDE DEF a, d, on
      <3>5. /\ a \in Conversations /\ a.on = on /\ a.step = d.step
            /\ a.replies = d.replies /\ a.sends = d.sends
            /\ a.saves = d.saves /\ a.state = d.state
        BY <3>2, <3>3, ListenersEffect
      <3> QED  BY <3>1, <3>4, <3>5
    <2> HIDE DEF a
    <2>4. Told(r, a)
      BY <2>3 DEF Told
    <2>5. /\ EmitError(r, a) \in Conversations
          /\ EmitError(r, a).step = "active" /\ EmitError(r, a).final
          /\ EmitError(r, a).sends = c.sends
          /\ Closed(r, EmitError(r, a)) /\ Told(r, EmitError(r, a))
          /\ \A st : Current(r, st, a) => Current(r, st, EmitError(r, a))
      <3>1. a.state \notin Final
        <4> HIDE DEF d
        <4> QED  BY <1>2, <1>4, <2>3 DEF Final
      <3> QED  BY <2>3, <2>4, <3>1, EmitErrorEffect
    <2>6. \A st : Current(r, st, c) => Current(r, st, a)
      <3> HIDE DEF d
      <3> QED  BY <1>2, <1>4, <2>3 DEF Current
    <2> QED  BY <1>4, <2>1, <2>5, <2>6
  <1>5. CASE /\ "submitted" \in c.on
             /\ ~(result = "tec" /\ r \notin Validated)
             /\ result # "terAbort"
    <2>1. OnSubmitted(r, c, result) = d
      BY <1>5 DEF OnSubmitted
    <2> HIDE DEF d
    <2> QED  BY <1>2, <1>5, <2>1 DEF Told, Open, Final, Hearing, Resent
  <1> QED  BY <1>1, <1>3, <1>4, <1>5

\* The 'proposed' event answers a request that does not wait; when it answers
\* it for the second time, the transaction was sent again.
LEMMA OnProposedEffect ==
    ASSUME NEW r, NEW c, Hearing(r, c), "submitted" \notin c.on
    PROVE  LET d == OnProposed(r, c) IN
           /\ d \in Conversations /\ d.step = "active" /\ ~d.final /\ ~d.awaits
           /\ d.sends = c.sends /\ Told(r, d) /\ Open(r, d)
           /\ \A st : Current(r, st, c) => Current(r, st, d)
  <1> DEFINE e == [c EXCEPT !.on = @ \ {"proposed"}]
             d == SetState(r, e, "pending")
             f == FormatResponse(d, "pending")
  <1>1. CASE "proposed" \notin c.on
    BY <1>1 DEF OnProposed, Hearing
  <1>2. /\ d \in Conversations /\ d.step = "active" /\ ~d.final /\ ~d.awaits
        /\ d.sends = c.sends /\ d.state = "pending"
        /\ d.on = c.on \ {"proposed"} /\ d.replies = c.replies
        /\ \A st : Current(r, st, c) => Current(r, st, d)
    <2>1. c.on \ {"proposed"} \in SUBSET Listeners
      BY DEF Hearing, Conversations
    <2>2. /\ e \in Conversations /\ e.on = c.on \ {"proposed"}
          /\ e.replies = c.replies /\ e.step = "active" /\ ~e.final
          /\ ~e.awaits /\ e.sends = c.sends
          /\ e.saves = c.saves /\ e.state = c.state
      BY <2>1, ListenersEffect DEF Hearing
    <2>3. "pending" \in TxStates
      BY DEF TxStates
    <2> HIDE DEF e
    <2>4. \A st : Current(r, st, c) => Current(r, st, e)
      BY <2>2 DEF Current
    <2>5. StateSet(r, e, "pending", d)
      <3>1. e.state \notin Final
        BY <2>2 DEF Hearing, Open
      <3> QED  BY <2>2, <2>3, <3>1, SetStateEffect
    <2> HIDE DEF d
    <2> QED  BY <2>2, <2>4, <2>5 DEF StateSet
  <1>3. CASE "proposed" \in c.on /\ r \in Validated
    <2>1. OnProposed(r, c) = d
      BY <1>3 DEF OnProposed
    <2> HIDE DEF d
    <2> QED  BY <1>2, <1>3, <2>1 DEF Hearing, Told, Open, Final
  <1>4. CASE "proposed" \in c.on /\ r \notin Validated
    <2>1. OnProposed(r, c) = f
      BY <1>4 DEF OnProposed
    <2>2. "pending" \in Replies
      BY DEF Replies
    <2> HIDE DEF d
    <2>3. /\ f \in Conversations /\ f.step = "active" /\ ~f.final /\ ~f.awaits
          /\ f.state = "pending" /\ f.sends = c.sends
          /\ f.on = c.on \ {"proposed", "error"}
          /\ f.replies = Append(c.replies, "pending")
          /\ f.saves = d.saves
      BY <1>2, <2>2, FormatResponseEffect
    <2> HIDE DEF f
    <2>7. \A st : Current(r, st, c) => Current(r, st, f)
      BY <1>2, <2>3 DEF Current
    <2>4. "aborted" \notin f.on /\ "error" \notin f.on /\ "proposed" \notin f.on
          /\ "submitted" \notin f.on /\ f.sends > 0
      BY <2>3 DEF Hearing, Open
    <2>5. CASE "error" \in c.on
      <3>1. c.replies = <<>>
        BY <2>5 DEF Hearing, Open
      <3>2. f.replies = <<"pending">>
        BY <2>3, <3>1
      <3> QED  BY <1>4, <2>1, <2>3, <2>4, <2>7, <3>2 DEF Told, Open, Final
    <2>6. CASE "error" \notin c.on
      <3>1. c.replies = <<"pending">> /\ c.sends > 1
        BY <1>4, <2>6 DEF Hearing, Open, Resent
      <3>2. f.replies = Append(<<"pending">>, "pending")
        BY <2>3, <3>1
      <3>3. f.replies = <<"pending", "pending">>
        BY <2>2, <3>2, AppendTwice
      <3> QED  BY <1>4, <2>1, <2>3, <2>4, <2>7, <3>1, <3>3 DEF Told, Open, Final
    <2> QED  BY <2>5, <2>6
  <1> QED  BY <1>1, <1>3, <1>4

\* The 'success' event closes a transaction, and answers a request that waits.
LEMMA OnSuccessEffect ==
    ASSUME NEW r, NEW c \in Conversations,
           c.step = "active", ~c.final, Told(r, c), Open(r, c)
    PROVE  LET d == OnSuccess(r, c) IN
           /\ d \in Conversations /\ d.step = "active" /\ d.final
           /\ d.sends = c.sends /\ Told(r, d) /\ Closed(r, d)
           /\ \A st : Current(r, st, c) => Current(r, st, d)
  <1> DEFINE e == [c EXCEPT !.final = TRUE, !.on = @ \ {"success"}]
             f == SetState(r, e, "validated")
             g == FormatResponse(f, "validated")
  <1>1. /\ f \in Conversations /\ f.step = "active" /\ f.final
        /\ f.sends = c.sends /\ f.state = "validated" /\ f.replies = c.replies
        /\ \A st : Current(r, st, c) => Current(r, st, f)
    <2>1. /\ e \in Conversations /\ e.step = "active" /\ e.final
          /\ e.sends = c.sends /\ e.replies = c.replies
          /\ e.saves = c.saves /\ e.state = c.state
      BY DEF Conversations
    <2>2. "validated" \in TxStates
      BY DEF TxStates
    <2> HIDE DEF e
    <2>3. \A st : Current(r, st, c) => Current(r, st, e)
      BY <2>1 DEF Current
    <2>4. StateSet(r, e, "validated", f)
      <3>1. e.state \notin Final
        BY <2>1 DEF Open
      <3> QED  BY <2>1, <2>2, <3>1, SetStateEffect
    <2> HIDE DEF f
    <2> QED  BY <2>1, <2>3, <2>4 DEF StateSet
  <1>2. OnSuccess(r, c) = IF r \in Validated THEN g ELSE f
    BY DEF OnSuccess
  <1> HIDE DEF f
  <1>3. CASE r \notin Validated
    BY <1>1, <1>2, <1>3 DEF Told, Closed, Final
  <1>4. CASE r \in Validated
    <2>1. c.replies = <<>> /\ "validated" \in Replies
      BY <1>4 DEF Open, Replies
    <2>2. /\ g \in Conversations /\ g.step = "active" /\ g.final
          /\ g.state = "validated" /\ g.replies = Append(c.replies, "validated")
          /\ g.sends = c.sends /\ g.saves = f.saves
      BY <1>1, <2>1, FormatResponseEffect
    <2> HIDE DEF g
    <2>3. g.replies = <<"validated">>
      BY <2>1, <2>2
    <2>4. \A st : Current(r, st, c) => Current(r, st, g)
      BY <1>1, <2>2 DEF Current
    <2> QED  BY <1>2, <1>4, <2>2, <2>3, <2>4 DEF Told, Closed, Final
  <1> QED  BY <1>3, <1>4
-----------------------------------------------------------------------------
\* The end of a turn: the invariant of the request is that of the others too,
\* and the saves of the turn are snapshots.
LEMMA CommitInv ==
    ASSUME IInv, NEW r \in Requests, NEW c,
           ConversationInv(r, c), Commit(r, c)
    PROVE  IInv'
  <1> DEFINE d == [c EXCEPT !.saves = <<>>]
             new == [k \in 1..Len(c.saves) |-> [req |-> r, state |-> c.saves[k]]]
  <1>1. c \in Conversations
    BY DEF ConversationInv
  <1>2. /\ d \in Conversations /\ d.saves = <<>>
        /\ d.step = c.step /\ d.replies = c.replies /\ d.on = c.on
        /\ d.state = c.state /\ d.final = c.final /\ d.sends = c.sends
        /\ d.awaits = c.awaits
    <2> DEFINE none == <<>>
    <2>1. none \in Seq(TxStates)
      OBVIOUS
    <2>2. d = [c EXCEPT !.saves = none]
      OBVIOUS
    <2> HIDE DEF none
    <2>3. /\ [c EXCEPT !.saves = none] \in Conversations
          /\ [c EXCEPT !.saves = none].saves = none
      BY <1>1, <2>1 DEF Conversations
    <2> QED  BY <1>1, <2>2, <2>3 DEF Conversations, none
  <1>3. c.step \in {"idle", "checking", "checked"} => d = c
    <2> SUFFICES ASSUME c.step \in {"idle", "checking", "checked"}
                 PROVE  d = c
      OBVIOUS
    <2>1. c.saves = <<>>
      BY DEF ConversationInv, Fresh
    <2> QED  BY <1>1, <2>1 DEF Conversations
  <1>4. ConversationInv(r, d)
    <2>1. Told(r, d)
      BY <1>2 DEF ConversationInv, Told
    <2>2. c.step = "active" /\ c.final => Closed(r, d)
      BY <1>2 DEF ConversationInv, Closed
    <2>3. c.step = "active" /\ ~c.final => Open(r, d) /\ (d.awaits => Resent(d))
      BY <1>2 DEF ConversationInv, Open, Resent
    <2> HIDE DEF d
    <2> QED  BY <1>2, <1>3, <2>1, <2>2, <2>3 DEF ConversationInv
  <1>5. req' = [req EXCEPT ![r] = d]
    BY DEF Commit
  <1> HIDE DEF d
  <1>6. /\ req' \in [Requests -> Conversations]
        /\ \A s \in Requests : ConversationInv(s, req'[s]) /\ req'[s].saves = <<>>
    BY <1>2, <1>4, <1>5 DEF IInv
  <1>7. new \in Seq(Snapshots)
    <2>1. c.saves \in Seq(TxStates)
      BY <1>1 DEF Conversations
    <2> QED  BY <2>1 DEF Snapshots
  <1>8. todo' = [todo EXCEPT ![IdOf[r]] = @ \o new] /\ rows' = rows
    BY DEF Commit
  <1> HIDE DEF new
  <1>9. Table!TypeOK'
    BY <1>7, <1>8, SubmissionAssumption DEF IInv, Table!TypeOK
  <1> QED  BY <1>6, <1>9 DEF IInv

\* What a turn of request r leaves: a conversation that keeps the invariant,
\* a save if it submitted the transaction of a payment, and saves that end
\* with the state the transaction then has.  A request that is gone has none.
Turn(r, c) ==
    /\ Commit(r, c)
    /\ ConversationInv(r, c)
    /\ c.step = "active" =>
          \/ c.sends = 0
          \/ c.sends = req[r].sends /\ req[r].step = "active"
          \/ r \in Recorded => c.saves # <<>>
    /\ Current(r, req[r].state, c)
    /\ c.sends = 0 => req[r].sends = 0
    /\ ~Gone(r)

\* The turns of the waterfall.
LEMMA HandlerTurn ==
    ASSUME IInv, NEW r \in Requests, Handler(r)
    PROVE  \E c : Turn(r, c)
  <1>1. req[r] \in Conversations /\ ConversationInv(r, req[r])
    BY DEF IInv
  <1>2. CASE Receive(r) \/ (CheckDuplicate(r) /\ rows[IdOf[r]] = NoRow)
    <2>1. PICK st \in {"checking", "checked"} : Commit(r, [req[r] EXCEPT !.step = st])
      BY <1>2 DEF Receive, CheckDuplicate
    <2>2. req[r] = [Fresh EXCEPT !.step = req[r].step]
      BY <1>1, <1>2 DEF ConversationInv, Receive, CheckDuplicate
    <2>3. /\ [req[r] EXCEPT !.step = st] \in Conversations
          /\ [req[r] EXCEPT !.step = st].step = st
          /\ [req[r] EXCEPT !.step = st].replies = <<>>
          /\ [req[r] EXCEPT !.step = st].saves = <<>>
          /\ [req[r] EXCEPT !.step = st].sends = 0 /\ req[r].sends = 0
      BY <1>1, <2>2 DEF Conversations, Steps, Fresh
    <2>4. [req[r] EXCEPT !.step = st] = [Fresh EXCEPT !.step = st]
      BY <2>2 DEF Fresh
    <2>5. ConversationInv(r, [req[r] EXCEPT !.step = st])
      BY <2>1, <2>3, <2>4 DEF ConversationInv, Told
    <2>6. ~Gone(r)
      BY <1>2 DEF Gone, Receive, CheckDuplicate
    <2> QED  BY <2>1, <2>3, <2>5, <2>6, FinalLastOfOne DEF Turn, Current
  <1>3. CASE Refuse(r) \/ (CheckDuplicate(r) /\ rows[IdOf[r]] # NoRow)
    <2> DEFINE c == [req[r] EXCEPT !.step = "over"]
    <2>1. PICK what \in {"duplicate", "error"} : Commit(r, Reply(c, what))
      BY <1>3 DEF Refuse, CheckDuplicate
    <2>2. req[r].replies = <<>> /\ req[r].saves = <<>> /\ req[r].sends = 0
      BY <1>1, <1>3 DEF ConversationInv, Refuse, CheckDuplicate, Fresh
    <2>3. /\ c \in Conversations /\ c.step = "over" /\ c.replies = <<>>
          /\ c.saves = <<>> /\ c.sends = 0
      BY <1>1, <2>2 DEF Conversations, Steps
    <2>4. what \in Replies
      BY <2>1 DEF Replies
    <2> HIDE DEF c
    <2>5. /\ Reply(c, what) \in Conversations
          /\ Reply(c, what).step = "over"
          /\ Reply(c, what).replies = Append(c.replies, what)
          /\ Reply(c, what).saves = <<>> /\ Reply(c, what).sends = 0
      BY <2>3, <2>4, ReplyEffect
    <2>6. Reply(c, what).replies = <<what>>
      BY <2>3, <2>5
    <2>7. ConversationInv(r, Reply(c, what))
      BY <2>1, <2>5, <2>6 DEF ConversationInv, Told
    <2>8. ~Gone(r)
      BY <1>3 DEF Gone, Refuse, CheckDuplicate
    <2> QED  BY <2>1, <2>2, <2>5, <2>7, <2>8, FinalLastOfOne DEF Turn, Current
  <1>4. CASE Submit(r)
    <2> DEFINE c == [req[r] EXCEPT
                       !.step = "active",
                       !.on = {"error", "submitted", "proposed", "success"}]
    <2>1. req[r] = [Fresh EXCEPT !.step = req[r].step]
      BY <1>1, <1>4 DEF ConversationInv, Submit
    <2>2. /\ c \in Conversations /\ c.step = "active" /\ c.replies = <<>>
          /\ c.on = {"error", "submitted", "proposed", "success"}
          /\ c.state = "unsubmitted" /\ ~c.final /\ ~c.awaits /\ c.sends = 0
          /\ c.saves = <<>> /\ req[r].sends = 0
      BY <1>1, <2>1 DEF Conversations, Steps, Listeners, Fresh
    <2>3. Commit(r, c)
      BY <1>4 DEF Submit
    <2> HIDE DEF c
    <2>4. ConversationInv(r, c)
      BY <2>2 DEF ConversationInv, Told, Open, Final
    <2>5. ~Gone(r)
      BY <1>4 DEF Gone, Submit
    <2> QED  BY <2>2, <2>3, <2>4, <2>5, FinalLastOfOne DEF Turn, Current
  <1> QED  BY <1>2, <1>3, <1>4 DEF Handler, CheckDuplicate

\* The turns in which ripple-lib acts on a transaction.
LEMMA RippleLibTurn ==
    ASSUME IInv, NEW r \in Requests, RippleLib(r)
    PROVE  \E d : Turn(r, d)
  <1> DEFINE c == req[r]
  <1>1. /\ c \in Conversations /\ c.step = "active" /\ ~c.final
        /\ Told(r, c) /\ Open(r, c) /\ (c.awaits => Resent(c))
        /\ c.saves = <<>> /\ Current(r, c.state, c) /\ ~Gone(r)
    BY FinalLastOfOne
    DEF IInv, ConversationInv, RippleLib, Send, Respond, Validate, Fail, Live,
        Current, Gone
  <1>2. CASE Send(r)
    <2> DEFINE q == IF r \in Recorded THEN <<c.state>> ELSE <<>>
               d == [c EXCEPT !.sends = @ + 1, !.awaits = TRUE, !.saves = q]
    <2>1. q \in Seq(TxStates)
      BY <1>1 DEF Conversations
    <2>2. c.sends \in Nat /\ c.sends + 1 \in 0..MaxSends
      BY <1>1, <1>2, SubmissionAssumption DEF Conversations, Send
    <2>3. Commit(r, d)
      BY <1>2 DEF Send
    <2> HIDE DEF q
    <2>4. /\ d \in Conversations /\ d.step = "active" /\ ~d.final
          /\ d.sends = c.sends + 1 /\ d.state = c.state /\ d.on = c.on
          /\ d.replies = c.replies /\ d.saves = q
      BY <1>1, <2>1, <2>2 DEF Conversations
    <2>6. /\ r \in Recorded => q # <<>> /\ q[Len(q)] = c.state
          /\ r \notin Recorded => q = <<>>
          /\ FinalLast(q)
      BY FinalLastOfOne DEF q
    <2> HIDE DEF c, d
    <2>7. Current(r, c.state, d)
      BY <2>2, <2>4, <2>6 DEF Current
    <2>5. Told(r, d) /\ Open(r, d) /\ Resent(d)
      BY <1>1, <2>2, <2>4 DEF Told, Open, Resent
    <2>8. ConversationInv(r, d)
      BY <2>4, <2>5 DEF ConversationInv
    <2>9. d.sends # 0
      BY <2>2, <2>4
    <2> QED  BY <1>1, <2>3, <2>4, <2>6, <2>7, <2>8, <2>9 DEF Turn, c
  <1>3. CASE Validate(r)
    <2> HIDE DEF c
    <2>1. LET d == OnSuccess(r, c) IN
          /\ d \in Conversations /\ d.step = "active" /\ d.final
          /\ d.sends = c.sends /\ Told(r, d) /\ Closed(r, d)
          /\ Current(r, c.state, d)
      BY <1>1, OnSuccessEffect
    <2>2. ConversationInv(r, OnSuccess(r, c))
      BY <2>1 DEF ConversationInv
    <2> QED  BY <1>1, <1>3, <2>1, <2>2 DEF Validate, Turn, c
  <1>4. CASE Fail(r)
    <2> HIDE DEF c
    <2>1. /\ c.on \cap {"error", "aborted"} # {} => c.replies = <<>>
          /\ c.on \cap {"error", "aborted"} = {} => r \notin Validated
          /\ c.state \notin Final
      BY <1>1 DEF Open
    <2>2. /\ ConversationInv(r, EmitError(r, c)) /\ EmitError(r, c).sends = c.sends
          /\ Current(r, c.state, EmitError(r, c))
      BY <1>1, <2>1, EmitErrorEffect DEF ConversationInv
    <2> QED  BY <1>1, <1>4, <2>2 DEF Fail, Turn, c
  <1>5. ASSUME NEW result \in Results, Respond(r, result)
        PROVE  \E t : Turn(r, t)
    <2> DEFINE h == Hears(c.heard, result)
               e == [c EXCEPT !.awaits = FALSE, !.heard = h]
               d == OnSubmitted(r, e, result)
    <2>1. Hearing(r, e) /\ e.sends = c.sends /\ Current(r, c.state, e)
      <3>1. /\ e \in Conversations /\ e.step = "active" /\ ~e.final /\ ~e.awaits
            /\ e.sends = c.sends /\ e.state = c.state /\ e.on = c.on
            /\ e.replies = c.replies /\ e.saves = c.saves
        <4>1. h \in Heard
          BY <1>1 DEF Conversations, Hears, Heard
        <4> HIDE DEF h
        <4> QED  BY <1>1, <4>1 DEF Conversations
      <3>2. c.awaits
        BY <1>5 DEF Respond
      <3> HIDE DEF c, e
      <3> QED  BY <1>1, <3>1, <3>2 DEF Hearing, Told, Open, Resent, Current
    <2>2. Commit(r, CASE result = "tes"   -> OnProposed(r, d)
                      [] result = "fatal" -> EmitError(r, d)
                      [] OTHER            -> d)
      BY <1>5 DEF Respond
    <2> HIDE DEF c, e
    <2>3. /\ d \in Conversations /\ d.step = "active" /\ Told(r, d)
          /\ d.sends = c.sends
          /\ d.final => Closed(r, d)
          /\ ~d.final => Open(r, d) /\ ~d.awaits
          /\ result \in {"tes", "fatal"} => Hearing(r, d) /\ "submitted" \notin d.on
          /\ Current(r, c.state, d)
      BY <2>1, OnSubmittedEffect
    <2> HIDE DEF d
    <2>4. CASE result = "tes"
      <3>1. LET p == OnProposed(r, d) IN
            /\ p \in Conversations /\ p.step = "active" /\ ~p.final /\ ~p.awaits
            /\ p.sends = c.sends /\ Told(r, p) /\ Open(r, p)
            /\ Current(r, c.state, p)
        BY <2>3, <2>4, OnProposedEffect
      <3>2. ConversationInv(r, OnProposed(r, d))
        BY <3>1 DEF ConversationInv
      <3>3. Commit(r, OnProposed(r, d))
        BY <2>2, <2>4
      <3> QED  BY <1>1, <3>1, <3>2, <3>3 DEF Turn, c
    <2>5. CASE result = "fatal"
      <3>1. /\ d.on \cap {"error", "aborted"} # {} => d.replies = <<>>
            /\ d.on \cap {"error", "aborted"} = {} => r \notin Validated
            /\ d.state \notin Final
        BY <2>3, <2>5 DEF Hearing, Open
      <3>2. /\ ConversationInv(r, EmitError(r, d)) /\ EmitError(r, d).sends = c.sends
            /\ Current(r, c.state, EmitError(r, d))
        BY <2>3, <3>1, EmitErrorEffect DEF ConversationInv
      <3>3. Commit(r, EmitError(r, d))
        BY <2>2, <2>5
      <3> QED  BY <1>1, <3>2, <3>3 DEF Turn, c
    <2>6. CASE result \notin {"tes", "fatal"}
      <3>1. ConversationInv(r, d)
        BY <2>3 DEF ConversationInv
      <3>2. Commit(r, d)
        BY <2>2, <2>6
      <3> QED  BY <1>1, <2>3, <3>1, <3>2 DEF Turn, c
    <2> QED  BY <2>4, <2>5, <2>6
  <1> QED  BY <1>2, <1>3, <1>4, <1>5 DEF RippleLib

\* A save and a restart answer nobody.
LEMMA NextInv ==
    ASSUME IInv, [Next]_vars
    PROVE  IInv'
  <1>1. ASSUME NEW i \in Ids, Save(i)
        PROVE  IInv'
    <2>1. req' = req /\ todo[i] # <<>> /\ todo' = [todo EXCEPT ![i] = Tail(@)]
      BY <1>1 DEF Save, Table!Apply, Table!Drop
    <2>2. \/ rows' = rows
          \/ rows' = [rows EXCEPT ![i] = Head(todo[i])]
      BY <1>1 DEF Save, Table!Apply, Table!Drop
    <2>3. todo[i] \in Seq(Snapshots) /\ Table!TypeOK
      BY DEF IInv, Table!TypeOK
    <2>4. Head(todo[i]) \in Snapshots /\ Tail(todo[i]) \in Seq(Snapshots)
      BY <2>1, <2>3
    <2>5. Table!TypeOK'
      BY <2>1, <2>2, <2>3, <2>4 DEF Table!TypeOK
    <2> QED  BY <2>1, <2>5 DEF IInv
  <1>2. CASE Crash
    <2>1. Table!TypeOK'
      BY <1>2 DEF Crash, Table!Crash, Table!TypeOK, IInv
    <2>2. ASSUME NEW r \in Requests
          PROVE  /\ req'[r] \in Conversations /\ req'[r].saves = <<>>
                 /\ ConversationInv(r, req'[r])
      <3>1. req[r] \in Conversations /\ ConversationInv(r, req[r]) /\ req[r].saves = <<>>
        BY DEF IInv
      <3>2. CASE req'[r] = req[r]
        BY <3>1, <3>2
      <3>3. CASE req'[r] = [req[r] EXCEPT !.step = "crashed"]
        <4>1. /\ req'[r] \in Conversations /\ req'[r].saves = <<>>
              /\ req'[r].step = "crashed" /\ req'[r].replies = req[r].replies
              /\ req'[r].sends = req[r].sends
          BY <3>1, <3>3 DEF Conversations, Steps
        <4>2. Told(r, req'[r])
          BY <3>1, <4>1 DEF ConversationInv, Told
        <4> QED  BY <4>1, <4>2 DEF ConversationInv
      <3> QED  BY <1>2, <3>2, <3>3 DEF Crash
    <2>3. req' \in [Requests -> Conversations]
      <3>1. req' = [r \in Requests |-> req'[r]]
        BY <1>2 DEF Crash
      <3> QED  BY <2>2, <3>1
    <2> QED  BY <2>1, <2>2, <2>3 DEF IInv
  <1>3. CASE UNCHANGED vars
    BY <1>3 DEF vars, IInv, Table!TypeOK
  <1>4. ASSUME NEW r \in Requests, Handler(r) \/ RippleLib(r)
        PROVE  IInv'
    BY <1>4, HandlerTurn, RippleLibTurn, CommitInv DEF Turn
  <1> QED  BY <1>1, <1>2, <1>3, <1>4 DEF Next

\* A request begins with nothing told and an empty table.
LEMMA InitInv ==
    ASSUME Init
    PROVE  IInv
  <1>1. Fresh \in Conversations /\ Fresh.saves = <<>>
    <2> DEFINE none == <<>>
    <2>1. none \in Seq(Replies) /\ none \in Seq(TxStates) /\ 0 \in 0..MaxSends
      BY SubmissionAssumption
    <2>2. Fresh = [step |-> "idle", replies |-> none, on |-> {},
                   state |-> "unsubmitted", final |-> FALSE, sends |-> 0,
                   awaits |-> FALSE, heard |-> "nothing", saves |-> none]
      BY DEF Fresh
    <2> HIDE DEF none
    <2>3. Fresh \in Conversations /\ Fresh.saves = none
      BY <2>1, <2>2 DEF Conversations, Steps, TxStates, Heard
    <2> QED  BY <2>3 DEF none
  <1>2. Fresh.step = "idle" /\ Fresh.replies = <<>>
    BY DEF Fresh
  <1>3. Fresh = [Fresh EXCEPT !.step = Fresh.step]
    BY DEF Fresh
  <1>4. ASSUME NEW r \in Requests
        PROVE  ConversationInv(r, Fresh)
    <2> HIDE DEF Fresh
    <2> QED  BY <1>1, <1>2, <1>3 DEF ConversationInv, Told
  <1>5. /\ req \in [Requests -> Conversations]
        /\ \A r \in Requests : req[r] = Fresh
    BY <1>1 DEF Init
  <1>6. Table!TypeOK
    <2>1. <<>> \in Seq(Snapshots)
      OBVIOUS
    <2> QED  BY <2>1 DEF Init, Table!Init, Table!TypeOK
  <1> QED  BY <1>1, <1>4, <1>5, <1>6 DEF IInv

\* In every behaviour of the requests, each conversation is one of those that
\* ConversationInv describes.
THEOREM Invariance == Spec => []IInv
  <1>1. Init => IInv
    BY InitInv
  <1>2. IInv /\ [Next]_vars => IInv'
    BY NextInv
  <1> QED  BY <1>1, <1>2, PTL DEF Spec

\* The records of the requests, the queues of saves and the table keep their
\* types; in particular no turn leaves a save uncalled.
THEOREM TypeCorrect == Spec => []TypeOK
  <1>1. IInv => TypeOK
    BY DEF IInv, TypeOK, Conversations
  <1> QED  BY <1>1, Invariance, PTL

\* submitTransaction calls its callback twice only for a request that does not
\* wait, whose tec result was followed by a proposed resend, and both calls
\* say "pending"; never three times.
THEOREM SecondReply == Spec => []SecondReplyNeedsResend
  <1>1. IInv => SecondReplyNeedsResend
    <2> SUFFICES ASSUME IInv, NEW r \in Requests, Len(req[r].replies) > 1
                 PROVE  /\ req[r].replies = <<"pending", "pending">>
                        /\ r \notin Validated
                        /\ req[r].sends > 1
      BY DEF SecondReplyNeedsResend
    <2>1. Told(r, req[r])
      BY DEF IInv, ConversationInv
    <2>2. CASE req[r].replies \in {<<>>, <<"duplicate">>, <<"error">>,
                                   <<"pending">>, <<"validated">>}
      <3> DEFINE n == Len(req[r].replies)
      <3>1. n \in {0, 1} /\ n > 1
        BY <2>2
      <3> HIDE DEF n
      <3>2. FALSE
        BY <3>1
      <3> QED  BY <3>2
    <2> QED  BY <2>1, <2>2 DEF Told
  <1> QED  BY <1>1, Invariance, PTL

\* A request with validated=true is told nothing before its transaction is
\* final, and is told how it ended.
THEOREM RepliesFinal == Spec => []ValidatedReplyIsFinal
  <1>1. IInv => ValidatedReplyIsFinal
    <2> SUFFICES ASSUME IInv, NEW r \in Validated, req[r].step = "active",
                        req[r].replies # <<>>
                 PROVE  /\ req[r].final
                        /\ req[r].replies[1] = "validated"
                              <=> req[r].state = "validated"
      BY DEF ValidatedReplyIsFinal
    <2>1. ConversationInv(r, req[r])
      BY SubmissionAssumption DEF IInv
    <2>2. req[r].final
      BY <2>1 DEF ConversationInv, Open
    <2>3. Closed(r, req[r])
      BY <2>1, <2>2 DEF ConversationInv
    <2>4. CASE req[r].state = "validated"
      <3>1. req[r].replies = <<"validated">>
        BY <2>3, <2>4 DEF Closed
      <3> QED  BY <2>2, <2>4, <3>1
    <2>5. CASE req[r].state # "validated"
      <3>1. req[r].replies = <<"error">>
        BY <2>3, <2>5 DEF Closed
      <3> QED  BY <2>2, <2>5, <3>1
    <2> QED  BY <2>4, <2>5
  <1> QED  BY <1>1, Invariance, PTL
-----------------------------------------------------------------------------
\* A request that is refused, or is going to be, because its identifier has a
\* row.
Barred(r) ==
    /\ rows[IdOf[r]] # NoRow
    /\ req[r].step \in {"idle", "checking", "over", "crashed"}
    /\ req[r].sends = 0

\* No step removes a row.
LEMMA RowsStay ==
    ASSUME IInv, [Next]_vars, NEW i \in Ids, rows[i] # NoRow
    PROVE  rows'[i] # NoRow
  <1>1. CASE rows' = rows
    BY <1>1
  <1>2. ASSUME NEW j \in Ids, Table!Apply(j)
        PROVE  rows'[i] # NoRow
    <2>1. rows' = [rows EXCEPT ![j] = Head(todo[j])] /\ todo[j] # <<>>
      BY <1>2 DEF Table!Apply
    <2>2. todo[j] \in Seq(Snapshots) /\ rows \in [Ids -> Snapshots \cup {NoRow}]
      BY DEF IInv, Table!TypeOK
    <2>3. Head(todo[j]) \in Snapshots
      BY <2>1, <2>2
    <2> QED  BY <2>1, <2>2, <2>3, SubmissionAssumption
  <1> QED
    BY <1>1, <1>2
    DEF Next, vars, Handler, Receive, CheckDuplicate, Refuse, Submit, RippleLib,
        Send, Respond, Validate, Fail, Commit, Save, Table!Drop, Crash, Table!Crash

\* A payment whose identifier is known stays unsent, whatever happens.
LEMMA BarredStays ==
    ASSUME IInv, [Next]_vars, NEW r \in Recorded, Barred(r)
    PROVE  Barred(r)'
  <1> DEFINE c == req[r]
  <1>1. r \in Requests /\ req \in [Requests -> Conversations] /\ IdOf[r] \in Ids
    BY SubmissionAssumption DEF IInv
  <1>2. rows'[IdOf[r]] # NoRow
    BY <1>1, RowsStay DEF Barred
  <1>3. CASE req'[r] = c
    BY <1>2, <1>3 DEF Barred
  <1>4. CASE Handler(r)
    <2>1. PICK d : /\ Commit(r, d)
                   /\ d.step \in {"checking", "over"} /\ d.sends = 0
      <3>1. CASE Receive(r)
        BY <1>1, <3>1 DEF Receive, Barred, Conversations
      <3>2. CASE CheckDuplicate(r) \/ Refuse(r)
        <4> DEFINE o == [c EXCEPT !.step = "over"]
        <4>1. PICK what \in {"duplicate", "error"} : Commit(r, Reply(o, what))
          BY <3>2 DEF CheckDuplicate, Refuse, Barred
        <4>2. o \in Conversations /\ o.step = "over" /\ o.sends = 0
          BY <1>1 DEF Conversations, Steps, Barred
        <4>3. what \in Replies
          BY <4>1 DEF Replies
        <4> HIDE DEF o
        <4>4. Reply(o, what).step = "over" /\ Reply(o, what).sends = 0
          BY <4>2, <4>3, ReplyEffect
        <4> QED  BY <4>1, <4>4
      <3>3. CASE Submit(r)
        BY <3>3 DEF Submit, Barred
      <3> QED  BY <1>4, <3>1, <3>2, <3>3 DEF Handler
    <2>2. req'[r] = [d EXCEPT !.saves = <<>>]
      BY <1>1, <2>1 DEF Commit
    <2>3. req'[r].step = d.step /\ req'[r].sends = d.sends
      BY <2>2
    <2> QED  BY <1>2, <2>1, <2>3 DEF Barred
  <1>5. CASE RippleLib(r)
    BY <1>5 DEF RippleLib, Send, Respond, Validate, Fail, Live, Barred
  <1>6. ASSUME NEW s \in Requests, s # r, Handler(s) \/ RippleLib(s)
        PROVE  req'[r] = c
    <2>1. PICK d : Commit(s, d)
      BY <1>6 DEF Handler, Receive, CheckDuplicate, Refuse, Submit, RippleLib,
                  Send, Respond, Validate, Fail
    <2> QED  BY <1>1, <1>6, <2>1 DEF Commit
  <1>7. CASE Crash
    <2>1. req'[r] = c \/ req'[r] = [c EXCEPT !.step = "crashed"]
      BY <1>1, <1>7 DEF Crash
    <2>2. /\ [c EXCEPT !.step = "crashed"].step = "crashed"
          /\ [c EXCEPT !.step = "crashed"].sends = c.sends
      BY <1>1 DEF Conversations
    <2> QED  BY <1>2, <1>3, <2>1, <2>2 DEF Barred
  <1>8. CASE UNCHANGED req
    BY <1>3, <1>8
  <1> QED
    BY <1>3, <1>4, <1>5, <1>6, <1>7, <1>8 DEF Next, vars, Save

\* blockDuplicates: a payment that arrives, or whose query is not yet answered,
\* when its client_resource_id has a row is never submitted.
THEOREM KnownIsRefused == Spec => KnownIdRefused
  <1> SUFFICES ASSUME NEW r \in Recorded
               PROVE  Spec => [](/\ rows[IdOf[r]] # NoRow
                                 /\ req[r].step \in {"idle", "checking"}
                                 => [](req[r].sends = 0))
    BY DEF KnownIdRefused
  <1>1. IInv /\ rows[IdOf[r]] # NoRow /\ req[r].step \in {"idle", "checking"}
        => Barred(r)
    BY SubmissionAssumption DEF IInv, ConversationInv, Barred, Fresh
  <1>2. IInv /\ [Next]_vars /\ Barred(r) => Barred(r)'
    BY BarredStays
  <1>3. Barred(r) => req[r].sends = 0
    BY DEF Barred
  <1> QED  BY <1>1, <1>2, <1>3, Invariance, PTL DEF Spec
-----------------------------------------------------------------------------
(* The traces that a payment leaves in the table.                           *)

\* A payment that was not sent has no save and no row.  One that was, while
\* the process lives, has a save under way or a row in its place, and the
\* newest of its saves, or its row, has the state of the transaction.
Traced(r) ==
    /\ req[r].sends = 0 =>
          Called(r) = {} /\ (rows[IdOf[r]] # NoRow => rows[IdOf[r]].req # r)
    /\ req[r].step = "active" /\ req[r].sends > 0 =>
          /\ rows[IdOf[r]] # NoRow \/ Called(r) # {}
          /\ \A k \in Called(r) : (\A j \in Called(r) : j <= k) =>
                todo[IdOf[r]][k].state = req[r].state
          /\ Called(r) = {} /\ rows[IdOf[r]] # NoRow /\ rows[IdOf[r]].req = r =>
                rows[IdOf[r]].state = req[r].state

TraceInv == \A r \in Recorded \ Unsafe : Traced(r)

\* The turn of one request leaves the traces of every payment as they should
\* be: saves are added at the end, and only its own.
LEMMA TurnTraced ==
    ASSUME IInv, NEW r \in Requests, NEW c, Turn(r, c),
           NEW s \in Recorded, Traced(s)
    PROVE  Traced(s)'
  <1> DEFINE i == IdOf[r]
             q == todo[i]
             new == [k \in 1..Len(c.saves) |-> [req |-> r, state |-> c.saves[k]]]
  <1>1. /\ i \in Ids /\ IdOf[s] \in Ids /\ s \in Requests
        /\ todo \in [Ids -> Seq(Snapshots)]
        /\ req \in [Requests -> Conversations] /\ c \in Conversations
        /\ c.saves \in Seq(TxStates) /\ q \in Seq(Snapshots)
    BY SubmissionAssumption
    DEF IInv, Turn, ConversationInv, Conversations, Table!TypeOK
  <1>2. /\ req' = [req EXCEPT ![r] = [c EXCEPT !.saves = <<>>]]
        /\ todo' = [todo EXCEPT ![i] = q \o new]
        /\ rows' = rows
    BY DEF Turn, Commit
  <1>3. /\ new \in Seq(Snapshots) /\ Len(new) = Len(c.saves)
        /\ \A k \in 1..Len(new) : new[k].req = r /\ new[k].state = c.saves[k]
    BY <1>1 DEF Snapshots
  <1> HIDE DEF q, new
  <1>4. /\ DOMAIN (q \o new) = 1..(Len(q) + Len(new))
        /\ DOMAIN q = 1..Len(q) /\ Len(q) \in Nat /\ Len(new) \in Nat
        /\ \A k \in 1..Len(q) : (q \o new)[k] = q[k]
        /\ \A k \in Len(q) + 1 .. Len(q) + Len(new) :
              (q \o new)[k] = new[k - Len(q)]
    <2>1. q \in Seq(Snapshots) /\ new \in Seq(Snapshots)
      BY <1>1, <1>3
    <2> QED  BY <2>1
  <1>5. CASE s # r
    <2>1. req'[s] = req[s]
      BY <1>1, <1>2, <1>5
    <2>2. CASE IdOf[s] # i
      <3>1. todo'[IdOf[s]] = todo[IdOf[s]]
        BY <1>1, <1>2, <2>2
      <3>2. Called(s)' = Called(s)
        BY <3>1 DEF Called
      <3> QED  BY <1>2, <2>1, <3>1, <3>2 DEF Traced
    <2>3. CASE IdOf[s] = i
      <3>1. todo'[i] = q \o new
        BY <1>1, <1>2
      <3>2. Called(s)' = {k \in DOMAIN (q \o new) : (q \o new)[k].req = s}
        BY <2>3, <3>1 DEF Called
      <3>3. Called(s) = {k \in DOMAIN q : q[k].req = s}
        BY <2>3 DEF Called, q
      <3>4. \A k \in Len(q) + 1 .. Len(q) + Len(new) : (q \o new)[k].req = r
        BY <1>3, <1>4
      <3>5. Called(s)' = Called(s)
        BY <1>4, <1>5, <3>2, <3>3, <3>4
      <3>6. \A k \in Called(s) : todo'[IdOf[s]][k] = todo[IdOf[s]][k]
        BY <1>4, <2>3, <3>1, <3>3 DEF q
      <3> QED  BY <1>2, <2>1, <3>5, <3>6 DEF Traced
    <2> QED  BY <2>2, <2>3
  <1>6. CASE s = r
    <2>1. /\ req'[r].step = c.step /\ req'[r].sends = c.sends
          /\ req'[r].state = c.state /\ c.sends \in Nat /\ req[r].sends \in Nat
      <3>1. req'[r] = [c EXCEPT !.saves = <<>>]
        BY <1>1, <1>2
      <3> QED  BY <1>1, <3>1, SubmissionAssumption DEF Conversations
    <2>2. todo'[i] = q \o new
      BY <1>1, <1>2
    <2>3. Called(r)' = {k \in DOMAIN (q \o new) : (q \o new)[k].req = r}
      BY <2>2 DEF Called
    <2>4. Called(r) = {k \in DOMAIN q : q[k].req = r}
      BY DEF Called, q
    <2>5. \A k \in Len(q) + 1 .. Len(q) + Len(new) :
             (q \o new)[k].req = r /\ (q \o new)[k].state = c.saves[k - Len(q)]
      BY <1>3, <1>4
    <2>6. CASE new = <<>>
      <3>1. c.saves = <<>> /\ Len(new) = 0
        BY <1>1, <1>3, <2>6
      <3>2. Called(r)' = Called(r) /\ \A k \in Called(r) : todo'[i][k] = todo[i][k]
        BY <1>4, <2>2, <2>3, <2>4, <3>1 DEF q
      <3>3. /\ c.sends = 0 => req[r].sends = 0
            /\ c.step = "active" /\ c.sends > 0 =>
                  /\ req[r].step = "active" /\ req[r].sends > 0
                  /\ c.state = req[r].state
        BY <1>6, <2>1, <3>1 DEF Turn, Current
      <3> QED  BY <1>2, <1>6, <2>1, <3>2, <3>3 DEF Traced
    <2>7. CASE new # <<>>
      <3>1. Len(new) > 0 /\ c.saves # <<>>
        BY <1>1, <1>3, <2>7
      <3>2. c.sends > 0
        BY <1>6, <2>1, <3>1 DEF Turn, Current
      <3> DEFINE n == Len(q) + Len(new)
      <3>3. n \in Called(r)' /\ \A k \in Called(r)' : k <= n
        BY <1>4, <2>3, <2>5, <3>1
      <3>4. todo'[i][n].state = c.saves[Len(c.saves)]
        BY <1>3, <1>4, <2>2, <2>5, <3>1
      <3>5. c.step = "active" => c.saves[Len(c.saves)] = c.state
        BY <1>6, <3>1, <3>2 DEF Turn, Current
      <3>6. \A k \in Called(r)' : (\A j \in Called(r)' : j <= k) => k = n
        BY <1>4, <2>3, <3>3
      <3> HIDE DEF n
      <3> QED  BY <1>6, <2>1, <3>2, <3>3, <3>4, <3>5, <3>6 DEF Traced
    <2> QED  BY <2>6, <2>7
  <1> QED  BY <1>5, <1>6

\* The places of the saves of r after the oldest save has taken effect.
LEMMA TailPlaces ==
    ASSUME NEW S, NEW q \in Seq(S), q # <<>>
    PROVE  /\ Tail(q) \in Seq(S) /\ Head(q) = q[1] /\ Len(q) \in Nat /\ Len(q) >= 1
           /\ DOMAIN q = 1..Len(q) /\ DOMAIN Tail(q) = 1..(Len(q) - 1)
           /\ \A k \in 1..(Len(q) - 1) : Tail(q)[k] = q[k + 1]
  OBVIOUS

\* A save that takes effect, or that the key of another account's row refuses,
\* leaves the traces as they should be.
LEMMA SaveTraced ==
    ASSUME IInv, NEW i \in Ids, Save(i), NEW s \in Recorded \ Unsafe, Traced(s)
    PROVE  Traced(s)'
  <1> DEFINE q == todo[i]
             h == Head(q)
  <1>1. /\ todo \in [Ids -> Seq(Snapshots)] /\ q \in Seq(Snapshots) /\ q # <<>>
        /\ rows \in [Ids -> Snapshots \cup {NoRow}] /\ IdOf[s] \in Ids
        /\ s \in Requests
    BY SubmissionAssumption DEF IInv, Save, Table!Apply, Table!Drop, Table!TypeOK
  <1>2. req' = req /\ todo' = [todo EXCEPT ![i] = Tail(q)]
    BY DEF Save, Table!Apply, Table!Drop
  <1>3. h \in Snapshots /\ h # NoRow
    BY <1>1, SubmissionAssumption
  <1>4. \/ rows' = [rows EXCEPT ![i] = h]
        \/ /\ rows' = rows
           /\ h.req \notin Unsafe =>
                 rows[i] # NoRow /\ AccountOf[rows[i].req] # AccountOf[h.req]
    <2>1. CASE Table!Apply(i)
      BY <2>1 DEF Table!Apply
    <2>2. CASE Table!Drop(i) /\ ~Table!Accepts(rows[i], h)
      <3>1. rows[i] \in Snapshots
        BY <1>1, <2>2 DEF Table!Accepts
      <3> QED  BY <1>3, <2>2, <3>1 DEF Table!Drop, Table!Accepts
    <2>3. CASE Table!Drop(i) /\ h.req \in Unsafe
      BY <2>3 DEF Table!Drop
    <2> QED  BY <2>1, <2>2, <2>3 DEF Save
  <1> HIDE DEF q
  <1>5. /\ h = q[1] /\ Len(q) \in Nat /\ Len(q) >= 1
        /\ DOMAIN q = 1..Len(q) /\ DOMAIN Tail(q) = 1..(Len(q) - 1)
        /\ \A k \in 1..(Len(q) - 1) : Tail(q)[k] = q[k + 1]
    BY <1>1, TailPlaces
  <1> HIDE DEF h
  <1>6. CASE IdOf[s] # i
    <2>1. todo'[IdOf[s]] = todo[IdOf[s]] /\ rows'[IdOf[s]] = rows[IdOf[s]]
      BY <1>1, <1>2, <1>4, <1>6
    <2>2. Called(s)' = Called(s)
      BY <2>1 DEF Called
    <2> QED  BY <1>2, <2>1, <2>2 DEF Traced
  <1>7. CASE IdOf[s] = i
    <2>1. todo'[i] = Tail(q)
      BY <1>1, <1>2
    <2>2. Called(s) = {k \in 1..Len(q) : q[k].req = s}
      BY <1>5, <1>7 DEF Called, q
    <2>3. Called(s)' = {k \in 1..(Len(q) - 1) : q[k + 1].req = s}
      BY <1>5, <1>7, <2>1 DEF Called
    <2>4. \A k \in 1..(Len(q) - 1) : k \in Called(s)' <=> k + 1 \in Called(s)
      BY <1>5, <2>2, <2>3
    <2>5. Called(s)' = {} => Called(s) \subseteq {1}
      <3> SUFFICES ASSUME Called(s)' = {}, NEW k \in Called(s), k # 1
                   PROVE  FALSE
        OBVIOUS
      <3>1. k - 1 \in 1..(Len(q) - 1) /\ (k - 1) + 1 = k
        BY <1>5, <2>2
      <3> QED  BY <2>4, <3>1
    <2>6. rows'[i] # NoRow \/ rows'[i] = rows[i]
      BY <1>1, <1>3, <1>4
    <2>7. rows'[i] # NoRow /\ rows'[i].req = s =>
             \/ rows'[i] = h /\ 1 \in Called(s)
             \/ rows'[i] = rows[i] /\ 1 \notin Called(s)
      <3>1. 1 \in Called(s) <=> h.req = s
        BY <1>5, <2>2
      <3>2. CASE rows' = [rows EXCEPT ![i] = h]
        BY <1>1, <3>1, <3>2
      <3>3. CASE rows' = rows /\ (h.req \notin Unsafe =>
                    rows[i] # NoRow /\ AccountOf[rows[i].req] # AccountOf[h.req])
        BY <3>1, <3>3
      <3> QED  BY <1>4, <3>2, <3>3
    <2>8. req[s].sends = 0 =>
             Called(s)' = {} /\ (rows'[i] # NoRow => rows'[i].req # s)
      BY <1>7, <2>3, <2>4, <2>7 DEF Traced
    <2>9. ASSUME req[s].step = "active", req[s].sends > 0
          PROVE  /\ rows'[i] # NoRow \/ Called(s)' # {}
                 /\ \A k \in Called(s)' : (\A j \in Called(s)' : j <= k) =>
                       todo'[i][k].state = req[s].state
                 /\ Called(s)' = {} /\ rows'[i] # NoRow /\ rows'[i].req = s =>
                       rows'[i].state = req[s].state
      <3>1. rows'[i] # NoRow \/ Called(s)' # {}
        <4> SUFFICES ASSUME rows'[i] = NoRow
                     PROVE  Called(s)' # {}
          OBVIOUS
        <4>1. rows'[i] = rows[i] /\ Called(s) # {}
          BY <1>7, <2>6, <2>9 DEF Traced
        <4>2. rows' = rows /\ h.req \in Unsafe
          BY <1>1, <1>3, <1>4, <4>1
        <4>3. 1 \notin Called(s)
          BY <1>5, <2>2, <4>2
        <4> QED  BY <2>5, <4>1, <4>3
      <3>2. ASSUME NEW k \in Called(s)', \A j \in Called(s)' : j <= k
            PROVE  todo'[i][k].state = req[s].state
        <4>1. k \in 1..(Len(q) - 1) /\ k + 1 \in Called(s)
          BY <2>3, <2>4
        <4>2. ASSUME NEW j \in Called(s), ~(j <= k + 1)
              PROVE  FALSE
          <5>1. j \in 1..Len(q) /\ j - 1 \in 1..(Len(q) - 1) /\ (j - 1) + 1 = j
            BY <1>5, <2>2, <4>1, <4>2
          <5>2. j - 1 \in Called(s)'
            BY <2>4, <5>1
          <5> QED  BY <3>2, <4>1, <4>2, <5>1, <5>2
        <4>3. todo[i][k + 1].state = req[s].state
          BY <1>7, <2>9, <4>1, <4>2 DEF Traced
        <4> QED  BY <1>5, <2>1, <4>1, <4>3 DEF q
      <3>3. ASSUME Called(s)' = {}, rows'[i] # NoRow, rows'[i].req = s
            PROVE  rows'[i].state = req[s].state
        <4>1. CASE rows'[i] = h /\ 1 \in Called(s)
          <5>1. \A j \in Called(s) : j <= 1
            BY <2>5, <3>3
          <5>2. todo[i][1].state = req[s].state
            BY <1>7, <2>9, <4>1, <5>1 DEF Traced
          <5> QED  BY <1>5, <4>1, <5>2 DEF q
        <4>2. CASE rows'[i] = rows[i] /\ 1 \notin Called(s)
          <5>1. Called(s) = {}
            BY <2>5, <3>3, <4>2
          <5> QED  BY <1>7, <2>9, <3>3, <4>2, <5>1 DEF Traced
        <4> QED  BY <2>7, <3>3, <4>1, <4>2
      <3> QED  BY <3>1, <3>2, <3>3
    <2> QED  BY <1>2, <1>7, <2>8, <2>9 DEF Traced
  <1> QED  BY <1>6, <1>7

\* So does every other step.
LEMMA StepTraced ==
    ASSUME IInv, TraceInv, [Next]_vars
    PROVE  TraceInv'
  <1> SUFFICES ASSUME NEW s \in Recorded \ Unsafe, Traced(s)
               PROVE  Traced(s)'
    BY DEF TraceInv
  <1>1. ASSUME NEW r \in Requests, Handler(r) \/ RippleLib(r)
        PROVE  Traced(s)'
    BY <1>1, HandlerTurn, RippleLibTurn, TurnTraced
  <1>2. ASSUME NEW i \in Ids, Save(i)
        PROVE  Traced(s)'
    BY <1>2, SaveTraced
  <1>3. CASE Crash
    <2>1. /\ IdOf[s] \in Ids /\ s \in Requests /\ req[s] \in Conversations
          /\ \A i \in Ids : todo'[i] = <<>>
          /\ rows' = rows
      BY <1>3, SubmissionAssumption DEF Crash, Table!Crash, IInv
    <2>2. Called(s)' = {}
      BY <2>1 DEF Called
    <2>3. req'[s].sends = req[s].sends /\ req'[s].step # "active"
      BY <1>3, <2>1 DEF Crash, Conversations
    <2> QED  BY <2>1, <2>2, <2>3 DEF Traced
  <1>4. CASE UNCHANGED vars
    <2>1. Called(s)' = Called(s)
      BY <1>4 DEF vars, Called
    <2> QED  BY <1>4, <2>1 DEF vars, Traced
  <1> QED  BY <1>1, <1>2, <1>3, <1>4 DEF Next

\* The 'postsubmit' and 'state' listeners of a payment, whatever else goes on:
\* what they save is there, is in order, and ends with the present state.
THEOREM TracesKept == Spec => []TraceInv
  <1>1. Init => TraceInv
    <2> SUFFICES ASSUME Init, NEW s \in Recorded
                 PROVE  Traced(s)
      BY DEF TraceInv
    <2>1. s \in Requests /\ IdOf[s] \in Ids
      BY SubmissionAssumption
    <2>2. req[s].sends = 0 /\ todo[IdOf[s]] = <<>> /\ rows[IdOf[s]] = NoRow
      BY <2>1 DEF Init, Table!Init, Fresh
    <2> QED  BY <2>2 DEF Traced, Called
  <1>2. IInv /\ TraceInv /\ [Next]_vars => TraceInv'
    BY StepTraced
  <1> QED  BY <1>1, <1>2, Invariance, PTL DEF Spec

\* A payment that ripple-lib has been told to send, and whose saves do not
\* fail, has a row or a save of its own under way as long as the process lives.
THEOREM TraceLeft == Spec => []SubmittedIsRecorded
  <1>1. TraceInv => SubmittedIsRecorded
    BY DEF TraceInv, Traced, SubmittedIsRecorded
  <1> QED  BY <1>1, TracesKept, PTL

\* The newest of the saves of such a payment, or else the row that it has, is
\* the state that the transaction has now.
THEOREM NewestCurrent == Spec => []NewestSaveIsCurrent
  <1>1. IInv /\ TraceInv => NewestSaveIsCurrent
    <2> SUFFICES ASSUME IInv, NEW r \in Recorded \ Unsafe, Traced(r),
                        req[r].step = "active"
                 PROVE  /\ \A k \in Called(r) : (\A j \in Called(r) : j <= k) =>
                              todo[IdOf[r]][k].state = req[r].state
                        /\ Called(r) = {} /\ rows[IdOf[r]] # NoRow
                           /\ rows[IdOf[r]].req = r =>
                              rows[IdOf[r]].state = req[r].state
      BY DEF NewestSaveIsCurrent, TraceInv
    <2>1. req[r].sends \in Nat
      BY SubmissionAssumption DEF IInv, Conversations
    <2>2. CASE req[r].sends = 0
      BY <2>2 DEF Traced
    <2>3. CASE req[r].sends > 0
      BY <2>3 DEF Traced
    <2> QED  BY <2>1, <2>2, <2>3
  <1> QED  BY <1>1, Invariance, TracesKept, PTL
-----------------------------------------------------------------------------
(* The row of a payment that is final does not change any more.  A final
   state is the last that a turn saves, and the request is gone then: no save
   follows it into the queue, so that none overtakes it.                    *)

\* The saves and the row of an identifier are those of its requests.
AtHome ==
    \A i \in Ids :
       /\ \A k \in DOMAIN todo[i] : IdOf[todo[i][k].req] = i
       /\ rows[i] # NoRow => IdOf[rows[i].req] = i

\* A final save of r is its last, and nothing of r follows its final row.
LastWord(r) ==
    /\ \A k \in Called(r) : todo[IdOf[r]][k].state \in Final =>
          Gone(r) /\ \A j \in Called(r) : j <= k
    /\ /\ rows[IdOf[r]] # NoRow
       /\ rows[IdOf[r]].req = r
       /\ rows[IdOf[r]].state \in Final
       => Gone(r) /\ Called(r) = {}

RowInv == AtHome /\ \A r \in Requests : LastWord(r)

-----------------------------------------------------------------------------
\* A queue to which the saves of a turn are added.
LEMMA Appended ==
    ASSUME NEW S, NEW q \in Seq(S), NEW new \in Seq(S)
    PROVE  /\ Len(q) \in Nat /\ Len(new) \in Nat
           /\ DOMAIN q = 1..Len(q) /\ DOMAIN new = 1..Len(new)
           /\ DOMAIN (q \o new) = 1..(Len(q) + Len(new))
           /\ \A k \in 1..Len(q) : (q \o new)[k] = q[k]
           /\ \A k \in Len(q) + 1 .. Len(q) + Len(new) :
                 k - Len(q) \in 1..Len(new) /\ (q \o new)[k] = new[k - Len(q)]
  OBVIOUS

\* A turn that saves a final state is the last of its request.
LEMMA FinalSave ==
    ASSUME NEW r \in Requests, NEW c, Turn(r, c), req \in [Requests -> Conversations],
           NEW k \in DOMAIN c.saves, c.saves[k] \in Final
    PROVE  k = Len(c.saves) /\ Gone(r)'
  <1>1. c \in Conversations /\ ConversationInv(r, c) /\ Current(r, req[r].state, c)
    BY DEF Turn, ConversationInv
  <1>2. k = Len(c.saves) /\ c.saves # <<>>
    BY <1>1 DEF Current, FinalLast
  <1>3. c.state \in Final
    BY <1>1, <1>2 DEF Current
  <1>4. req'[r].step = c.step /\ req'[r].final = c.final
    <2>1. req'[r] = [c EXCEPT !.saves = <<>>]
      BY DEF Turn, Commit
    <2> QED  BY <1>1, <2>1 DEF Conversations
  <1>5. c.step \notin {"idle", "checking", "checked"}
    <2> SUFFICES ASSUME c.step \in {"idle", "checking", "checked"}
                 PROVE  FALSE
      OBVIOUS
    <2>1. c.saves = <<>>
      BY <1>1 DEF ConversationInv, Fresh
    <2> QED  BY <1>2, <2>1
  <1>6. c.step = "active" => c.final
    BY <1>1, <1>3 DEF ConversationInv, Open
  <1>7. c.step \in Steps
    BY <1>1 DEF Conversations
  <1> QED  BY <1>2, <1>4, <1>5, <1>6, <1>7 DEF Gone, Steps

\* A turn adds saves of its own request only, and none once that is gone.
LEMMA TurnLast ==
    ASSUME IInv, RowInv, NEW r \in Requests, NEW c, Turn(r, c)
    PROVE  RowInv'
  <1> DEFINE i == IdOf[r]
             q == todo[i]
             new == [k \in 1..Len(c.saves) |-> [req |-> r, state |-> c.saves[k]]]
  <1>1. /\ i \in Ids /\ \A s \in Requests : IdOf[s] \in Ids
        /\ todo \in [Ids -> Seq(Snapshots)]
        /\ req \in [Requests -> Conversations] /\ c \in Conversations
        /\ c.saves \in Seq(TxStates) /\ q \in Seq(Snapshots)
    BY SubmissionAssumption
    DEF IInv, Turn, ConversationInv, Conversations, Table!TypeOK
  <1>2. /\ req' = [req EXCEPT ![r] = [c EXCEPT !.saves = <<>>]]
        /\ todo' = [todo EXCEPT ![i] = q \o new]
        /\ rows' = rows
    BY DEF Turn, Commit
  <1>3. /\ new \in Seq(Snapshots) /\ Len(new) = Len(c.saves)
        /\ DOMAIN c.saves = 1..Len(new)
        /\ \A k \in 1..Len(new) : new[k].req = r /\ new[k].state = c.saves[k]
    BY <1>1 DEF Snapshots
  <1> HIDE DEF q, new
  <1>4. /\ Len(q) \in Nat /\ Len(new) \in Nat
        /\ DOMAIN q = 1..Len(q)
        /\ DOMAIN (q \o new) = 1..(Len(q) + Len(new))
        /\ \A k \in 1..Len(q) : (q \o new)[k] = q[k]
        /\ \A k \in Len(q) + 1 .. Len(q) + Len(new) :
              k - Len(q) \in 1..Len(new) /\ (q \o new)[k] = new[k - Len(q)]
    <2>1. q \in Seq(Snapshots) /\ new \in Seq(Snapshots)
      BY <1>1, <1>3
    <2> QED  BY <2>1, Appended
  <1>5. todo'[i] = q \o new /\ \A j \in Ids : j # i => todo'[j] = todo[j]
    BY <1>1, <1>2
  <1>6. ASSUME NEW k \in DOMAIN (q \o new)
        PROVE  \/ k \in DOMAIN q /\ (q \o new)[k] = q[k]
               \/ /\ k > Len(q) /\ k - Len(q) \in DOMAIN c.saves
                  /\ (q \o new)[k].req = r
                  /\ (q \o new)[k].state = c.saves[k - Len(q)]
    <2>1. CASE k \in 1..Len(q)
      BY <1>4, <2>1
    <2>2. CASE k \in Len(q) + 1 .. Len(q) + Len(new)
      BY <1>3, <1>4, <2>2
    <2> QED  BY <1>4, <1>6, <2>1, <2>2
  <1>7. AtHome'
    <2> SUFFICES ASSUME NEW j \in Ids
                 PROVE  /\ \A k \in DOMAIN todo'[j] : IdOf[todo'[j][k].req] = j
                        /\ rows'[j] # NoRow => IdOf[rows'[j].req] = j
      BY DEF AtHome
    <2>1. CASE j = i
      <3>1. \A k \in DOMAIN q : IdOf[q[k].req] = i
        BY <1>1 DEF RowInv, AtHome, q
      <3> QED  BY <1>2, <1>5, <1>6, <2>1, <3>1 DEF RowInv, AtHome
    <2>2. CASE j # i
      BY <1>2, <1>5, <2>2 DEF RowInv, AtHome
    <2> QED  BY <2>1, <2>2
  <1>8. ASSUME NEW s \in Requests, s # r
        PROVE  LastWord(s)'
    <2>1. req'[s] = req[s] /\ LastWord(s) /\ IdOf[s] \in Ids
      BY <1>1, <1>2, <1>8 DEF RowInv
    <2>2. Gone(s)' = Gone(s)
      BY <2>1 DEF Gone
    <2>3. /\ Called(s)' = Called(s)
          /\ \A k \in Called(s) : todo'[IdOf[s]][k] = todo[IdOf[s]][k]
      <3>1. CASE IdOf[s] # i
        BY <1>5, <2>1, <3>1 DEF Called
      <3>2. CASE IdOf[s] = i
        <4>1. Called(s)' = {k \in DOMAIN (q \o new) : (q \o new)[k].req = s}
          BY <1>5, <3>2 DEF Called
        <4>2. Called(s) = {k \in DOMAIN q : q[k].req = s}
          BY <3>2 DEF Called, q
        <4>3. \A k \in DOMAIN q : k \in DOMAIN (q \o new) /\ (q \o new)[k] = q[k]
          BY <1>4
        <4>4. Called(s)' = Called(s)
          BY <1>6, <1>8, <4>1, <4>2, <4>3
        <4> QED  BY <1>5, <3>2, <4>2, <4>3, <4>4 DEF q
      <3> QED  BY <3>1, <3>2
    <2> QED  BY <1>2, <2>1, <2>2, <2>3 DEF LastWord
  <1>9. LastWord(r)'
    <2>1. LastWord(r) /\ ~Gone(r)
      BY DEF RowInv, Turn
    <2>2. Called(r)' = {k \in DOMAIN (q \o new) : (q \o new)[k].req = r}
      BY <1>5 DEF Called
    <2>3. Called(r) = {k \in DOMAIN q : q[k].req = r}
      BY DEF Called, q
    <2>4. ASSUME NEW k \in Called(r)', (q \o new)[k].state \in Final
          PROVE  Gone(r)' /\ \A j \in Called(r)' : j <= k
      <3>1. k \in DOMAIN (q \o new) /\ (q \o new)[k].req = r
        BY <2>2
      <3>2. ~(k \in DOMAIN q /\ (q \o new)[k] = q[k])
        <4> SUFFICES ASSUME k \in DOMAIN q, (q \o new)[k] = q[k]
                     PROVE  FALSE
          OBVIOUS
        <4>1. k \in Called(r) /\ todo[i][k].state \in Final
          BY <2>3, <2>4, <3>1 DEF q
        <4> QED  BY <2>1, <4>1 DEF LastWord
      <3>3. k - Len(q) \in DOMAIN c.saves /\ c.saves[k - Len(q)] \in Final
        BY <1>6, <2>4, <3>1, <3>2
      <3>4. k - Len(q) = Len(c.saves) /\ Gone(r)'
        BY <1>1, <3>3, FinalSave
      <3>5. k = Len(q) + Len(new)
        BY <1>3, <1>4, <3>1, <3>4
      <3> QED  BY <1>4, <2>2, <3>4, <3>5
    <2>5. ~(/\ rows'[i] # NoRow
            /\ rows'[i].req = r
            /\ rows'[i].state \in Final)
      BY <1>2, <2>1 DEF LastWord
    <2> QED  BY <1>5, <2>4, <2>5 DEF LastWord
  <1> QED  BY <1>7, <1>8, <1>9 DEF RowInv

\* A save takes effect at the head of the queue, or is lost.  If it is final
\* there is no other of its request behind it.
LEMMA SaveLast ==
    ASSUME IInv, RowInv, NEW i \in Ids, Save(i)
    PROVE  RowInv'
  <1> DEFINE q == todo[i]
             h == Head(q)
  <1>1. /\ todo \in [Ids -> Seq(Snapshots)] /\ q \in Seq(Snapshots) /\ q # <<>>
        /\ rows \in [Ids -> Snapshots \cup {NoRow}]
        /\ \A s \in Requests : IdOf[s] \in Ids
    BY SubmissionAssumption DEF IInv, Save, Table!Apply, Table!Drop, Table!TypeOK
  <1>2. req' = req /\ todo' = [todo EXCEPT ![i] = Tail(q)]
    BY DEF Save, Table!Apply, Table!Drop
  <1>3. rows' = rows \/ rows' = [rows EXCEPT ![i] = h]
    BY DEF Save, Table!Apply, Table!Drop
  <1> HIDE DEF q
  <1>4. /\ h = q[1] /\ Len(q) \in Nat /\ Len(q) >= 1
        /\ DOMAIN q = 1..Len(q) /\ DOMAIN Tail(q) = 1..(Len(q) - 1)
        /\ \A k \in 1..(Len(q) - 1) : Tail(q)[k] = q[k + 1]
    BY <1>1, TailPlaces
  <1> HIDE DEF h
  <1>5. todo'[i] = Tail(q) /\ \A j \in Ids : j # i => todo'[j] = todo[j]
    BY <1>1, <1>2
  <1>6. /\ rows'[i] = rows[i] \/ rows'[i] = h
        /\ \A j \in Ids : j # i => rows'[j] = rows[j]
    BY <1>1, <1>3
  <1>7. \A k \in DOMAIN Tail(q) : k + 1 \in DOMAIN q /\ Tail(q)[k] = q[k + 1]
    BY <1>4
  <1>8. \A k \in DOMAIN q : IdOf[q[k].req] = i
    BY DEF RowInv, AtHome, q
  <1>9. AtHome'
    <2> SUFFICES ASSUME NEW j \in Ids
                 PROVE  /\ \A k \in DOMAIN todo'[j] : IdOf[todo'[j][k].req] = j
                        /\ rows'[j] # NoRow => IdOf[rows'[j].req] = j
      BY DEF AtHome
    <2>1. CASE j = i
      <3>1. IdOf[h.req] = i
        BY <1>4, <1>8
      <3>2. \A k \in DOMAIN Tail(q) : IdOf[Tail(q)[k].req] = i
        BY <1>7, <1>8
      <3> QED  BY <1>5, <1>6, <2>1, <3>1, <3>2 DEF RowInv, AtHome
    <2>2. CASE j # i
      BY <1>5, <1>6, <2>2 DEF RowInv, AtHome
    <2> QED  BY <2>1, <2>2
  <1>10. ASSUME NEW s \in Requests
         PROVE  LastWord(s)'
    <2>1. LastWord(s) /\ Gone(s)' = Gone(s) /\ IdOf[s] \in Ids
      BY <1>1, <1>2 DEF RowInv, Gone
    <2>2. CASE IdOf[s] # i
      <3>1. Called(s)' = Called(s)
        BY <1>5, <2>1, <2>2 DEF Called
      <3> QED  BY <1>5, <1>6, <2>1, <2>2, <3>1 DEF LastWord
    <2>3. CASE IdOf[s] = i
      <3>1. Called(s) = {k \in DOMAIN q : q[k].req = s}
        BY <2>3 DEF Called, q
      <3>2. Called(s)' = {k \in DOMAIN Tail(q) : Tail(q)[k].req = s}
        BY <1>5, <2>3 DEF Called
      <3>3. \A k \in Called(s)' : k \in Nat /\ k >= 1 /\ k + 1 \in Called(s)
        BY <1>4, <1>7, <3>1, <3>2
      <3>4. ASSUME NEW k \in Called(s)', Tail(q)[k].state \in Final
            PROVE  Gone(s) /\ \A j \in Called(s)' : j <= k
        <4>1. k + 1 \in Called(s) /\ q[k + 1].state \in Final
          BY <1>7, <3>2, <3>3, <3>4
        <4>2. Gone(s) /\ \A j \in Called(s) : j <= k + 1
          BY <2>1, <2>3, <4>1 DEF LastWord, q
        <4>3. ASSUME NEW j \in Called(s)'
              PROVE  j <= k
          BY <3>3, <4>2, <4>3
        <4> QED  BY <4>2, <4>3
      <3>5. ASSUME rows'[i] # NoRow, rows'[i].req = s, rows'[i].state \in Final
            PROVE  Gone(s) /\ Called(s)' = {}
        <4>1. CASE rows'[i] = h
          <5>1. 1 \in Called(s) /\ q[1].state \in Final
            BY <1>4, <3>1, <3>5, <4>1
          <5>2. Gone(s) /\ \A j \in Called(s) : j <= 1
            BY <2>1, <2>3, <5>1 DEF LastWord, q
          <5>3. ASSUME NEW k \in Called(s)'
                PROVE  FALSE
            BY <3>3, <5>2, <5>3
          <5> QED  BY <5>2, <5>3
        <4>2. CASE rows'[i] = rows[i]
          <5>1. Gone(s) /\ Called(s) = {}
            BY <2>1, <2>3, <3>5, <4>2 DEF LastWord
          <5> QED  BY <3>3, <5>1
        <4> QED  BY <1>6, <4>1, <4>2
      <3> QED  BY <1>5, <2>1, <2>3, <3>4, <3>5 DEF LastWord
    <2> QED  BY <2>2, <2>3
  <1> QED  BY <1>9, <1>10 DEF RowInv

\* A restart loses the saves under way and leaves the rows.
LEMMA CrashLast ==
    ASSUME IInv, RowInv, Crash
    PROVE  RowInv'
  <1>1. (\A i \in Ids : todo'[i] = <<>>) /\ rows' = rows
    BY DEF Crash, Table!Crash
  <1>2. AtHome'
    BY <1>1 DEF RowInv, AtHome
  <1>3. ASSUME NEW r \in Requests
        PROVE  LastWord(r)'
    <2>1. LastWord(r) /\ IdOf[r] \in Ids /\ req[r] \in Conversations
      BY SubmissionAssumption DEF RowInv, IInv
    <2>2. Called(r)' = {}
      BY <1>1, <2>1 DEF Called
    <2>3. Gone(r) => Gone(r)'
      <3>1. req'[r] = req[r] \/ req'[r].step = "crashed"
        BY <2>1 DEF Crash, Conversations
      <3> QED  BY <3>1 DEF Gone
    <2> QED  BY <1>1, <2>1, <2>2, <2>3 DEF LastWord
  <1> QED  BY <1>2, <1>3 DEF RowInv

\* No step lets anything follow a final save.
LEMMA StepLast ==
    ASSUME IInv, RowInv, [Next]_vars
    PROVE  RowInv'
  <1>1. ASSUME NEW r \in Requests, Handler(r) \/ RippleLib(r)
        PROVE  RowInv'
    BY <1>1, HandlerTurn, RippleLibTurn, TurnLast
  <1>2. ASSUME NEW i \in Ids, Save(i)
        PROVE  RowInv'
    BY <1>2, SaveLast
  <1>3. CASE Crash
    BY <1>3, CrashLast
  <1>4. CASE UNCHANGED vars
    <2>1. \A r \in Requests : Called(r)' = Called(r) /\ Gone(r)' = Gone(r)
      BY <1>4 DEF vars, Called, Gone
    <2> QED  BY <1>4, <2>1 DEF vars, RowInv, AtHome, LastWord
  <1> QED  BY <1>1, <1>2, <1>3, <1>4 DEF Next

\* In every behaviour nothing of a payment is saved after its final state.
THEOREM RowInvariance == Spec => [](IInv /\ RowInv)
  <1>1. Init => RowInv
    <2> SUFFICES ASSUME Init
                 PROVE  RowInv
      OBVIOUS
    <2>1. \A i \in Ids : todo[i] = <<>> /\ rows[i] = NoRow
      BY DEF Init, Table!Init
    <2>2. \A r \in Requests : IdOf[r] \in Ids
      BY SubmissionAssumption
    <2> QED  BY <2>1, <2>2 DEF RowInv, AtHome, LastWord, Called
  <1>2. IInv /\ RowInv /\ [Next]_vars => RowInv'
    BY StepLast
  <1> QED  BY <1>1, <1>2, Invariance, PTL DEF Spec

\* FinalRowStays: the row of a payment that was validated or failed is the last
\* word on it, through resends, aborts, restarts and saves that fail; only
\* another payment with its client_resource_id can replace it.
THEOREM FinalRowKept == Spec => FinalRowStays
  <1> DEFINE Kept ==
        \A i \in Ids : rows[i] # NoRow /\ rows[i].state \in Final =>
           rows'[i].req # rows[i].req \/ rows'[i] = rows[i]
  <1>1. ASSUME IInv, RowInv, Next
        PROVE  Kept
    <2> SUFFICES ASSUME NEW i \in Ids, rows[i] # NoRow, rows[i].state \in Final,
                        rows'[i].req = rows[i].req
                 PROVE  rows'[i] = rows[i]
      OBVIOUS
    <2>1. CASE rows' = rows
      BY <2>1
    <2>2. ASSUME NEW j \in Ids, Table!Apply(j)
          PROVE  rows'[i] = rows[i]
      <3>1. /\ rows' = [rows EXCEPT ![j] = Head(todo[j])] /\ todo[j] # <<>>
            /\ todo[j] \in Seq(Snapshots)
            /\ rows \in [Ids -> Snapshots \cup {NoRow}]
        BY <1>1, <2>2 DEF Table!Apply, IInv, Table!TypeOK
      <3>2. CASE j # i
        BY <3>1, <3>2
      <3>3. CASE j = i
        <4> DEFINE r == rows[i].req
        <4>1. r \in Requests /\ IdOf[r] = i
          BY <1>1, <3>1 DEF Snapshots, RowInv, AtHome
        <4>2. Called(r) = {}
          BY <1>1, <4>1 DEF RowInv, LastWord
        <4>3. Head(todo[i]).req = r
          BY <3>1, <3>3
        <4>4. 1 \in DOMAIN todo[i] /\ todo[i][1] = Head(todo[i])
          BY <3>1, <3>3, TailPlaces
        <4>5. 1 \in Called(r)
          BY <4>1, <4>3, <4>4 DEF Called
        <4> QED  BY <4>2, <4>5
      <3> QED  BY <3>2, <3>3
    <2> QED
      BY <1>1, <2>1, <2>2
      DEF Next, Handler, Receive, CheckDuplicate, Refuse, Submit, RippleLib,
          Send, Respond, Validate, Fail, Commit, Save, Table!Drop, Crash, Table!Crash
  <1>2. UNCHANGED vars => Kept
    BY DEF vars
  <1>3. IInv /\ RowInv /\ [Next]_vars => [Kept]_vars
    BY <1>1, <1>2
  <1> QED  BY <1>3, RowInvariance, PTL DEF Spec, FinalRowStays
=============================================================================
