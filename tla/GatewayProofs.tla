---------------------------- MODULE GatewayProofs ----------------------------
(***************************************************************************)
(* Theorems about Gateway, for any requests and any number of ledgers:     *)
(* type correctness, how often a callback is called, and what ends the     *)
(* process.                                                                *)
(*                                                                         *)
(* The invariant says which request to the remote may be under way for a   *)
(* handler: the one it waits for, or that of a path find that timed out    *)
(* and has no listeners any more.  So an answer that is heard comes to a   *)
(* handler that has not called back, except the second one of a            *)
(* transaction that was submitted.                                         *)
(***************************************************************************)
EXTENDS Gateway, SequenceTheorems, TLAPS

Records ==
    [kind : Kinds \cup {None}, at : Places, listens : BOOLEAN, found : BOOLEAN,
     replies : Seq(Outcomes), status : Statuses \cup {None}]

\* What was answered, and where the handler is.
RecordInv(c) ==
    /\ c \in Records
    /\ c.at \in {"idle", "info", "paths", "balance"} => c.replies = <<>>
    /\ c.status = None <=> c.replies = <<>>
    /\ c.listens => c.at = "paths"
    /\ c.at = "info" => c.kind \in {"status", "notification"}
    /\ c.at = "handler" =>
          \/ c.replies = <<>>
          \/ c.kind \in Submitting /\ c.replies \in {<<"ok">>, <<"ok", "ok">>}
    /\ c.at = "over" =>
          \/ \E out \in Outcomes : c.replies = <<out>>
          \/ c.kind \in Submitting /\ c.replies = <<"ok", "ok">>

\* The requests of r that are under way.
CallsInv(r) ==
    \A what \in Places : Waiting(r, what) =>
       \/ req[r].at = what
       \/ what = "paths" /\ req[r].at = "over"

IInv ==
    /\ ConnectionTypeOK
    /\ req \in [Requests -> Records]
    /\ calls \subseteq Call
    /\ alive \in BOOLEAN
    /\ \A r \in Requests : RecordInv(req[r]) /\ CallsInv(r)

\* A reason for the process to end in this step.
Reason ==
    \E r \in Requests :
       \/ req[r].kind \in Submitting /\ req'[r].replies = <<"ok", "ok">>
       \/ /\ req[r].kind = "notification" /\ HasServer
          /\ [req |-> r, what |-> "info"] \in calls \ calls'
       \/ /\ req[r].kind \in Searching /\ req[r].replies = <<>>
          /\ [req |-> r, what |-> "handler"] \in calls \ calls'

-----------------------------------------------------------------------------
\* A step that alters the record of r and takes requests away, or adds one
\* that the handler of r waits for.
LEMMA RecordStep ==
    ASSUME IInv, NEW r \in Requests, NEW c, RecordInv(c), Alter(r, c),
           ConnectionTypeOK', alive' \in BOOLEAN, calls' \subseteq Call,
           \A o \in Requests, what \in Places :
              Waiting(o, what)' => \/ Waiting(o, what)
                                   \/ o = r /\ c.at = what,
           \A what \in Places : Waiting(r, what)' =>
              c.at = what \/ (what = "paths" /\ c.at = "over")
    PROVE  IInv'
  <1>1. req' \in [Requests -> Records]
    BY DEF IInv, Alter, RecordInv
  <1>2. req'[r] = c /\ \A o \in Requests : o # r => req'[o] = req[o]
    BY DEF IInv, Alter
  <1>3. ASSUME NEW o \in Requests
        PROVE  RecordInv(req'[o])
    BY <1>2 DEF IInv
  <1>4. CallsInv(r)'
    BY <1>2 DEF CallsInv
  <1>5. ASSUME NEW o \in Requests, o # r
        PROVE  CallsInv(o)'
    <2>1. CallsInv(o)
      BY DEF IInv
    <2> QED  BY <1>2, <1>5, <2>1 DEF CallsInv
  <1> QED  BY <1>1, <1>3, <1>4, <1>5 DEF IInv

\* The record of r becomes d, which is c with out as its only answer.
Replied(r, c, out, d) ==
    /\ Alter(r, d) /\ d.replies = <<out>> /\ d.status # None
    /\ d.kind = c.kind /\ d.at = c.at /\ d.listens = c.listens

\* The first answer of a handler.
LEMMA FirstAnswer ==
    ASSUME NEW r \in Requests, NEW c \in Records, NEW out \in Outcomes,
           c.replies = <<>>, c.status = None, CallBack(r, c, out)
    PROVE  /\ alive' = TRUE
           /\ \E d \in Records : Replied(r, c, out, d)
  <1> DEFINE q == Append(c.replies, out)
             n == HttpStatus(c.kind, out)
             d == [c EXCEPT !.replies = q,
                            !.status = IF c.status = None THEN n ELSE c.status]
  <1>1. n \in Statuses
    <2>1. out \in {"ok", "InvalidRequestError", "NotFoundError", "missing",
                   "RippledNetworkError", "TimeOutError", "ApiError", "other"}
      BY DEF Outcomes, Errors
    <2>2. CASE out = "ok"
      BY <2>2 DEF HttpStatus, Statuses
    <2>3. CASE out = "InvalidRequestError"
      BY <2>3 DEF HttpStatus, Statuses
    <2>4. CASE out = "NotFoundError" \/ out = "missing"
      BY <2>4 DEF HttpStatus, Statuses
    <2>5. CASE out = "RippledNetworkError"
      BY <2>5 DEF HttpStatus, Statuses
    <2>6. CASE out = "TimeOutError"
      BY <2>6 DEF HttpStatus, Statuses
    <2>7. CASE out = "ApiError" \/ out = "other"
      <3>1. /\ out # "ok" /\ out # "InvalidRequestError"
            /\ out # "RippledNetworkError" /\ out # "TimeOutError"
            /\ out \notin {"NotFoundError", "missing"}
            /\ out \in {"ApiError", "other"}
        BY <2>7
      <3>2. HttpStatus(c.kind, out) = 500
        BY <3>1 DEF HttpStatus
      <3> QED  BY <3>2 DEF Statuses
    <2> QED  BY <2>1, <2>2, <2>3, <2>4, <2>5, <2>6, <2>7
  <1>2. n # None
    BY <1>1, GatewayAssumption DEF Statuses
  <1>3. q = <<out>> /\ q \in Seq(Outcomes)
    OBVIOUS
  <1>4. Alter(r, d) /\ alive' = (out # "ok" \/ c.status = None)
    BY DEF CallBack
  <1> HIDE DEF q, n
  <1>5. /\ d \in Records /\ d.replies = q /\ d.status = n
        /\ d.kind = c.kind /\ d.at = c.at /\ d.listens = c.listens
    BY <1>1, <1>3 DEF Records
  <1> HIDE DEF d
  <1> QED  BY <1>2, <1>3, <1>4, <1>5 DEF Replied

\* A handler that has not answered does, and is over.
LEMMA AnswerStep ==
    ASSUME IInv, NEW r \in Requests, NEW c \in Records, NEW out \in Outcomes,
           c.replies = <<>>, c.status = None, ~c.listens,
           Answer(r, c, out), ConnectionTypeOK', calls' \subseteq calls,
           \A what \in Places : Waiting(r, what)' => what = "paths"
    PROVE  IInv' /\ alive'
  <1> DEFINE b == [c EXCEPT !.at = "over"]
  <1>1. /\ b \in Records /\ b.replies = <<>> /\ b.status = None /\ ~b.listens
        /\ b.at = "over"
    BY DEF Records, Places
  <1>2. CallBack(r, b, out)
    BY DEF Answer
  <1> HIDE DEF b
  <1>3. alive' = TRUE
    BY <1>1, <1>2, FirstAnswer
  <1>4. PICK d \in Records : Replied(r, b, out, d)
    BY <1>1, <1>2, FirstAnswer
  <1>5. RecordInv(d) /\ Alter(r, d) /\ d.at = "over"
    BY <1>1, <1>4 DEF RecordInv, Replied
  <1>6. \A o \in Requests, what \in Places : Waiting(o, what)' => Waiting(o, what)
    BY DEF Waiting
  <1>7. calls' \subseteq Call
    BY DEF IInv
  <1> QED  BY <1>3, <1>5, <1>6, <1>7, RecordStep

\* A handler goes on with a request to the remote.
LEMMA GoOnStep ==
    ASSUME IInv, NEW r \in Requests, NEW c \in Records,
           NEW what \in Places \ {"idle", "over"}, NEW left \in SUBSET calls,
           c.replies = <<>>, c.status = None, c.listens => what = "paths",
           what = "info" => c.kind \in {"status", "notification"},
           GoOn(r, c, what, left), UNCHANGED connection,
           \A w \in Places : [req |-> r, what |-> w] \notin left
    PROVE  IInv' /\ alive' = alive
  <1> DEFINE d == [c EXCEPT !.at = what]
             call == [req |-> r, what |-> what]
  <1>1. /\ d \in Records /\ d.replies = <<>> /\ d.status = None
        /\ d.listens = c.listens /\ d.kind = c.kind /\ d.at = what
    BY DEF Records
  <1>2. Alter(r, d) /\ calls' = left \cup {call} /\ alive' = alive
    BY DEF GoOn
  <1> HIDE DEF d
  <1>3. RecordInv(d)
    BY <1>1 DEF RecordInv
  <1>4. calls' \subseteq Call
    BY <1>2 DEF IInv, Call
  <1>5. ASSUME NEW o \in Requests, NEW w \in Places, Waiting(o, w)'
        PROVE  Waiting(o, w) \/ (o = r /\ what = w)
    BY <1>2, <1>5 DEF Waiting
  <1>6. ASSUME NEW w \in Places, Waiting(r, w)'
        PROVE  w = what
    BY <1>2, <1>6 DEF Waiting
  <1>7. ConnectionTypeOK' /\ alive' \in BOOLEAN
    BY <1>2 DEF IInv, ConnectionTypeOK, connection
  <1> QED  BY <1>1, <1>2, <1>3, <1>4, <1>5, <1>6, <1>7, RecordStep

-----------------------------------------------------------------------------
(* The turns.                                                               *)

\* What the invariant says of a handler that waits, when the answer comes.
LEMMA Heard ==
    ASSUME IInv, NEW r \in Requests, NEW what \in {"info", "balance", "handler"},
           Waiting(r, what)
    PROVE  /\ req[r] \in Records /\ req[r].at = what /\ ~req[r].listens
           /\ what # "handler" => req[r].replies = <<>>
           /\ req[r].status = None <=> req[r].replies = <<>>
           /\ Others(r, what) \subseteq calls
           /\ \A w \in Places : [req |-> r, what |-> w] \notin Others(r, what)
  <1>1. RecordInv(req[r]) /\ CallsInv(r) /\ what \in Places
    BY DEF IInv, Places
  <1>2. req[r].at = what
    BY <1>1 DEF CallsInv
  <1>3. ASSUME NEW w \in Places, [req |-> r, what |-> w] \in Others(r, what)
        PROVE  FALSE
    <2>1. Waiting(r, w) /\ w # what
      BY <1>3 DEF Others, Waiting
    <2> QED  BY <1>1, <1>2, <2>1 DEF CallsInv
  <1> QED  BY <1>1, <1>2, <1>3 DEF RecordInv, Others

LEMMA ArriveTurn ==
    ASSUME IInv, NEW r \in Requests, NEW kind \in Kinds, Arrive(r, kind), alive
    PROVE  IInv' /\ alive'
  <1> DEFINE c == [req[r] EXCEPT !.kind = kind]
             listens == kind \in {"paths", "xrpPaths"}
             d == [c EXCEPT !.listens = listens]
  <1>1. RecordInv(req[r]) /\ CallsInv(r) /\ req[r].at = "idle"
    BY DEF IInv, Arrive
  <1>2. /\ c \in Records /\ c.replies = <<>> /\ c.status = None /\ ~c.listens
        /\ d \in Records /\ d.replies = <<>> /\ d.status = None
        /\ d.listens = listens /\ d.kind = kind
    <2>1. /\ req[r] \in Records /\ req[r].replies = <<>>
          /\ req[r].status = None /\ ~req[r].listens
      BY <1>1 DEF RecordInv
    <2>2. /\ c \in Records /\ c.replies = <<>> /\ c.status = None /\ ~c.listens
          /\ c.kind = kind
      BY <2>1 DEF Records
    <2> HIDE DEF c
    <2>3. listens \in BOOLEAN
      OBVIOUS
    <2> HIDE DEF listens
    <2>4. /\ d \in Records /\ d.replies = <<>> /\ d.status = None
          /\ d.listens = listens /\ d.kind = kind
      BY <2>2, <2>3 DEF Records
    <2> QED  BY <2>2, <2>4
  <1>3. /\ UNCHANGED connection
        /\ \/ \E out \in Outcomes : Answer(r, c, out) /\ UNCHANGED calls
           \/ kind # "now" /\ GoOn(r, d, Asks[kind], calls)
    <2>1. {"RippledNetworkError", "InvalidRequestError", "ok"} \subseteq Outcomes
      BY DEF Outcomes, Errors
    <2> QED  BY <2>1 DEF Arrive
  <1>4. ConnectionTypeOK'
    BY <1>3 DEF IInv, ConnectionTypeOK, connection
  <1>5. \A w \in Places : ~Waiting(r, w)
    BY <1>1 DEF CallsInv, IInv, Call, Waiting
  <1> HIDE DEF c, d
  <1>6. CASE \E out \in Outcomes : Answer(r, c, out) /\ UNCHANGED calls
    <2>1. \A w \in Places : ~Waiting(r, w)'
      BY <1>5, <1>6 DEF Waiting
    <2> QED  BY <1>2, <1>4, <1>6, <2>1, AnswerStep
  <1>7. CASE kind # "now" /\ GoOn(r, d, Asks[kind], calls)
    <2>1. /\ Asks[kind] \in {"info", "paths", "handler"}
          /\ listens => Asks[kind] = "paths"
          /\ Asks[kind] = "info" => kind \in {"status", "notification"}
      BY <1>7 DEF Asks
    <2>2. Asks[kind] \in Places \ {"idle", "over"}
      BY <2>1 DEF Places
    <2> QED  BY <1>2, <1>3, <1>5, <1>7, <2>1, <2>2, GoOnStep DEF Waiting
  <1> QED  BY <1>3, <1>6, <1>7

\* The answers to "info".
LEMMA StatusTurn ==
    ASSUME IInv, NEW r \in Requests, NEW complete, NEW l, alive,
           UNCHANGED connection,
           \/ StatusArrives(r, complete)
           \/ LedgerStatusArrives(r, complete, l)
           \/ StatusFails(r)
    PROVE  IInv' /\ (alive' \/ Reason)
  <1>1. Waiting(r, "info") /\ "info" \in Places /\ "handler" \in Places
    BY DEF StatusArrives, LedgerStatusArrives, StatusFails, Places
  <1> DEFINE left == Others(r, "info")
  <1>2. /\ req[r] \in Records /\ ~req[r].listens
        /\ req[r].replies = <<>> /\ req[r].status = None
        /\ left \subseteq calls
        /\ \A w \in Places : [req |-> r, what |-> w] \notin left
    BY <1>1, Heard
  <1>3. ConnectionTypeOK' /\ alive \in BOOLEAN
    BY DEF IInv, ConnectionTypeOK, connection
  <1>4. \/ \E out \in Outcomes : calls' = left /\ Answer(r, req[r], out)
        \/ GoOn(r, req[r], "handler", left)
        \/ /\ req[r].kind = "notification" /\ HasServer
           /\ calls' = left /\ alive' = FALSE /\ UNCHANGED req
    <2>1. {"ok", "RippledNetworkError", "NotFoundError", "other"} \subseteq Outcomes
      BY DEF Outcomes, Errors
    <2> QED  BY <2>1 DEF StatusArrives, LedgerStatusArrives, StatusFails
  <1> HIDE DEF left
  <1>5. CASE \E out \in Outcomes : calls' = left /\ Answer(r, req[r], out)
    <2>1. calls' \subseteq calls /\ \A w \in Places : ~Waiting(r, w)'
      BY <1>2, <1>5 DEF Waiting
    <2> QED  BY <1>2, <1>3, <1>5, <2>1, AnswerStep
  <1>6. CASE GoOn(r, req[r], "handler", left)
    BY <1>1, <1>2, <1>6, GoOnStep DEF Places
  <1>7. CASE /\ req[r].kind = "notification" /\ HasServer
             /\ calls' = left /\ alive' = FALSE /\ UNCHANGED req
    <2>1. Reason
      BY <1>1, <1>2, <1>7 DEF Reason, Waiting
    <2>2. \A o \in Requests, w \in Places : Waiting(o, w)' => Waiting(o, w)
      BY <1>2, <1>7 DEF Waiting
    <2>3. \A o \in Requests : RecordInv(req'[o]) /\ CallsInv(o)'
      BY <1>7, <2>2 DEF IInv, CallsInv
    <2>4. calls' \subseteq Call
      BY <1>2, <1>7 DEF IInv
    <2> QED  BY <1>3, <1>7, <2>1, <2>3, <2>4 DEF IInv
  <1> QED  BY <1>4, <1>5, <1>6, <1>7

\* A turn that only takes requests away.
LEMMA DropStep ==
    ASSUME IInv, ConnectionTypeOK', UNCHANGED req, alive' \in BOOLEAN,
           calls' \subseteq calls
    PROVE  IInv'
  <1>1. \A o \in Requests, w \in Places : Waiting(o, w)' => Waiting(o, w)
    BY DEF Waiting
  <1>2. \A o \in Requests : RecordInv(req'[o]) /\ CallsInv(o)'
    BY <1>1 DEF IInv, CallsInv
  <1>3. calls' \subseteq Call
    BY DEF IInv
  <1> QED  BY <1>2, <1>3 DEF IInv

\* The answers to "paths": nobody listens, or the handler waits for paths.
LEMMA PathsTurn ==
    ASSUME IInv, NEW r \in Requests, NEW found \in BOOLEAN,
           NEW takesXrp \in BOOLEAN, alive, UNCHANGED connection,
           PathsArrive(r, found, takesXrp) \/ PathsFail(r)
    PROVE  IInv' /\ alive'
  <1> DEFINE left == Others(r, "paths")
             c == [req[r] EXCEPT !.listens = FALSE]
             d == [req[r] EXCEPT !.listens = FALSE, !.found = found]
  <1>1. /\ Waiting(r, "paths") /\ "paths" \in Places /\ "balance" \in Places
        /\ RecordInv(req[r]) /\ CallsInv(r)
    BY DEF PathsArrive, PathsFail, IInv, Places
  <1>2. ConnectionTypeOK' /\ alive \in BOOLEAN
    BY DEF IInv, ConnectionTypeOK, connection
  <1>3. left \subseteq calls
    BY DEF Others
  <1>4. ASSUME NEW w \in Places, [req |-> r, what |-> w] \in left
        PROVE  FALSE
    <2>1. Waiting(r, w) /\ w # "paths"
      BY <1>4 DEF Others, Waiting
    <2>2. req[r].at = w
      BY <1>1, <2>1 DEF CallsInv
    <2>3. req[r].at \in {"paths", "over"}
      BY <1>1 DEF CallsInv
    <2>4. ~Waiting(r, "over")
      BY DEF IInv, Call, Waiting
    <2> QED  BY <2>1, <2>2, <2>3, <2>4
  <1>5. \/ calls' = left /\ UNCHANGED <<req, alive>>
        \/ req[r].listens /\ GoOn(r, d, "balance", left)
        \/ /\ req[r].listens /\ calls' = left
           /\ \E out \in Outcomes : Answer(r, c, out) \/ Answer(r, d, out)
    <2>1. {"missing", "other", "ok", "NotFoundError"} \subseteq Outcomes
      BY DEF Outcomes, Errors
    <2>2. FormatPath(found) \in Outcomes
      BY <2>1 DEF FormatPath
    <2>3. CASE PathsArrive(r, found, takesXrp)
      BY <2>2, <2>3 DEF PathsArrive
    <2>4. CASE PathsFail(r)
      BY <2>1, <2>4 DEF PathsFail
    <2> QED  BY <2>3, <2>4
  <1>6. /\ c \in Records /\ d \in Records /\ ~c.listens /\ ~d.listens
        /\ c.replies = req[r].replies /\ c.status = req[r].status
        /\ d.replies = req[r].replies /\ d.status = req[r].status
    BY <1>1 DEF RecordInv, Records
  <1>7. req[r].listens => req[r].replies = <<>> /\ req[r].status = None
    BY <1>1 DEF RecordInv
  <1> HIDE DEF left, c, d
  <1>8. CASE calls' = left /\ UNCHANGED <<req, alive>>
    BY <1>2, <1>3, <1>8, DropStep
  <1>9. CASE req[r].listens /\ GoOn(r, d, "balance", left)
    BY <1>1, <1>3, <1>4, <1>6, <1>7, <1>9, GoOnStep
  <1>10. CASE /\ req[r].listens /\ calls' = left
              /\ \E out \in Outcomes : Answer(r, c, out) \/ Answer(r, d, out)
    <2>1. calls' \subseteq calls /\ \A w \in Places : ~Waiting(r, w)'
      BY <1>3, <1>4, <1>10 DEF Waiting
    <2>2. PICK out \in Outcomes : Answer(r, c, out) \/ Answer(r, d, out)
      BY <1>10
    <2>3. CASE Answer(r, c, out)
      BY <1>2, <1>6, <1>7, <1>10, <2>1, <2>3, AnswerStep
    <2>4. CASE Answer(r, d, out)
      BY <1>2, <1>6, <1>7, <1>10, <2>1, <2>4, AnswerStep
    <2> QED  BY <2>2, <2>3, <2>4
  <1> QED  BY <1>5, <1>8, <1>9, <1>10

LEMMA BalanceTurn ==
    ASSUME IInv, NEW r \in Requests, NEW enough \in BOOLEAN, alive,
           UNCHANGED connection, BalanceArrives(r, enough) \/ BalanceFails(r)
    PROVE  IInv' /\ alive'
  <1>1. /\ req[r] \in Records /\ ~req[r].listens
        /\ req[r].replies = <<>> /\ req[r].status = None
        /\ Others(r, "balance") \subseteq calls
        /\ \A w \in Places : [req |-> r, what |-> w] \notin Others(r, "balance")
    <2>1. Waiting(r, "balance")
      BY DEF BalanceArrives, BalanceFails
    <2> QED  BY <2>1, Heard
  <1>2. /\ calls' = Others(r, "balance")
        /\ \E out \in Outcomes : Answer(r, req[r], out)
    <2>1. FormatPath(enough \/ req[r].found) \in Outcomes /\ "other" \in Outcomes
      BY DEF Outcomes, Errors, FormatPath
    <2> QED  BY <2>1 DEF BalanceArrives, BalanceFails
  <1>3. calls' \subseteq calls /\ \A w \in Places : ~Waiting(r, w)'
    BY <1>1, <1>2 DEF Waiting
  <1>4. ConnectionTypeOK'
    BY DEF IInv, ConnectionTypeOK, connection
  <1> QED  BY <1>1, <1>2, <1>3, <1>4, AnswerStep

\* The path find times out; its request stays under way.
LEMMA TimeoutTurn ==
    ASSUME IInv, NEW r \in Requests, Timeout(r), alive
    PROVE  IInv' /\ alive'
  <1> DEFINE c == [req[r] EXCEPT !.listens = FALSE]
  <1>1. RecordInv(req[r]) /\ CallsInv(r) /\ req[r].at = "paths"
    BY DEF IInv, Timeout
  <1>2. /\ c \in Records /\ c.replies = <<>> /\ c.status = None /\ ~c.listens
    BY <1>1 DEF RecordInv, Records
  <1>3. Answer(r, c, "TimeOutError") /\ calls' = calls
    BY DEF Timeout
  <1>4. ConnectionTypeOK'
    BY DEF IInv, ConnectionTypeOK, Timeout, Disconnected, Links
  <1>5. \A w \in Places : Waiting(r, w)' => w = "paths"
    BY <1>1, <1>3 DEF CallsInv, Waiting
  <1>6. "TimeOutError" \in Outcomes
    BY DEF Outcomes, Errors
  <1> HIDE DEF c
  <1> QED  BY <1>2, <1>3, <1>4, <1>5, <1>6, AnswerStep

LEMMA AppendOk == Append(<<"ok">>, "ok") = <<"ok", "ok">>
  <1> DEFINE q == <<"ok">>
             two == <<"ok", "ok">>
             app == Append(q, "ok")
  <1>1. q \in Seq({"ok"}) /\ Len(q) = 1 /\ q[1] = "ok"
    OBVIOUS
  <1>2. two \in Seq({"ok"}) /\ Len(two) = 2 /\ two[1] = "ok" /\ two[2] = "ok"
    OBVIOUS
  <1> HIDE DEF q, two
  <1>3. /\ app \in Seq({"ok"}) /\ Len(app) = 2
        /\ app[1] = "ok" /\ app[2] = "ok"
    <2>1. "ok" \in {"ok"} /\ 1 \in 1..1
      OBVIOUS
    <2>2. /\ app \in Seq({"ok"}) /\ Len(app) = Len(q) + 1
          /\ \A i \in 1..Len(q) : app[i] = q[i]
          /\ app[Len(q) + 1] = "ok"
      BY <1>1, <2>1, AppendProperties
    <2> HIDE DEF app
    <2> QED  BY <1>1, <2>1, <2>2
  <1> HIDE DEF app
  <1>4. app = two
    BY <1>2, <1>3, SeqEqual
  <1> QED  BY <1>4 DEF app, q, two

\* A handler of another module calls back, one that submits perhaps twice, or
\* throws, or ends.
LEMMA HandlerTurn ==
    ASSUME IInv, NEW r \in Requests, NEW out \in Outcomes, alive,
           UNCHANGED connection,
           HandlerAnswers(r, out) \/ HandlerThrows(r) \/ HandlerEnds(r)
    PROVE  IInv' /\ (alive' \/ Reason)
  <1> DEFINE left == Others(r, "handler")
             c == req[r]
  <1>1. /\ Waiting(r, "handler") /\ c \in Records /\ c.at = "handler"
        /\ ~c.listens /\ (c.status = None <=> c.replies = <<>>)
        /\ left \subseteq calls /\ RecordInv(c)
        /\ \A w \in Places : [req |-> r, what |-> w] \notin left
    <2>1. Waiting(r, "handler")
      BY DEF HandlerAnswers, HandlerThrows, HandlerEnds
    <2> QED  BY <2>1, Heard DEF IInv
  <1>2. ConnectionTypeOK' /\ alive \in BOOLEAN
    BY DEF IInv, ConnectionTypeOK, connection
  <1>3. \A w \in Places : Waiting(r, w) => w = "handler"
    BY <1>1 DEF IInv, CallsInv
  <1>4. \/ calls' = left /\ c.replies = <<>> /\ Answer(r, c, out)
        \/ /\ c.kind \in Searching /\ calls' = left
           /\ alive' = FALSE /\ UNCHANGED req
        \/ /\ c.kind \in Submitting /\ out = "ok" /\ Len(c.replies) < 2
           /\ calls' = calls /\ CallBack(r, c, "ok")
        \/ /\ c.replies # <<>> /\ calls' = left /\ alive' = alive
           /\ Alter(r, [c EXCEPT !.at = "over"])
    BY DEF HandlerAnswers, HandlerThrows, HandlerEnds
  <1>5. calls' \subseteq calls
    BY <1>1, <1>4
  <1> HIDE DEF left
  <1>6. CASE calls' = left /\ c.replies = <<>> /\ Answer(r, c, out)
    <2>1. \A w \in Places : ~Waiting(r, w)'
      BY <1>1, <1>6 DEF Waiting
    <2> QED  BY <1>1, <1>2, <1>5, <1>6, <2>1, AnswerStep
  <1>7. CASE /\ c.kind \in Submitting /\ c.replies = <<>>
             /\ calls' = calls /\ CallBack(r, c, "ok")
    <2>1. "ok" \in Outcomes
      BY DEF Outcomes
    <2>2. alive' = TRUE /\ \E d \in Records : Replied(r, c, "ok", d)
      BY <1>1, <1>7, <2>1, FirstAnswer
    <2>3. PICK d \in Records : Replied(r, c, "ok", d)
      BY <2>2
    <2>4. RecordInv(d) /\ d.at = "handler" /\ Alter(r, d)
      BY <1>1, <1>7, <2>1, <2>3 DEF RecordInv, Replied
    <2>5. \A o \in Requests, w \in Places : Waiting(o, w)' <=> Waiting(o, w)
      BY <1>7 DEF Waiting
    <2>6. calls' \subseteq Call
      BY <1>5 DEF IInv
    <2> QED  BY <1>2, <1>3, <2>2, <2>4, <2>5, <2>6, RecordStep
  <1>8. CASE /\ c.kind \in Submitting /\ c.replies = <<"ok">>
             /\ calls' = calls /\ CallBack(r, c, "ok")
    <2> DEFINE d == [c EXCEPT !.replies = <<"ok", "ok">>]
    <2>1. c.status # None
      BY <1>1, <1>8
    <2>2. Append(c.replies, "ok") = <<"ok", "ok">>
      BY <1>8, AppendOk
    <2>3. Alter(r, d) /\ alive' = FALSE
      <3>1. [c EXCEPT !.replies = <<"ok", "ok">>, !.status = c.status] = d
        BY <1>1 DEF Records
      <3> QED  BY <1>8, <2>1, <2>2, <3>1 DEF CallBack
    <2>4. /\ d \in Records /\ d.replies = <<"ok", "ok">> /\ d.kind \in Submitting
          /\ d.status = c.status /\ ~d.listens /\ d.at = "handler"
      <3>1. <<"ok", "ok">> \in Seq(Outcomes)
        <4>1. "ok" \in Outcomes
          BY DEF Outcomes
        <4> QED  BY <4>1
      <3> QED  BY <1>1, <1>8, <3>1 DEF Records
    <2> HIDE DEF d
    <2>5. RecordInv(d)
      BY <2>1, <2>4 DEF RecordInv
    <2>6. \A o \in Requests, w \in Places : Waiting(o, w)' <=> Waiting(o, w)
      BY <1>8 DEF Waiting
    <2>7. calls' \subseteq Call
      BY <1>5 DEF IInv
    <2>8. IInv'
      BY <1>2, <1>3, <2>3, <2>4, <2>5, <2>6, <2>7, RecordStep
    <2>9. req'[r].replies = <<"ok", "ok">>
      BY <2>3, <2>4 DEF Alter, IInv
    <2> QED  BY <1>8, <2>8, <2>9 DEF Reason
  <1>9. CASE /\ c.replies # <<>> /\ calls' = left /\ alive' = alive
             /\ Alter(r, [c EXCEPT !.at = "over"])
    <2> DEFINE d == [c EXCEPT !.at = "over"]
    <2>1. /\ d \in Records /\ d.replies = c.replies /\ d.status = c.status
          /\ ~d.listens /\ d.at = "over" /\ d.kind = c.kind
      BY <1>1 DEF Records, Places
    <2>2. c.kind \in Submitting /\ c.replies \in {<<"ok">>, <<"ok", "ok">>}
      BY <1>1, <1>9 DEF RecordInv
    <2> HIDE DEF d
    <2>3. RecordInv(d)
      BY <1>1, <1>9, <2>1, <2>2 DEF RecordInv, Outcomes
    <2>4. /\ \A w \in Places : ~Waiting(r, w)'
          /\ \A o \in Requests, w \in Places : Waiting(o, w)' => Waiting(o, w)
      BY <1>1, <1>5, <1>9 DEF Waiting
    <2>5. calls' \subseteq Call /\ alive' \in BOOLEAN
      BY <1>2, <1>5, <1>9 DEF IInv
    <2>6. IInv'
      BY <1>2, <1>9, <2>1, <2>3, <2>4, <2>5, RecordStep DEF d
    <2> QED  BY <1>9, <2>6
  <1>10. /\ c.kind \in Submitting /\ c.replies # <<>> /\ Len(c.replies) < 2
         => c.replies = <<"ok">>
    BY <1>1 DEF RecordInv
  <1>11. CASE /\ c.kind \in Searching /\ calls' = left
              /\ alive' = FALSE /\ UNCHANGED req
    <2>1. c.replies = <<>>
      BY <1>1, <1>11 DEF RecordInv, Submitting, Searching
    <2>2. Reason
      BY <1>1, <1>11, <2>1 DEF Reason, Waiting, Places
    <2>3. IInv'
      BY <1>2, <1>5, <1>11, DropStep
    <2> QED  BY <2>2, <2>3
  <1> QED  BY <1>4, <1>6, <1>7, <1>8, <1>9, <1>10, <1>11

-----------------------------------------------------------------------------
LEMMA StepInv ==
    ASSUME IInv, [Next]_vars
    PROVE  IInv' /\ ((alive /\ ~alive') => Reason)
  <1>1. CASE UNCHANGED vars
    <2>1. ConnectionTypeOK' /\ alive' \in BOOLEAN /\ alive' = alive
      BY <1>1 DEF IInv, ConnectionTypeOK, vars, connection
    <2> QED  BY <1>1, <2>1, DropStep DEF vars
  <1>2. ASSUME alive, NEW r \in Requests, NEW kind \in Kinds, Arrive(r, kind)
        PROVE  IInv' /\ alive'
    BY <1>2, ArriveTurn
  <1>3. ASSUME alive, NEW r \in Requests, Timeout(r)
        PROVE  IInv' /\ alive'
    BY <1>3, TimeoutTurn
  <1>4. ASSUME alive, NEW r \in Requests, Remote(r)
        PROVE  IInv' /\ (alive' \/ Reason)
    <2>1. UNCHANGED connection
      BY <1>4 DEF Remote
    <2>2. ASSUME NEW complete \in SUBSET (1..Top), StatusArrives(r, complete)
          PROVE  IInv' /\ (alive' \/ Reason)
      BY <1>4, <2>1, <2>2, StatusTurn
    <2>3. ASSUME NEW complete \in SUBSET (1..Top), NEW l \in 1..Top,
                 LedgerStatusArrives(r, complete, l)
          PROVE  IInv' /\ (alive' \/ Reason)
      BY <1>4, <2>1, <2>3, StatusTurn
    <2>4. ASSUME StatusFails(r)
          PROVE  IInv' /\ (alive' \/ Reason)
      BY <1>4, <2>1, <2>4, StatusTurn
    <2>5. ASSUME NEW found \in BOOLEAN, NEW takesXrp \in BOOLEAN,
                 PathsArrive(r, found, takesXrp) \/ PathsFail(r)
          PROVE  IInv' /\ alive'
      BY <1>4, <2>1, <2>5, PathsTurn
    <2>6. ASSUME NEW enough \in BOOLEAN,
                 BalanceArrives(r, enough) \/ BalanceFails(r)
          PROVE  IInv' /\ alive'
      BY <1>4, <2>1, <2>6, BalanceTurn
    <2>7. ASSUME NEW out \in Outcomes,
                 HandlerAnswers(r, out) \/ HandlerThrows(r) \/ HandlerEnds(r)
          PROVE  IInv' /\ (alive' \/ Reason)
      BY <1>4, <2>1, <2>7, HandlerTurn
    <2>8. TRUE \in BOOLEAN /\ "ok" \in Outcomes
      BY DEF Outcomes
    <2> QED  BY <1>4, <2>2, <2>3, <2>4, <2>5, <2>6, <2>7, <2>8 DEF Remote
  <1>5. CASE ConnectionStep
    <2>1. calls' \subseteq calls /\ UNCHANGED <<req, alive>>
      BY <1>5 DEF ConnectionStep
    <2>2. ConnectionTypeOK'
      BY <1>5 DEF IInv, ConnectionTypeOK, ConnectionStep, Lose, Close, Connect,
                  LedgerClosed, Silence, Links
    <2>3. alive' \in BOOLEAN /\ alive' = alive
      BY <2>1 DEF IInv
    <2> QED  BY <2>1, <2>2, <2>3, DropStep
  <1> QED  BY <1>1, <1>2, <1>3, <1>4, <1>5 DEF Next

LEMMA InitInv == Init => IInv
  <1> SUFFICES ASSUME Init PROVE IInv
    OBVIOUS
  <1>1. ConnectionTypeOK
    BY DEF Init, ConnectionInit, ConnectionTypeOK, Links
  <1>2. /\ Fresh \in Records /\ Fresh.replies = <<>> /\ Fresh.status = None
        /\ ~Fresh.listens /\ Fresh.at = "idle"
    <2>1. <<>> \in Seq(Outcomes)
      OBVIOUS
    <2> QED  BY <2>1 DEF Fresh, Records, Places
  <1>3. RecordInv(Fresh)
    BY <1>2 DEF RecordInv
  <1>4. ASSUME NEW r \in Requests
        PROVE  req[r] = Fresh /\ CallsInv(r)
    BY DEF Init, CallsInv, Waiting
  <1>5. req \in [Requests -> Records] /\ calls \subseteq Call /\ alive \in BOOLEAN
    BY <1>2 DEF Init
  <1> QED  BY <1>1, <1>3, <1>4, <1>5 DEF IInv

\* The invariant, in every behaviour, without the fairness.
THEOREM Invariance == Spec => []IInv
  <1> QED  BY InitInv, StepInv, PTL DEF Spec

-----------------------------------------------------------------------------
\* The type invariant of the HTTP layer: in particular, a handler that waits
\* has not called back.
THEOREM TypeCorrect == Spec => []TypeOK
  <1>1. IInv => TypeOK
    BY DEF IInv, RecordInv, Records, TypeOK
  <1> QED  BY Invariance, <1>1, PTL

\* makeCallback's callback is called once for a request, whatever comes late:
\* a path find that timed out has no listeners for its paths, and a handler
\* that only reads does not wait for two answers.  Only a request that submits a
\* transaction, of any type, is answered again.
THEOREM AnsweredOnce == Spec => []CalledOnce
  <1>1. IInv => CalledOnce
    <2> SUFFICES ASSUME IInv, NEW r \in Requests, Len(req[r].replies) > 1
                 PROVE  req[r].kind \in Submitting /\ req[r].replies = <<"ok", "ok">>
      BY DEF CalledOnce
    <2>1. RecordInv(req[r]) /\ req[r].at \in Places
      BY DEF IInv, RecordInv, Records
    <2>2. ASSUME NEW out \in Outcomes, req[r].replies = <<out>>
          PROVE  FALSE
      BY <2>2
    <2>3. req[r].replies # <<>>
      OBVIOUS
    <2>4. req[r].replies # <<"ok">>
      BY <2>2 DEF Outcomes
    <2> QED  BY <2>1, <2>2, <2>3, <2>4 DEF RecordInv, Places
  <1> QED  BY Invariance, <1>1, PTL

\* The process ends by an exception only in three ways: the second answer of a
\* request that submits, a ledger range that the pattern of remoteHasLedger
\* does not match, and a handler that searches for transactions and throws at
\* what it finds, before it has answered.
THEOREM EndsOnlySo == Spec => EndsForAReason
  <1>1. IInv /\ [Next]_vars => [~alive' => Reason]_vars
    <2> SUFFICES ASSUME IInv, Next, ~alive'
                 PROVE  Reason
      OBVIOUS
    <2>1. alive
      BY DEF Next
    <2> QED  BY <2>1, StepInv
  <1>2. Spec => [][~alive' => Reason]_vars
    BY Invariance, <1>1, PTL DEF Spec
  <1> QED  BY <1>2 DEF EndsForAReason, Reason
=============================================================================
