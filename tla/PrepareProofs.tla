---------------------------- MODULE PrepareProofs ----------------------------
(***************************************************************************)
(* Theorems about Prepare, for any requests and settings: type             *)
(* correctness, the numbers of prepared transactions, and that a           *)
(* transaction changes the account as its settings ask.                    *)
(*                                                                         *)
(* The last is a fact about the operators of AccountSettings: whatever the *)
(* account is when the transaction is applied, Transaction(s) turns it     *)
(* into what s asks.  It is proved setting by setting.                     *)
(***************************************************************************)
EXTENDS Prepare, TLAPS

-----------------------------------------------------------------------------
(* The operators of AccountSettings.                                        *)

\* Where one integer flag at most is asked for, Last gives it.
LEMMA LastOfOne ==
    ASSUME NEW F \in SUBSET IntFlags, \A f, g \in F : f = g
    PROVE  /\ F = {} => Last(F) = None
           /\ \A f \in F : Last(F) = f
  <1>1. \A f \in IntFlags : IntOrder[f] \in Nat
    BY DEF IntFlags, IntOrder
  <1>2. ASSUME NEW f \in F
        PROVE  Last(F) = f
    <2>1. \A g \in F : IntOrder[g] <= IntOrder[f]
      BY <1>1
    <2>2. \E h \in F : \A g \in F : IntOrder[g] <= IntOrder[h]
      BY <2>1
    <2>3. Last(F) = CHOOSE h \in F : \A g \in F : IntOrder[g] <= IntOrder[h]
      BY DEF Last
    <2>4. Last(F) \in F
      BY <2>2, <2>3
    <2> QED  BY <2>4
  <1> QED  BY <1>2 DEF Last

\* The settings of a request: flags are Booleans, fields texts or Clear.
LEMMA SettingTypes ==
    ASSUME NEW s \in Settings
    PROVE  /\ DOMAIN s \subseteq Flags \cup Fields
           /\ \A n \in DOMAIN s \cap Flags : s[n] \in BOOLEAN
           /\ \A n \in DOMAIN s \cap Fields : s[n] \in Texts \cup {Clear}
  BY DEF Settings

\* What Transaction says of the integer flags, when there is one to set and
\* one to clear at most.
LEMMA IntFlagsAsked ==
    ASSUME NEW s \in Settings, FitsOneTransaction(s)
    PROVE  /\ \A n \in IntFlags \cap DOMAIN s :
                 /\ s[n] = TRUE => Transaction(s).SetFlag = n
                 /\ s[n] = FALSE => Transaction(s).ClearFlag = n
           /\ \/ Transaction(s).SetFlag = None
              \/ Transaction(s).SetFlag \in Asked(s, TRUE) \cap IntFlags
           /\ \/ Transaction(s).ClearFlag = None
              \/ Transaction(s).ClearFlag \in Asked(s, FALSE) \cap IntFlags
  <1> DEFINE F(value) == Asked(s, value) \cap IntFlags
  <1>1. /\ Transaction(s).SetFlag = Last(F(TRUE))
        /\ Transaction(s).ClearFlag = Last(F(FALSE))
    BY DEF Transaction
  <1>2. ASSUME NEW value \in BOOLEAN
        PROVE  /\ F(value) = {} => Last(F(value)) = None
               /\ \A f \in F(value) : Last(F(value)) = f
    <2>1. F(value) \in SUBSET IntFlags /\ \A f, g \in F(value) : f = g
      BY DEF FitsOneTransaction
    <2> QED  BY <2>1, LastOfOne
  <1>3. \A value \in BOOLEAN : \A n \in IntFlags \cap DOMAIN s :
           s[n] = value => n \in F(value)
    BY DEF Asked, Flags
  <1> HIDE DEF F
  <1>4. \A value \in BOOLEAN : Last(F(value)) = None \/ Last(F(value)) \in F(value)
    BY <1>2
  <1> QED  BY <1>1, <1>2, <1>3, <1>4 DEF F

\* AccountSet with the transaction made of s, on the flags of an account.
LEMMA FlagsChange ==
    ASSUME NEW s \in Settings, FitsOneTransaction(s),
           NEW fs \in SUBSET Flags, NEW n \in Flags \ Refused(s, fs)
    PROVE  LET on == AppliedFlags(fs, Transaction(s)) IN
           /\ n \in DOMAIN s \ IgnoredFlags /\ s[n] = TRUE => n \in on
           /\ n \in DOMAIN s \ IgnoredFlags /\ s[n] = FALSE => n \notin on
           /\ n \notin DOMAIN s \ IgnoredFlags => (n \in on <=> n \in fs)
  <1> DEFINE tx == Transaction(s)
             on == (fs \ tx.unset) \cup tx.set \cup ({tx.SetFlag} \ {None})
  <1>1. AppliedFlags(fs, tx) = on \ ({tx.ClearFlag} \ Kept(on))
    BY DEF AppliedFlags
  <1>2. /\ tx.set = Asked(s, TRUE) \cap BitFlags
        /\ tx.unset = Asked(s, FALSE) \cap BitFlags
    BY DEF Transaction
  <1>3. /\ \A m \in IntFlags \cap DOMAIN s :
              /\ s[m] = TRUE => tx.SetFlag = m
              /\ s[m] = FALSE => tx.ClearFlag = m
        /\ tx.SetFlag = None \/ tx.SetFlag \in Asked(s, TRUE) \cap IntFlags
        /\ tx.ClearFlag = None \/ tx.ClearFlag \in Asked(s, FALSE) \cap IntFlags
    BY IntFlagsAsked
  <1>4. \A value \in BOOLEAN : \A m \in Asked(s, value) :
           m \in Flags /\ m \in DOMAIN s /\ s[m] = value
    BY DEF Asked
  <1>5. /\ n \in BitFlags \/ n \in IntFlags \/ n \in IgnoredFlags
        /\ n \in IgnoredFlags => n \notin BitFlags /\ n \notin IntFlags
        /\ BitFlags \cap IntFlags = {} /\ None \notin Flags /\ n # None
    BY SettingsAssumption DEF Flags
  <1> HIDE DEF tx
  <1>6. CASE n \in DOMAIN s \ IgnoredFlags /\ s[n] = TRUE
    <2>1. n \in on
      <3>1. CASE n \in BitFlags
        BY <1>2, <1>6, <3>1 DEF Asked
      <3>2. CASE n \in IntFlags
        BY <1>3, <1>5, <1>6, <3>2
      <3> QED  BY <1>5, <1>6, <3>1, <3>2
    <2>2. tx.ClearFlag # n
      BY <1>3, <1>4, <1>5, <1>6
    <2> QED  BY <1>1, <1>6, <2>1, <2>2 DEF tx
  <1>7. CASE n \in DOMAIN s \ IgnoredFlags /\ s[n] = FALSE
    <2>1. n \notin tx.set /\ n # tx.SetFlag
      BY <1>2, <1>3, <1>4, <1>5, <1>7
    <2>2. CASE n \in BitFlags
      <3>1. n \in tx.unset
        BY <1>2, <1>7, <2>2 DEF Asked
      <3> QED  BY <1>1, <1>7, <2>1, <3>1 DEF tx
    <2>3. CASE n \in IntFlags
      <3>1. tx.ClearFlag = n
        BY <1>3, <1>7, <2>3
      <3>2. n \notin Kept(fs \cup Asked(s, TRUE))
        BY <1>7 DEF Refused, Asked
      <3>3. on \subseteq fs \cup Asked(s, TRUE)
        BY <1>2, <1>3
      <3>4. n \notin Kept(on)
        BY <3>2, <3>3 DEF Kept
      <3> QED  BY <1>1, <1>7, <3>1, <3>4 DEF tx
    <2> QED  BY <1>5, <1>7, <2>2, <2>3
  <1>8. CASE n \notin DOMAIN s \ IgnoredFlags
    <2>1. n \notin tx.set /\ n \notin tx.unset
      BY <1>2, <1>4, <1>5, <1>8
    <2>2. n # tx.SetFlag /\ n # tx.ClearFlag
      BY <1>3, <1>4, <1>5, <1>8
    <2> QED  BY <1>1, <1>8, <2>1, <2>2 DEF tx
  <1>9. n \in DOMAIN s => s[n] \in BOOLEAN
    BY SettingTypes
  <1> QED  BY <1>6, <1>7, <1>8, <1>9 DEF tx

\* A text or Clear as it is sent, which is as the ledger keeps it, and as
\* getSettings tells it.
LEMMA Encoded ==
    ASSUME NEW n \in Fields, NEW value \in Texts \cup {Clear}
    PROVE  /\ Encode(n, value) \in Stored \cup {Clear}
           /\ Encode(n, value) = IF value = Clear THEN Clear
                                 ELSE <<LedgerForm(n), value>>
           /\ Told(n, value) = IF Encode(n, value) # Clear /\ n \in HexFields
                               THEN <<"plain", Encode(n, value)[2]>>
                               ELSE Encode(n, value)
  <1>1. n \notin Flags /\ Clear \notin Texts /\ Clear \notin Stored
    BY SettingsAssumption, PrepareAssumption
  <1>2. CASE value = Clear
    BY <1>2 DEF Encode, Told
  <1>3. CASE value # Clear
    <2>1. value \in Texts
      BY <1>3
    <2>2. /\ LedgerForm(n) \in {"hex", "scaled", "plain"}
          /\ n \in HexFields => LedgerForm(n) = "hex"
          /\ n \notin HexFields =>
                LedgerForm(n) = IF n \in RateFields THEN "scaled" ELSE "plain"
          /\ n \in HexFields => n \notin RateFields
      BY SettingsAssumption DEF LedgerForm
    <2>3. Encode(n, value) = <<LedgerForm(n), value>>
      BY <1>3 DEF Encode, LedgerForm
    <2>4. <<LedgerForm(n), value>> \in Stored /\ <<LedgerForm(n), value>>[2] = value
      BY <2>1, <2>2 DEF Stored
    <2>5. Told(n, value) = <<IF n \in RateFields THEN "scaled" ELSE "plain", value>>
      BY <1>1, <1>3 DEF Told
    <2> QED  BY <1>1, <1>3, <2>2, <2>3, <2>4, <2>5
  <1> QED  BY <1>2, <1>3

\* AccountSet with the transaction made of s, on the fields of an account.
LEMMA FieldsChange ==
    ASSUME NEW s \in Settings, NEW values \in [Fields -> Stored \cup {Clear}]
    PROVE  LET new == AppliedFields(values, Transaction(s)) IN
           /\ new \in [Fields -> Stored \cup {Clear}]
           /\ \A n \in Fields :
                 new[n] = IF n \in DOMAIN s THEN Encode(n, s[n]) ELSE values[n]
  <1> DEFINE new == AppliedFields(values, Transaction(s))
  <1>1. Transaction(s).fields = [n \in Fields \cap DOMAIN s |-> Encode(n, s[n])]
    BY DEF Transaction
  <1>2. new = [n \in Fields |-> IF n \in DOMAIN s THEN Encode(n, s[n]) ELSE values[n]]
    BY <1>1 DEF AppliedFields
  <1>3. \A n \in Fields : n \in DOMAIN s => Encode(n, s[n]) \in Stored \cup {Clear}
    <2>1. \A n \in Fields : n \in DOMAIN s => s[n] \in Texts \cup {Clear}
      BY SettingTypes
    <2> QED  BY <2>1, Encoded
  <1> HIDE DEF new
  <1> QED  BY <1>2, <1>3 DEF new

\* getSettings tells of a flag whether the account has it.
LEMMA GotFlag ==
    ASSUME NEW n \in Flags, NEW fs, NEW values
    PROVE  Got(fs, values)[n] = (n \in fs)
  BY SMT DEF Got

\* SettingsChange: whatever the account is and whatever validateSettings
\* accepts, with at most one integer flag to set and one to clear: every
\* setting named gets the value asked for, but for the flags that
\* createSettingsTransaction ignores, and nothing else changes.
THEOREM SettingsChange ==
    ASSUME NEW s \in Settings, FitsOneTransaction(s),
           NEW fs \in SUBSET Flags, NEW values \in [Fields -> Stored \cup {Clear}]
    PROVE  ChangedAsAsked(s, fs, values, AppliedFlags(fs, Transaction(s)),
                          AppliedFields(values, Transaction(s)))
  <1> DEFINE on == AppliedFlags(fs, Transaction(s))
             new == AppliedFields(values, Transaction(s))
             Right(n) ==
               IF n \in DOMAIN s \ IgnoredFlags
               THEN Has(on, new, n, s[n]) /\ Got(on, new)[n] = Told(n, s[n])
               ELSE Got(on, new)[n] = Got(fs, values)[n]
  <1>1. ASSUME NEW n \in Flags \ Refused(s, fs)
        PROVE  Right(n)
    <2>1. /\ Got(on, new)[n] = (n \in on)
          /\ Got(fs, values)[n] = (n \in fs)
      BY GotFlag
    <2>2. Told(n, s[n]) = s[n] /\ Has(on, new, n, s[n]) = ((n \in on) = s[n])
      BY DEF Told, Has
    <2>3. /\ n \in DOMAIN s \ IgnoredFlags /\ s[n] = TRUE => n \in on
          /\ n \in DOMAIN s \ IgnoredFlags /\ s[n] = FALSE => n \notin on
          /\ n \notin DOMAIN s \ IgnoredFlags => (n \in on <=> n \in fs)
      BY FlagsChange
    <2>4. n \in DOMAIN s => s[n] = TRUE \/ s[n] = FALSE
      BY SettingTypes
    <2> HIDE DEF on, new
    <2>5. CASE n \in DOMAIN s \ IgnoredFlags /\ s[n] = TRUE
      BY <2>1, <2>2, <2>3, <2>5
    <2>6. CASE n \in DOMAIN s \ IgnoredFlags /\ s[n] = FALSE
      <3>1. (n \in on) = FALSE
        BY <2>3, <2>6
      <3> QED  BY <2>1, <2>2, <2>6, <3>1
    <2>7. CASE n \notin DOMAIN s \ IgnoredFlags
      BY <2>1, <2>3, <2>7
    <2> QED  BY <2>4, <2>5, <2>6, <2>7
  <1>2. ASSUME NEW n \in Fields
        PROVE  Right(n)
    <2>1. n \notin Flags /\ n \notin IgnoredFlags
      BY SettingsAssumption DEF Flags
    <2>2. /\ Got(on, new)[n] = IF new[n] # Clear /\ n \in HexFields
                               THEN <<"plain", new[n][2]>> ELSE new[n]
          /\ Got(fs, values)[n] = IF values[n] # Clear /\ n \in HexFields
                                  THEN <<"plain", values[n][2]>> ELSE values[n]
      BY <2>1 DEF Got
    <2>3. new[n] = IF n \in DOMAIN s THEN Encode(n, s[n]) ELSE values[n]
      BY FieldsChange
    <2>4. n \in DOMAIN s => s[n] \in Texts \cup {Clear}
      BY SettingTypes
    <2>5. Has(on, new, n, s[n]) = (new[n] = IF s[n] = Clear THEN Clear
                                            ELSE <<LedgerForm(n), s[n]>>)
      BY <2>1 DEF Has
    <2> HIDE DEF on, new
    <2>6. CASE n \in DOMAIN s
      <3>1. /\ Encode(n, s[n]) = IF s[n] = Clear THEN Clear
                                 ELSE <<LedgerForm(n), s[n]>>
            /\ Told(n, s[n]) = IF Encode(n, s[n]) # Clear /\ n \in HexFields
                               THEN <<"plain", Encode(n, s[n])[2]>>
                               ELSE Encode(n, s[n])
        BY <2>4, <2>6, Encoded
      <3>2. new[n] = Encode(n, s[n])
        BY <2>3, <2>6
      <3> QED  BY <2>1, <2>2, <2>5, <2>6, <3>1, <3>2
    <2>7. CASE n \notin DOMAIN s
      BY <2>2, <2>3, <2>7
    <2> QED  BY <2>6, <2>7
  <1> QED  BY <1>1, <1>2 DEF ChangedAsAsked
-----------------------------------------------------------------------------
(* The state machine.                                                       *)

Handlers == [at : Places, settings : Settings \cup {<<>>}, Sequence : Nat \cup {None},
             last : Nat \cup {None}, given : BOOLEAN,
             since : Nat \cup {None}, error : BOOLEAN]

\* A question under way was sent when the account's sequence was not larger,
\* and was not refused; a number that is relayed is there.
HandlerInv(r) ==
    /\ req[r] \in Handlers
    /\ req[r].at # "idle" => req[r].settings \in Asks[r]
    /\ req[r].at = "idle" => req[r] = Fresh
    /\ req[r].at = "asking" =>
          /\ req[r].Sequence = None /\ ~req[r].given /\ ~req[r].error
          /\ req[r].since \in Nat /\ req[r].since <= sequence
    /\ req[r].at \in {"prepared", "relayed"} /\ ~req[r].given =>
          IF req[r].Sequence = None THEN req[r].error
          ELSE req[r].since \in Nat /\ req[r].since <= req[r].Sequence
               /\ req[r].Sequence <= sequence
    /\ req[r].at = "relayed" => req[r].Sequence # None

IInv ==
    /\ flags \subseteq Flags
    /\ fields \in [Fields -> Stored \cup {Clear}]
    /\ sequence \in Nat /\ ledger \in 1..MaxLedger
    /\ req \in [Requests -> Handlers]
    /\ \A r \in Requests : HandlerInv(r)

LEMMA InitInv == Init => IInv
  <1> SUFFICES ASSUME Init PROVE IInv
    OBVIOUS
  <1>1. PICK a \in Accounts : flags = a.flags /\ fields = a.fields
    BY DEF Init
  <1>2. Fresh \in Handlers
    BY DEF Handlers, Fresh, Places
  <1>3. \A r \in Requests : req[r] = Fresh
    BY DEF Init
  <1>4. \A r \in Requests : HandlerInv(r)
    <2>1. Fresh.at = "idle"
      BY DEF Fresh
    <2> QED  BY <1>2, <1>3, <2>1 DEF HandlerInv
  <1> QED  BY <1>1, <1>2, <1>4, PrepareAssumption DEF IInv, Init

\* Last gives one of the flags, whatever their number.
LEMMA LastOfMany ==
    ASSUME NEW F \in SUBSET IntFlags
    PROVE  Last(F) \in F \cup {None}
  <1>1. /\ IntFlags = {"no_freeze", "global_freeze", "default_ripple"}
        /\ IntOrder["no_freeze"] = 1 /\ IntOrder["global_freeze"] = 2
        /\ IntOrder["default_ripple"] = 3
    BY DEF IntFlags, IntOrder
  <1>2. F # {} => \E f \in F : \A g \in F : IntOrder[g] <= IntOrder[f]
    <2>1. CASE "default_ripple" \in F
      BY <1>1, <2>1
    <2>2. CASE "default_ripple" \notin F /\ "global_freeze" \in F
      BY <1>1, <2>2
    <2>3. CASE "default_ripple" \notin F /\ "global_freeze" \notin F
      <3>1. \A f \in F : f = "no_freeze"
        BY <1>1, <2>3
      <3>2. \A f, g \in F : IntOrder[g] = 1 /\ IntOrder[f] = 1
        BY <1>1, <3>1
      <3>3. \A f, g \in F : IntOrder[g] <= IntOrder[f]
        BY <3>2
      <3> QED  BY <3>3
    <2> QED  BY <2>1, <2>2, <2>3
  <1> QED  BY <1>2 DEF Last

LEMMA FlagsStayFlags ==
    ASSUME NEW s \in Settings, NEW fs \in SUBSET Flags
    PROVE  AppliedFlags(fs, Transaction(s)) \subseteq Flags
  <1>1. /\ Transaction(s).set = Asked(s, TRUE) \cap BitFlags
        /\ Transaction(s).SetFlag = Last(Asked(s, TRUE) \cap IntFlags)
    BY DEF Transaction
  <1>2. Transaction(s).SetFlag \in IntFlags \cup {None}
    BY <1>1, LastOfMany
  <1> QED  BY <1>1, <1>2 DEF AppliedFlags, Flags

\* A step of the request r, which leaves the other requests alone.
LEMMA HandlerStep ==
    ASSUME IInv, NEW r \in Requests, NEW c \in Handlers, Goes(r, c),
           sequence' \in Nat, sequence <= sequence',
           flags' \subseteq Flags, fields' \in [Fields -> Stored \cup {Clear}],
           ledger' \in 1..MaxLedger, HandlerInv(r)'
    PROVE  IInv'
  <1>1. req' \in [Requests -> Handlers]
    BY DEF IInv, Goes
  <1>2. ASSUME NEW o \in Requests, o # r
        PROVE  HandlerInv(o)'
    <2>1. req'[o] = req[o]
      BY <1>2 DEF IInv, Goes
    <2>2. HandlerInv(o) /\ sequence \in Nat
      BY DEF IInv
    <2>3. req[o].Sequence # None => req[o].Sequence \in Nat
      BY DEF IInv, Handlers
    <2> QED  BY <2>1, <2>2, <2>3 DEF HandlerInv
  <1> QED  BY <1>1, <1>2 DEF IInv

LEMMA StepInv == IInv /\ [Next]_vars => IInv'
  <1> SUFFICES ASSUME IInv, [Next]_vars PROVE IInv'
    OBVIOUS
  <1> USE DEF IInv
  <1>1. ASSUME NEW r \in Requests, NEW s \in Asks[r],
               NEW number \in {None, sequence}, Submit(r, s, number)
        PROVE  IInv'
    <2> DEFINE c == [req[r] EXCEPT !.settings = s, !.Sequence = number,
                                   !.at = IF SetCollision(s) THEN "refused"
                                                             ELSE "submitted"]
    <2>1. s \in Settings
      BY PrepareAssumption
    <2>2. req[r] \in Handlers
      OBVIOUS
    <2>3. c \in Handlers /\ c.at \in {"refused", "submitted"} /\ c.settings = s
      BY <2>1, <2>2 DEF Handlers, Places
    <2>4. Goes(r, c) /\ UNCHANGED <<account, ledger>>
      BY <1>1 DEF Submit
    <2> HIDE DEF c
    <2>5. req'[r] = c
      BY <2>4 DEF Goes
    <2>6. HandlerInv(r)'
      BY <1>1, <2>3, <2>5 DEF HandlerInv
    <2> QED  BY <2>3, <2>4, <2>6, HandlerStep DEF account
  <1>2. ASSUME NEW r \in Requests, NEW s \in Asks[r],
               NEW last \in {None, ledger}, NEW number \in {None, sequence},
               Prepare(r, s, last, number)
        PROVE  IInv'
    <2> DEFINE l == IF last = None THEN ledger + Offset ELSE last
               c == [req[r] EXCEPT !.settings = s, !.last = l]
               d == IF SetCollision(s)
                    THEN [req[r] EXCEPT !.settings = s, !.at = "refused"]
                    ELSE IF number = None
                    THEN [c EXCEPT !.at = "asking", !.since = sequence]
                    ELSE [c EXCEPT !.at = "prepared", !.Sequence = number,
                                   !.given = TRUE]
    <2>1. s \in Settings /\ None \notin Nat /\ Offset \in Nat /\ l \in Nat
      BY PrepareAssumption
    <2>2. req[r] = Fresh /\ req[r] \in Handlers
      BY <1>2 DEF Prepare, HandlerInv
    <2>3. Goes(r, d) /\ UNCHANGED <<account, ledger>>
      BY <1>2 DEF Prepare
    <2> HIDE DEF l
    <2>4. c \in Handlers /\ c.settings = s /\ c.Sequence = None /\ ~c.given /\ ~c.error
      <3>1. req[r].Sequence = None /\ req[r].given = FALSE /\ req[r].error = FALSE
        BY <2>2 DEF Fresh
      <3>2. c \in Handlers /\ c.settings = s
        BY <2>1, <2>2 DEF Handlers
      <3>3. c.Sequence = req[r].Sequence /\ c.given = req[r].given
            /\ c.error = req[r].error
        BY <2>2 DEF Handlers
      <3> QED  BY <3>1, <3>2, <3>3
    <2> HIDE DEF c
    <2>5. CASE SetCollision(s)
      <3>1. d \in Handlers /\ d.at = "refused" /\ d.settings = s
        BY <2>1, <2>2, <2>5 DEF Handlers, Places
      <3> HIDE DEF d
      <3>2. req'[r] = d
        BY <2>3 DEF Goes
      <3>3. HandlerInv(r)'
        BY <3>1, <3>2, <2>1 DEF HandlerInv
      <3> QED  BY <2>3, <3>1, <3>3, HandlerStep DEF account
    <2>6. CASE ~SetCollision(s) /\ number = None
      <3>1. /\ d \in Handlers /\ d.at = "asking" /\ d.settings = s
            /\ d.Sequence = None /\ ~d.given /\ ~d.error /\ d.since = sequence
        BY <2>4, <2>6 DEF Handlers, Places
      <3> HIDE DEF d
      <3>2. req'[r] = d
        BY <2>3 DEF Goes
      <3>3. HandlerInv(r)'
        BY <3>1, <3>2, <2>1, <2>3 DEF HandlerInv, account
      <3> QED  BY <2>3, <3>1, <3>3, HandlerStep DEF account
    <2>7. CASE ~SetCollision(s) /\ number # None
      <3>1. /\ d \in Handlers /\ d.at = "prepared" /\ d.settings = s /\ d.given
        BY <2>4, <2>7 DEF Handlers, Places
      <3> HIDE DEF d
      <3>2. req'[r] = d
        BY <2>3 DEF Goes
      <3>3. HandlerInv(r)'
        BY <3>1, <3>2, <2>1 DEF HandlerInv
      <3> QED  BY <2>3, <3>1, <3>3, HandlerStep DEF account
    <2> QED  BY <2>5, <2>6, <2>7
  <1>3. ASSUME NEW r \in Requests,
               SequenceArrives(r) \/ \E secret \in BOOLEAN : SequenceFails(r, secret)
        PROVE  IInv'
    <2> DEFINE c == [req[r] EXCEPT !.at = "prepared", !.Sequence = sequence]
               d(at) == [req[r] EXCEPT !.at = at, !.error = TRUE]
    <2>1. /\ req[r] \in Handlers /\ req[r].at = "asking"
          /\ req[r].Sequence = None /\ ~req[r].given
          /\ req[r].since \in Nat /\ req[r].since <= sequence
          /\ req[r].settings \in Asks[r]
      BY <1>3 DEF SequenceArrives, SequenceFails, Open, HandlerInv
    <2>2. /\ UNCHANGED <<account, ledger>>
          /\ Goes(r, c) \/ \E at \in {"prepared", "refused"} : Goes(r, d(at))
      BY <1>3 DEF SequenceArrives, SequenceFails
    <2>3. /\ c \in Handlers /\ c.at = "prepared" /\ c.Sequence = sequence
          /\ c.since = req[r].since /\ c.settings = req[r].settings
          /\ \A at \in {"prepared", "refused"} :
                /\ d(at) \in Handlers /\ d(at).at = at /\ d(at).Sequence = None
                /\ d(at).error /\ d(at).settings = req[r].settings
      BY <2>1 DEF Handlers, Places
    <2> HIDE DEF c, d
    <2>4. CASE Goes(r, c)
      <3>1. req'[r] = c
        BY <2>4 DEF Goes
      <3>2. HandlerInv(r)'
        BY <2>1, <2>2, <2>3, <3>1, PrepareAssumption DEF HandlerInv, account
      <3> QED  BY <2>2, <2>3, <2>4, <3>2, HandlerStep DEF account
    <2>5. ASSUME NEW at \in {"prepared", "refused"}, Goes(r, d(at))
          PROVE  IInv'
      <3>1. req'[r] = d(at)
        BY <2>5 DEF Goes
      <3>2. HandlerInv(r)'
        BY <2>1, <2>2, <2>3, <3>1, PrepareAssumption DEF HandlerInv, account
      <3> QED  BY <2>2, <2>3, <2>5, <3>2, HandlerStep DEF account
    <2> QED  BY <2>2, <2>4, <2>5
  <1>4. ASSUME NEW r \in Requests, Relay(r) \/ Expire(r)
        PROVE  IInv'
    <2> DEFINE c(at) == [req[r] EXCEPT !.at = at]
    <2>1. PICK at \in {"relayed", "failed"} :
             /\ Goes(r, c(at)) /\ UNCHANGED <<account, ledger>>
             /\ at = "relayed" => req[r].at = "prepared" /\ req[r].Sequence # None
      BY <1>4 DEF Relay, Expire
    <2>2. req[r] \in Handlers /\ HandlerInv(r) /\ req[r].at # "idle"
      BY <1>4 DEF Relay, Expire
    <2>3. /\ c(at) \in Handlers /\ c(at).at = at
          /\ c(at).settings = req[r].settings /\ c(at).Sequence = req[r].Sequence
          /\ c(at).since = req[r].since /\ c(at).given = req[r].given
          /\ c(at).error = req[r].error
      BY <2>2 DEF Handlers, Places
    <2> HIDE DEF c
    <2>4. req'[r] = c(at)
      BY <2>1 DEF Goes
    <2>5. HandlerInv(r)'
      BY <2>1, <2>2, <2>3, <2>4 DEF HandlerInv, account
    <2> QED  BY <2>1, <2>3, <2>5, HandlerStep DEF account
  <1>5. ASSUME NEW r \in Requests, Apply(r)
        PROVE  IInv'
    <2> DEFINE c == [req[r] EXCEPT !.at = "applied"]
               s == req[r].settings
    <2>1. s \in Settings /\ s \in Asks[r] /\ req[r] \in Handlers
      BY <1>5, PrepareAssumption DEF Apply, Applicable, HandlerInv
    <2>2. c \in Handlers /\ c.at = "applied" /\ c.settings = s
      BY <2>1 DEF Handlers, Places
    <2>3. /\ Goes(r, c) /\ sequence' = sequence + 1 /\ ledger' = ledger
          /\ flags' = AppliedFlags(flags, Transaction(s))
          /\ fields' = AppliedFields(fields, Transaction(s))
      BY <1>5 DEF Apply
    <2> HIDE DEF c, s
    <2>4. req'[r] = c
      BY <2>3 DEF Goes
    <2>5. HandlerInv(r)'
      BY <2>1, <2>2, <2>4 DEF HandlerInv
    <2>6. flags' \subseteq Flags /\ fields' \in [Fields -> Stored \cup {Clear}]
      BY <2>1, <2>3, FlagsStayFlags, FieldsChange
    <2>7. sequence' \in Nat /\ sequence <= sequence' /\ ledger' \in 1..MaxLedger
      BY <2>3
    <2> QED  BY <2>2, <2>3, <2>5, <2>6, <2>7, HandlerStep
  <1>6. CASE Spend \/ Close
    <2>1. /\ UNCHANGED <<flags, fields, req>>
          /\ sequence' \in Nat /\ sequence <= sequence' /\ ledger' \in 1..MaxLedger
      BY <1>6, PrepareAssumption DEF Spend, Close, account
    <2>2. ASSUME NEW r \in Requests
          PROVE  HandlerInv(r)'
      <3>1. HandlerInv(r) /\ req'[r] = req[r]
            /\ (req[r].Sequence # None => req[r].Sequence \in Nat)
        BY <2>1 DEF Handlers
      <3> QED  BY <2>1, <3>1 DEF HandlerInv
    <2> QED  BY <2>1, <2>2
  <1>7. CASE UNCHANGED vars
    BY <1>7 DEF vars, HandlerInv
  <1> QED  BY <1>1, <1>2, <1>3, <1>4, <1>5, <1>6, <1>7 DEF Next

\* In every behaviour each request, whether it submits or prepares, is in one
\* of the states that HandlerInv describes.
THEOREM Invariance == Spec => []IInv
  <1> QED  BY InitInv, StepInv, PTL DEF Spec

\* TypeOK: every reachable state of Prepare is type correct.
THEOREM TypeCorrect == Spec => []TypeOK
  <1>1. IInv => TypeOK
    BY DEF IInv, TypeOK, HandlerInv, Handlers
  <1> QED  BY <1>1, Invariance, PTL

\* SequenceOfThePrepare: the number of a prepared transaction was the
\* account's between the request and the answer, whatever else the account
\* did, and is missing only if the remote refused to tell it.
THEOREM SequencesTrue == Spec => []SequenceOfThePrepare
  <1>1. IInv => SequenceOfThePrepare
    BY DEF IInv, SequenceOfThePrepare, HandlerInv
  <1> QED  BY <1>1, Invariance, PTL

\* ChangesAsAsked: whenever and in whatever order transactions enter the
\* ledger, each one changes the account as its settings ask.
THEOREM ChangesTrue == Spec => ChangesAsAsked
  <1> DEFINE Changed ==
        \A r \in Requests :
          Applied(r) /\ FitsOneTransaction(req[r].settings) =>
             ChangedAsAsked(req[r].settings, flags, fields, flags', fields')
  <1>1. ASSUME IInv, Next, NEW r \in Requests, Applied(r),
               FitsOneTransaction(req[r].settings)
        PROVE  ChangedAsAsked(req[r].settings, flags, fields, flags', fields')
    <2>1. ASSUME NEW o \in Requests, NEW c, Goes(o, c), c.at # "applied"
          PROVE  FALSE
      <3>1. req'[r] = req[r] \/ req'[r] = c
        BY <1>1, <2>1 DEF IInv, Goes
      <3> QED  BY <1>1, <2>1, <3>1 DEF Applied
    <2>2. ASSUME NEW o \in Requests, o # r, NEW c, Goes(o, c)
          PROVE  FALSE
      BY <1>1, <2>2 DEF IInv, Goes, Applied
    <2>3. \A o \in Requests : req[o] \in Handlers
      BY <1>1 DEF IInv
    <2>4. ASSUME NEW o \in Requests, NEW s \in Asks[o],
                 NEW number \in {None, sequence}, Submit(o, s, number)
          PROVE  FALSE
      <3> DEFINE c == [req[o] EXCEPT !.settings = s, !.Sequence = number,
                                     !.at = IF SetCollision(s) THEN "refused"
                                                               ELSE "submitted"]
      <3>1. Goes(o, c)
        BY <2>4 DEF Submit
      <3>2. c.at # "applied"
        BY <2>3 DEF Handlers
      <3> QED  BY <2>1, <3>1, <3>2
    <2>5. ASSUME NEW o \in Requests, NEW s \in Asks[o],
                 NEW last \in {None, ledger}, NEW number \in {None, sequence},
                 Prepare(o, s, last, number)
          PROVE  FALSE
      <3> DEFINE l == IF last = None THEN ledger + Offset ELSE last
                 c == [req[o] EXCEPT !.settings = s, !.last = l]
                 d == IF SetCollision(s)
                      THEN [req[o] EXCEPT !.settings = s, !.at = "refused"]
                      ELSE IF number = None
                      THEN [c EXCEPT !.at = "asking", !.since = sequence]
                      ELSE [c EXCEPT !.at = "prepared", !.Sequence = number,
                                     !.given = TRUE]
      <3>1. Goes(o, d)
        BY <2>5 DEF Prepare
      <3> HIDE DEF l
      <3>2. d.at # "applied"
        BY <2>3 DEF Handlers
      <3> QED  BY <2>1, <3>1, <3>2
    <2>6. ASSUME NEW o \in Requests,
                 \/ SequenceArrives(o)
                 \/ \E secret \in BOOLEAN : SequenceFails(o, secret)
                 \/ Relay(o) \/ Expire(o)
          PROVE  FALSE
      <3>1. CASE SequenceArrives(o)
        <4>1. [req[o] EXCEPT !.at = "prepared", !.Sequence = sequence].at # "applied"
          BY <2>3 DEF Handlers
        <4> QED  BY <2>1, <3>1, <4>1 DEF SequenceArrives
      <3>2. ASSUME NEW secret \in BOOLEAN, SequenceFails(o, secret)
            PROVE  FALSE
        <4>1. [req[o] EXCEPT !.at = IF secret THEN "refused" ELSE "prepared",
                             !.error = TRUE].at # "applied"
          BY <2>3 DEF Handlers
        <4> QED  BY <2>1, <3>2, <4>1 DEF SequenceFails
      <3>3. CASE Relay(o)
        <4>1. [req[o] EXCEPT !.at = "relayed"].at # "applied"
          BY <2>3 DEF Handlers
        <4> QED  BY <2>1, <3>3, <4>1 DEF Relay
      <3>4. CASE Expire(o)
        <4>1. [req[o] EXCEPT !.at = "failed"].at # "applied"
          BY <2>3 DEF Handlers
        <4> QED  BY <2>1, <3>4, <4>1 DEF Expire
      <3> QED  BY <2>6, <3>1, <3>2, <3>3, <3>4
    <2>7. ASSUME NEW o \in Requests, Apply(o)
          PROVE  ChangedAsAsked(req[r].settings, flags, fields, flags', fields')
      <3>1. o = r
        BY <2>2, <2>7 DEF Apply
      <3>2. req[r].settings \in Settings
        BY <1>1, <2>7, <3>1, PrepareAssumption
        DEF Apply, Applicable, IInv, HandlerInv
      <3> QED  BY <1>1, <2>7, <3>1, <3>2, SettingsChange DEF Apply, IInv
    <2>8. CASE Spend \/ Close
      BY <1>1, <2>8 DEF Spend, Close, Applied
    <2> QED  BY <1>1, <2>4, <2>5, <2>6, <2>7, <2>8 DEF Next
  <1>2. IInv /\ [Next]_vars => [Changed]_vars
    BY <1>1
  <1>3. Spec => [][Changed]_vars
    BY <1>2, Invariance, PTL DEF Spec
  <1> QED  BY <1>3 DEF ChangesAsAsked
=============================================================================
