-------------------------- MODULE AccountSettings ---------------------------
(***************************************************************************)
(* How the settings of a request become a transaction                      *)
(* (api/transaction/settings.js), what the ledger makes of it, and what    *)
(* the handlers report (api/settings.js).  Settings are a function on the  *)
(* names that the request gives.                                           *)
(***************************************************************************)
EXTENDS Naturals

CONSTANTS
    BitFlags,   \* the names of AccountSetFlags
    Fields,     \* the names of AccountRootFields a request may give
    HexFields,  \* those of variable length and encoding hex: domain
    RateFields, \* those convertTransferRate converts: transfer_rate
    Texts,      \* values of fields
    Clear,      \* CLEAR_SETTING
    None

\* AccountSetIntFlags, with the order in which they are enumerated.
IntOrder == [no_freeze |-> 1, global_freeze |-> 2, default_ripple |-> 3]
IntFlags == DOMAIN IntOrder

\* The flags of an account that validateSettings accepts and that no
\* transaction is given.
IgnoredFlags == {"disable_master", "password_spent"}

\* AccountRootFlags
Flags == BitFlags \cup IntFlags \cup IgnoredFlags

ASSUME SettingsAssumption ==
    /\ BitFlags \cap IntFlags = {} /\ Fields \cap Flags = {}
    /\ IgnoredFlags \cap (BitFlags \cup IntFlags) = {}
    /\ HexFields \subseteq Fields /\ RateFields \subseteq Fields
    /\ HexFields \cap RateFields = {}
    /\ None \notin Flags \cup Texts /\ Clear \notin Texts

\* What validateSettings accepts, with the values of the right types (it does
\* not look at that of default_ripple).  Of transaction_sequence, which is the
\* number of the transaction, see Prepare.
Settings ==
    UNION {{s \in [D -> BOOLEAN \cup Texts \cup {Clear}] :
              /\ \A n \in D \cap Flags : s[n] \in BOOLEAN
              /\ \A n \in D \cap Fields : s[n] \in Texts \cup {Clear}} :
           D \in SUBSET (Flags \cup Fields)}

Asked(s, value) == {n \in Flags \cap DOMAIN s : s[n] = value}

-----------------------------------------------------------------------------
(* A definition whose name has a suffix after an underscore is a faulty
   variant of the one that follows it, a slip a property must notice.       *)

\* validateSettings: of the flags only a clash of these two is looked for.
SetCollision(s) ==
    /\ {"no_freeze", "global_freeze"} \subseteq DOMAIN s
    /\ s["no_freeze"] = s["global_freeze"]

\* A transaction has one SetFlag and one ClearFlag: the last one wins.
Last(flags) ==
    IF flags = {} THEN None
    ELSE CHOOSE f \in flags : \A g \in flags : IntOrder[g] <= IntOrder[f]

\* A value that is neither hex-encoded nor scaled.
Encode_Raw(n, value) == value

\* What a field's value is sent as.
Encode(n, value) ==
    IF value = Clear THEN Clear
    ELSE <<IF n \in HexFields THEN "hex"
           ELSE IF n \in RateFields THEN "scaled" ELSE "plain", value>>

\* An account's flags are set only: a flag that is asked to be false is
\* treated like one that is not asked for.
Transaction_SetOnly(s) ==
    [set       |-> Asked(s, TRUE) \cap BitFlags,
     unset     |-> {},
     SetFlag   |-> Last(Asked(s, TRUE) \cap IntFlags),
     ClearFlag |-> Last(Asked(s, FALSE) \cap IntFlags),
     fields    |-> [n \in Fields \cap DOMAIN s |-> Encode(n, s[n])]]

\* createSettingsTransaction: setTransactionBitFlags, setTransactionIntFlags,
\* setTransactionFields, convertTransferRate.
Transaction(s) ==
    [set       |-> Asked(s, TRUE) \cap BitFlags,
     unset     |-> Asked(s, FALSE) \cap BitFlags,
     SetFlag   |-> Last(Asked(s, TRUE) \cap IntFlags),
     ClearFlag |-> Last(Asked(s, FALSE) \cap IntFlags),
     fields    |-> [n \in Fields \cap DOMAIN s |-> Encode(n, s[n])]]

\* parseSettingsResponse: what the handler reports to have changed.
Reported(s, tx) ==
    [n \in (DOMAIN s \ BitFlags) \cup BitFlags |->
       IF n \in BitFlags THEN n \in tx.set ELSE s[n]]

-----------------------------------------------------------------------------
(* The ledger.                                                              *)

\* An account: its flags, and the fields it has.
Stored == {"hex", "scaled", "plain"} \X Texts

\* The flags an account with the flags fs cannot lose: no_freeze, and
\* global_freeze once no_freeze is set.
Kept(fs) == {"no_freeze"} \cup IF "no_freeze" \in fs THEN {"global_freeze"} ELSE {}

\* AccountSet.  SetFlag is applied before ClearFlag.
AppliedFlags(fs, tx) ==
    LET on == (fs \ tx.unset) \cup tx.set \cup ({tx.SetFlag} \ {None}) IN
    on \ ({tx.ClearFlag} \ Kept(on))

AppliedFields(values, tx) ==
    [n \in Fields |-> IF n \in DOMAIN tx.fields THEN tx.fields[n] ELSE values[n]]

\* parseFlagsFromResponse and parseFieldsFromResponse: what getSettings tells
\* of an account; fields of encoding hex and variable length are decoded.
Got(fs, values) ==
    [n \in Flags \cup Fields |->
       IF n \in Flags THEN n \in fs
       ELSE IF values[n] # Clear /\ n \in HexFields THEN <<"plain", values[n][2]>>
       ELSE values[n]]

-----------------------------------------------------------------------------
(* What settings mean.                                                      *)

\* The form in which the ledger keeps a field: a domain in hex, a transfer
\* rate in billionths.
LedgerForm(n) ==
    IF n \in HexFields THEN "hex" ELSE IF n \in RateFields THEN "scaled" ELSE "plain"

\* The account with the flags fs and the fields values has, as n, the value.
Has(fs, values, n, value) ==
    IF n \in Flags THEN (n \in fs) = value
    ELSE values[n] = IF value = Clear THEN Clear ELSE <<LedgerForm(n), value>>

\* What getSettings tells of a value when the account has it: the value as it
\* was given, but a transfer rate as the ledger keeps it.
Told(n, value) ==
    IF n \in Flags \/ value = Clear THEN value
    ELSE <<IF n \in RateFields THEN "scaled" ELSE "plain", value>>

\* One integer flag to set and one to clear is all that a transaction can do.
FitsOneTransaction(s) ==
    \A value \in BOOLEAN : \A f, g \in Asked(s, value) \cap IntFlags : f = g

\* The ledger refuses to clear some flags of the account.
Refused(s, fs) == Asked(s, FALSE) \cap Kept(fs \cup Asked(s, TRUE))

\* What s names, but for the flags that are ignored, the account has as asked,
\* and getSettings tells it; the rest, the ignored flags among it, is what it
\* was.
ChangedAsAsked(s, fs, values, fs2, values2) ==
    \A n \in (Flags \cup Fields) \ Refused(s, fs) :
       IF n \in DOMAIN s \ IgnoredFlags
       THEN Has(fs2, values2, n, s[n]) /\ Got(fs2, values2)[n] = Told(n, s[n])
       ELSE Got(fs2, values2)[n] = Got(fs, values)[n]
=============================================================================
