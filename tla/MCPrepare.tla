----------------------------- MODULE MCPrepare ------------------------------
(* Instances of Prepare with one flag and two fields of each treatment. *)
EXTENDS Prepare, FiniteSets, TLC

CONSTANTS r1, r2, text

MCRequests == {r1, r2}
MCBitFlags == {"require_destination_tag"}
MCFields == {"domain", "transfer_rate"}
MCHexFields == {"domain"}
MCRateFields == {"transfer_rate"}
MCTexts == {text}

\* A new account, and one with everything set.
MCAccounts ==
    {[flags |-> {}, fields |-> [n \in Fields |-> Clear]],
     [flags |-> Flags, fields |-> [domain |-> <<"hex", text>>, transfer_rate |-> <<"scaled", text>>]]}

\* r1 asks for any one setting, any two integer flags, a bit flag with one that
\* is ignored, or both fields; r2 for one flag.
Domains ==
    {D \in SUBSET (Flags \cup Fields) :
        \/ Cardinality(D) <= 1
        \/ Cardinality(D) = 2 /\ D \subseteq IntFlags
        \/ D \in {Fields, BitFlags \cup {"disable_master"}}}
Choices ==
    {s \in UNION {[D -> BOOLEAN \cup {text, Clear}] : D \in Domains} :
        \A n \in DOMAIN s : s[n] \in IF n \in Flags THEN BOOLEAN ELSE {text, Clear}}
Tag == [n \in {"require_destination_tag"} |-> TRUE]
MCAsks == [r \in Requests |-> IF r = r1 THEN Choices ELSE {Tag}]
=============================================================================
