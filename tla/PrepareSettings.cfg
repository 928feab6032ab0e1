\* Two clients change one account, by submission or by prepared transactions.
SPECIFICATION Spec
CONSTANTS
    r1 = r1
    r2 = r2
    text = text
    Clear = Clear
    None = None
    Requests <- MCRequests
    BitFlags <- MCBitFlags
    Fields <- MCFields
    HexFields <- MCHexFields
    RateFields <- MCRateFields
    Texts <- MCTexts
    Asks <- MCAsks
    Accounts <- MCAccounts
    Offset = 1
    MaxLedger = 2
    MaxSequence = 2
INVARIANTS
    TypeOK
    SequenceOfThePrepare
PROPERTIES
    ChangesAsAsked
    PrepareAnswered
\* All requests are answered and the bounds are reached.
CHECK_DEADLOCK FALSE
