\* Changes of two integer flags by one transaction.
SPECIFICATION Spec
CONSTANTS
    r1 = r1
    r2 = r2
    text = text
    Clear = Clear
    None = None
    Requests <- MCRequests
    BitFlags <- MCBitFlags
    Fields <- MCFields
    HexFields <- MCHexFields
    RateFields <- MCRateFields
    Texts <- MCTexts
    Asks <- MCAsks
    Accounts <- MCAccounts
    Offset = 1
    MaxLedger = 2
    MaxSequence = 2
PROPERTIES
    ReportedIsDone
CHECK_DEADLOCK FALSE
