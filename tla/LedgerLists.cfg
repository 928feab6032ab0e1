\* Every query, and clients that follow markers, while two ledgers close.
SPECIFICATION Spec
CONSTANTS
    Entries = {1, 2, 3, 4, 5}
    Books <- MCBooks
    Matching = {1, 3, 5}
    Limits = {1, 2}
INVARIANTS
    TypeOK
    NothingLostOrTwice
    OneLedger
PROPERTIES
    Answered
