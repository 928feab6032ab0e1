\* Every notification and every list of two or three; two payments may fail.
SPECIFICATION Spec
CONSTANTS
    Chain <- MCChain
    MaxLedger = 3
    Rows <- TwoRows
    Limit = 3
    Sizes = {2, 3}
    Pages = {0, 1, 2}
INVARIANTS
    TypeOK
    NeighboursFound
    ListNeighbours
