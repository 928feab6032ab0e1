\* README.old.md:2212, refuted: a failed payment is in the table.
SPECIFICATION Spec
CONSTANTS
    Chain <- MCChain
    MaxLedger = 3
    Rows <- OneRow
    Limit = 3
    Sizes = {2, 3}
    Pages = {0, 1, 2}
INVARIANTS
    NeighboursCanBeAsked
