\* Pages of one or two payments out of a history read two at a time.
SPECIFICATION Spec
CONSTANTS
    Chain <- MCChain
    MaxLedger = 3
    Rows <- MCRows
    Limit = 2
    Sizes = {1, 2}
    Pages = {1, 2, 3}
    Starts = {1, 2}
    Ends = {3}
INVARIANTS
    TypeOK
    PageIsSlice
    AnswerIsPage
    NothingKeptBeforeOffset
PROPERTIES
    ExcludedAnswered
