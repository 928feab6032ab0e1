\* payments.js:164, refuted: a failed row in the table leaves the client without an answer.
SPECIFICATION Spec
CONSTANTS
    Chain <- MCChain
    MaxLedger = 3
    Rows <- MCRows
    Limit = 2
    Sizes = {1, 2}
    Pages = {1, 2, 3}
    Starts = {1, 2}
    Ends = {3}
PROPERTIES
    FailedAnswered
