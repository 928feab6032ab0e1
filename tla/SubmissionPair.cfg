\* Two payments of one account with one client_resource_id; saves of one may fail.
SPECIFICATION Spec
CONSTANTS
    r1 = r1
    r2 = r2
    id1 = id1
    alice = alice
    NoRow = NoRow
    Ids <- MCIds
    IdOf <- MCIdOf
    AccountOf <- MCAccountOf
    Requests <- MCRequests
    Validated <- First
    Recorded <- MCRequests
    MaxSends = 2
    Unsafe <- First
INVARIANTS
    TypeOK
    SecondReplyNeedsResend
    ValidatedReplyIsFinal
    NewestSaveIsCurrent
    SubmittedIsRecorded
PROPERTIES
    FinalRowStays
    KnownIdRefused
    ClientAnswered
