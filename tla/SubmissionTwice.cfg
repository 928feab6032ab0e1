\* README.old.md:117, refuted: two concurrent payments with one identifier.
SPECIFICATION Spec
CONSTANTS
    r1 = r1
    r2 = r2
    id1 = id1
    alice = alice
    NoRow = NoRow
    Ids <- MCIds
    IdOf <- MCIdOf
    AccountOf <- MCAccountOf
    Requests <- MCRequests
    Validated <- First
    Recorded <- MCRequests
    MaxSends = 1
    Unsafe = {}
INVARIANTS
    NoDoubleSubmission
