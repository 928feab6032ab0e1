\* Two lookups of a payment that may be sent twice.
SPECIFICATION Spec
CONSTANTS
    p1 = p1
    l1 = l1
    l2 = l2
    Payments <- MCPayments
    Lookups <- MCLookups
    MaxSends = 2
    None = None
INVARIANTS
    TypeOK
PROPERTIES
    FinalIsFound
    LookupAnswered
