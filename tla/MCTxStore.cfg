\* Exhaustive: no bound beyond the four saves.
SPECIFICATION Spec
CONSTANTS
    s1 = s1
    s2 = s2
    s3 = s3
    s4 = s4
    id1 = id1
    id2 = id2
    alice = alice
    bob = bob
    NoRow = NoRow
    Saves <- MCSaves
    Ids <- MCIds
    ClientId <- MCClientId
    Owner <- MCOwner
INVARIANTS
    TypeOK
    MutualExclusion
    DecisionFresh
PROPERTIES
    RowKeepsOwner
    SavesEnd
    AtomicSaves
