\* Two requests of any two kinds; the remote's ledgers are any set of 1..3.
SPECIFICATION Spec
CONSTANTS
    r1 = r1
    r2 = r2
    Requests <- MCRequests
    StandAlone = FALSE
    Top = 3
    None = None
INVARIANTS
    TypeOK
    CalledOnce
PROPERTIES
    EndsForAReason
    PathsAnswered
    LinkRestored
    
\* The process ends with an uncaught exception.
CHECK_DEADLOCK FALSE
