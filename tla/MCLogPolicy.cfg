SPECIFICATION Spec
CONSTANTS
    Pattern <- MCPattern
    Line <- MCLine
    Suspicious <- MCSuspicious
    Invalid <- MCInvalid
    Matches <- MCMatches
    Logs <- MCLogs
    MaxLines = 2
INVARIANTS
    TypeOK
    ErrorsComplete
    CitationsResolve
    SnapshotReproduces
PROPERTIES
    WaiversOnlyWaive
CHECK_DEADLOCK TRUE
