SPECIFICATION Spec
CONSTANTS
    Procs = {p1, p2}
    File = {"tc", "waive", "result"}
    MaxInodes = 2
    None = None
INVARIANTS
    TypeOK
    MutualExclusion
    LoadStands
    LitterNeedsCrash
PROPERTIES
    ImplementsSnapshotStore
    SessionsEnd
CHECK_DEADLOCK TRUE
