SPECIFICATION Spec
CONSTANTS
    Procs = {p1, p2}
    Filelists = {f1}
    Builds = {b1}
    Waivers = {strict}
    Covering = {}
    Endings <- AnyEnding
    Faults = {"crash"}
    None = None
INVARIANTS
    TypeOK
    LockHeld
PROPERTIES
    ImplementsSnapshotStore
    InvocationsEnd
CHECK_DEADLOCK TRUE
