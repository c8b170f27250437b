SPECIFICATION Spec
CONSTANTS
    Procs = {p1}
    Filelists = {f1}
    Builds = {b1}
    Waivers = {strict, lenient}
    Covering = {lenient}
    Endings <- AnyEnding
    Faults = {"crash", "abort", "wipe"}
    None = None
INVARIANTS
    RecordedFailureSticks
    AuditTrail
CHECK_DEADLOCK TRUE
