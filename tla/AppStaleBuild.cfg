SPECIFICATION Spec
CONSTANTS
    Procs = {p1}
    Filelists = {f1}
    Builds = {b1, b2}
    Waivers = {strict}
    Covering = {}
    Endings <- AnyEnding
    Faults = {}
    None = None
INVARIANT
    ReusedBuildMatches
CHECK_DEADLOCK TRUE
