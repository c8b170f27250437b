SPECIFICATION Spec
CONSTANTS
    Procs = {p1}
    Filelists = {f1, f2}
    Builds = {b1, b2}
    Waivers = {strict}
    Covering = {}
    Endings <- CleanEnding
    Faults = {"crash", "orphan"}
    None = None
INVARIANTS
    ExecutingSnapshots
    FullRunIsFresh
    SettledArtifacts
PROPERTIES
    StageActionsKeepUpstream
SYMMETRY ConfigSymmetry
CHECK_DEADLOCK TRUE
