SPECIFICATION Spec
CONSTANTS
    Component <- MCComponent
    Variable <- MCVariable
    Macro <- MCMacro
    Root = "/"
    None = None
    Calls <- MCCalls
INVARIANTS
    FfTypeOK
    FlattensSelected
    ChainIsReal
    InputsSurvive
    ExitTells
PROPERTIES
    FfEnds
CHECK_DEADLOCK TRUE
