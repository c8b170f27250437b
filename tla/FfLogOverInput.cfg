SPECIFICATION Spec
CONSTANTS
    Component <- MCComponent
    Variable <- MCVariable
    Macro <- MCMacro
    Root = "/"
    None = None
    Calls <- LogOverInput
INVARIANTS
    LogStandsApart
CHECK_DEADLOCK TRUE
