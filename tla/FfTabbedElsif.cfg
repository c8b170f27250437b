SPECIFICATION Spec
CONSTANTS
    Component <- MCComponent
    Variable <- MCVariable
    Macro <- MCMacro
    Root = "/"
    None = None
    Calls <- TabbedBranches
INVARIANTS
    FlattensSelected
CHECK_DEADLOCK TRUE
