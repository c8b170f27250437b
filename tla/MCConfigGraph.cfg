SPECIFICATION Spec
CONSTANTS
    Files <- MCFiles
    EntryRules = "base.rules"
    EntryTc = "func.tc"
    RulesFiles <- MCRulesFiles
    Graphs <- MCGraphs
    Declarations <- MCDeclarations
    MaxIncludes = 2
    None = None
INVARIANTS
    TypeOK
    CyclesAreReal
    IncludesFirst
    IncludesAccounted
    Precedence
CHECK_DEADLOCK FALSE
