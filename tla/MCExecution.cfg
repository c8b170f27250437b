SPECIFICATION Spec
CONSTANTS
    Configs <- MCConfigs
    OldLogs <- MCOldLogs
INVARIANTS
    TypeOK
    FailureTruncates
    JudgedOnce
    LogCoversTheNode
    PassIsEarned
    FailIsExplained
PROPERTIES
    ImplementsPipeline
    Terminates
CHECK_DEADLOCK FALSE
