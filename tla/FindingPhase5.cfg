SPECIFICATION Spec
CONSTANTS
    BudgetLimit = 3
    MaxArrived = 3
    SettingsSet <- MCSettings
    Routes <- MCRoutes
    Kinds <- MCKinds
    Chunks <- MCChunks
    Declared <- MCDeclared
    LoggingResults <- MCLoggingResults
    OtherChunks <- MCOtherChunks
INVARIANT
    NoPhase5AfterError
