SPECIFICATION MCSpec
CONSTANTS
    ScopeNames <- MCScopes
    Variables <- MCVariables
    FileNames <- MCFiles
    Lists <- MCLists
    MaxRecords = 5
    BufLen = 8
    DataLen = 2
    WordBits = 8
    Memory <- MCMemory
    Registers <- MCRegisters
    Commands <- MCCommands
    Garbage <- MCGarbage
    MaxSent = 3
INVARIANTS GeometryAgrees HandlesAgree ReferencesResolve FoundRight TrueMeansFound
    UnderstoodAsSent ReadsAnswered
CHECK_DEADLOCK FALSE
