SPECIFICATION HierSpec
CONSTANTS
    ScopeNames <- MCScopes
    Variables <- MCVariables
    FileNames <- MCFiles
    Lists <- MCLists
    MaxRecords = 3
INVARIANTS FoundMeansTrue
CHECK_DEADLOCK FALSE
