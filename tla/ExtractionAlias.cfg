\* A data bus whose valid and ready are one signal.
SPECIFICATION Spec
CONSTANTS
    X = X
    Handle <- MCAliasHandle
    Resets <- MCAliasResets
    Cycles <- MCAliasCycles
    Reg    <- MCReg
    Bytes  <- MCBytes
    MaxCycles = 2
INVARIANTS
    MemoryAfter
