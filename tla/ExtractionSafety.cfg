\* Every order of callbacks, over three clock cycles of a CPU that is active in nine ways.
SPECIFICATION Spec
CONSTANTS
    X = X
    Handle <- MCHandle
    Resets <- MCResets
    Cycles <- MCCycles
    Reg    <- MCReg
    Bytes  <- MCBytes
    MaxCycles = 3
INVARIANTS
    TypeOK
    RetiredRecorded
    RegistersAfter
    MemoryAfter
