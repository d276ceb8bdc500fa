\* The registers at an instruction against those it starts from.
SPECIFICATION Spec
CONSTANTS
    X = X
    Handle <- MCHandle
    Resets <- MCResets
    Cycles <- MCCycles
    Reg    <- MCReg
    Bytes  <- MCBytes
    MaxCycles = 2
INVARIANTS
    RegistersBefore
