\* Invariants, refinement and liveness of the replay.
SPECIFICATION FairSpec
CONSTANTS
    MCLen = 4
    Waves    <- MCWaves
    Reg      <- MCReg
    WordSpan <- MCWordSpan
    DeadBeef <- MCDeadBeef
    Address  <- MCAddress
INVARIANTS
    TypeOK
    StoppedInsideTrace
    StateFollowsPosition
PROPERTIES
    NothingForeseen
    ContinueEnds
    ImplementsDebugTarget
