\* A restart does not refresh what GDB is shown.
SPECIFICATION Spec
CONSTANTS
    MCLen = 3
    Waves    <- MCWaves
    Reg      <- MCReg
    WordSpan <- MCWordSpan
    DeadBeef <- MCDeadBeef
    Address  <- MCAddress
INVARIANTS
    RestartShowsFirst
