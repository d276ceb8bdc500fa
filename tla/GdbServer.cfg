\* A debugging session, with damage, an interrupt and a late reply.
SPECIFICATION MCSpec
CONSTANTS
    Waves    <- MCWaves
    Reg      <- MCReg
    WordSpan <- MCWordSpan
    DeadBeef <- MCDeadBeef
    Address  <- MCAddress
    Requests <- MCRequests
    MaxCommands   = 4
    MaxDamaged    = 1
    MaxInterrupts = 1
    MaxGiveUps    = 1
INVARIANTS
    TypeOK
    ViewIsCurrent
    OneInstant
    StopIsTrue
    TerminatedIsTrue
    BreakpointsAgree
PROPERTIES
    Answered
