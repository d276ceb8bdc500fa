\* What is not an acknowledgment arrives where one is expected: an interrupt, a
\* repeated command, the retransmission of a refused one.
SPECIFICATION Spec
CONSTANTS
    Requests      <- MCRequests
    Bodies        <- MCBodies
    MaxCommands   = 3
    MaxDamaged    = 1
    MaxInterrupts = 1
    MaxResends    = 1
    MaxGiveUps    = 1
INVARIANTS
    ExitsOnDisconnect
