\* Damage, an interrupt, a repeated command and late replies, in any combination.
SPECIFICATION FairSpec
CONSTANTS
    Requests      <- MCRequests
    Bodies        <- MCBodies
    MaxCommands   = 5
    MaxDamaged    = 1
    MaxInterrupts = 1
    MaxResends    = 1
    MaxGiveUps    = 2
INVARIANTS
    TypeOK
    AnswersMatch
    TakenInOrder
    StaysUndisturbed
PROPERTIES
    Answered
    DisconnectEnds
