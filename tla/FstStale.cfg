SPECIFICATION Spec
CONSTANTS
    Shapes <- ThreeBits
    Values <- OneAndZero
    EmitTimes = {0, 1}
    BreakSize = 2
    SizeLimits = {0}
    MaxChanges = 3
    MaxTimes = 2
    MaxExtras = 0
    Requests <- AllChanges
    MaxLookups = 0
INVARIANT DeliveredInOrder
CHECK_DEADLOCK FALSE
