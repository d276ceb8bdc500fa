SPECIFICATION MCSpec
CONSTANTS
    Shapes <- MCShapes
    Values <- MCValues
    EmitTimes = {0, 1, 2}
    BreakSize = 2
    SizeLimits = {0, 1}
    MaxChanges = 3
    MaxTimes = 3
    MaxExtras = 1
    Requests <- MCRequests
    MaxLookups = 2
CHECK_DEADLOCK FALSE
INVARIANTS TypeOK DeliveredInOrder DeliveredOnTime RangeComplete TimesAscend TimesInsideFile
    BlackoutsComplete LookupsRight Recoverable
PROPERTIES BlocksStay
