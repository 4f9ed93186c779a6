SPECIFICATION FairSpec
CONSTANTS
    MaxBlock = 7
    LastReceipt = 2
    Earned <- MCEarned
    Bps <- MCBps
    Principal = 2
    Interval = 1
    MaxDistribution = 4
    ManualCeiling = 4
    Mortality = 2
    ScanChunk = 1
    SigningMargin = 2
    ArmWindow = 4
    CanaryCeilings = {}
    RequestIds = {}
    RetainedFloors = {1}
    NONE = NONE
INVARIANTS SharesPaid OneInFlight JournalTruthful
PROPERTY OperationSettles
CHECK_DEADLOCK FALSE
