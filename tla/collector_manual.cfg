SYMMETRY RequestSymmetry
SPECIFICATION Spec
CONSTANTS
    MaxBlock = 6
    LastReceipt = 2
    Earned <- MCEarned
    Bps <- MCBps
    Principal = 2
    Interval = 1
    MaxDistribution = 4
    ManualCeiling = 2
    Mortality = 1
    ScanChunk = 2
    SigningMargin = 1
    ArmWindow = 1
    CanaryCeilings = {1}
    RequestIds = {r1, r2}
    RetainedFloors = {3}
    NONE = NONE
INVARIANTS SharesPaid IntentAttributed HistoryReadable CanaryBounded
PROPERTY ImplementsJournal RetainedKept
CHECK_DEADLOCK FALSE
