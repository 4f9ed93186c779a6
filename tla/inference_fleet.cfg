SPECIFICATION Spec
CONSTANTS
    Tickets = {t1, t2}
    Lanes = {"chat"}
    Workers = {w1, w2, w3}
    MaxLease = 2
    MaxIssued = 2
    MaxCalls = 3
    MaxRotations = 2
    MaxFaults = 1
    RequestBudget <- Twos
    TokenBudget <- Twos
    Concurrency <- Twos
    FleetLimit <- Ones
    Ceiling = 1
SYMMETRY Symmetry
INVARIANTS TypeOK CountersExact SpendIsReceipts FleetOvershoot
PROPERTIES TerminalStays
CHECK_DEADLOCK FALSE
