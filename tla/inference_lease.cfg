SPECIFICATION FairSpec
CONSTANTS
    Tickets = {t1}
    Lanes <- ChatAndEmbedding
    Workers = {w1, w2}
    MaxLease = 1
    MaxIssued = 1
    MaxCalls = 3
    MaxRotations = 3
    MaxFaults = 2
    RequestBudget <- OneAndTwo
    TokenBudget <- Ones
    Concurrency <- Ones
    FleetLimit <- Twos
    Ceiling = 1
 
PROPERTIES OrphanReclaimed
CHECK_DEADLOCK FALSE
