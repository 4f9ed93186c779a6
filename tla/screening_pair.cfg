SPECIFICATION FairSpec
CONSTANTS
    a1 = a1
    a2 = a2
    Agents = {a1, a2}
    Copies <- OneCopy
    Rolling = {}
    Modes = {"off"}
    Verdicts = {"pass", "quarantine", "reject", "infra", "late", "duplicate"}
    Notes = {FALSE}
    MaxStreak = 2
    MaxExpiries = 2
    MaxPolicy = 1
    MaxAttempts = 3
    MaxOps = 1
INVARIANTS OneOwnerAdmitted 
PROPERTIES SubmissionSettles
CHECK_DEADLOCK FALSE
