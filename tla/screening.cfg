SPECIFICATION Spec
CONSTANTS
    a1 = a1
    a2 = a2
    Agents = {a1}
    Copies <- NoCopies
    Rolling = {a1}
    Modes = {"off", "enforce"}
    Verdicts = {"pass", "pass_inconclusive", "quarantine", "confirmed", "inconclusive", "infra", "provider", "reject", "health"}
    Notes = {FALSE}
    MaxStreak = 1
    MaxExpiries = 1
    MaxPolicy = 2
    MaxAttempts = 3
    MaxOps = 2
INVARIANTS TypeOK HeldIsResolvable
PROPERTIES RulingsStand
CHECK_DEADLOCK FALSE
