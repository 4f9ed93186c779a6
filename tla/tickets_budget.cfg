SPECIFICATION FairSpec
CONSTANTS
  Agents = {a1}
  Versions = {7}
  Validators = {v1}
  Slots = {s0}
  DefaultSlot = s0
  SCORING_QUORUM = 1
  MaxRevision = 4
  MaxRecoveries = 2

INVARIANTS TypeOK LeaseBudget RetestServiceable
PROPERTIES LeaseEnds RepairSettles
CHECK_DEADLOCK FALSE
