SPECIFICATION LanesSpec
CONSTANTS
  Agents = {a1}
  Versions = {7, 8}
  Validators = {v1}
  Slots = {s0, s1}
  DefaultSlot = s0
  SCORING_QUORUM = 1
  MaxRevision = 2
  MaxRecoveries = 0

INVARIANTS OneLeasePerSlot AgentLeasesExclusive CanonicalPin
CHECK_DEADLOCK FALSE
