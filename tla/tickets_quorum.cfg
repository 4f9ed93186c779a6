SPECIFICATION QuorumSpec
CONSTANTS
  Agents = {a1}
  Versions = {7}
  Validators = {v1, v2, v3}
  Slots = {s0}
  DefaultSlot = s0
  SCORING_QUORUM = 2
  MaxRevision = 3
  MaxRecoveries = 1
SYMMETRY ValidatorSymmetry
INVARIANTS QuorumKept
CHECK_DEADLOCK FALSE
