SPECIFICATION ReplaceSpec
CONSTANTS
  Agents = {a1}
  Versions = {7}
  Validators = {v1, v2, v3}
  Slots = {s0}
  DefaultSlot = s0
  SCORING_QUORUM = 2
  MaxRevision = 2
  MaxRecoveries = 0
SYMMETRY ValidatorSymmetry
INVARIANT AtMostQuorumScores
CHECK_DEADLOCK FALSE
