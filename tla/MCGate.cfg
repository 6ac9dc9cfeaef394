CONSTANTS
  h1 = h1
  h2 = h2
  x = x
  Servers = {h1, h2, x}
  Honest = {h1, h2}
  Lies = {1, 4}
  Limit = 2
  JumpLimit = 2
  Deadline = 2
  Timeout = 1
  Era = 64
  EraOffset = 40
  Opening = 6
  Starts = {2, 4}
  Offsets = {0, 1}
  Steps = {1, 3}
  Horizon = 6
SPECIFICATION FairSpec
CHECK_DEADLOCK FALSE
INVARIANTS TypeOK HonestMajorityRules
PROPERTIES NeverFarEarly HonestTimeAccepted SyncEnds
