SPECIFICATION BoundedSpec
CONSTANTS
  ACTIVATION_EPOCH = 1
  EPOCHS_PER_QUARTER = 2
  Orchestrators = {o1, o2}
  Tokens = {t1, x1}
  ERC20 = {t1}
  None = none
  Volumes = {0, 2}
  Gates <- LaterGates
  INITIAL_GATE <- InitialGate
  SCALE = 10
  STEPS_CAP = 2
  POST_PERIOD = 1
  Versions = {1, 2}
  MaxEpoch = 5
  MaxLog = 2
  MaxFills = 2
  MaxEvents = 3
SYMMETRY Symmetry
CHECK_DEADLOCK FALSE
INVARIANTS
  ServiceTypeOK
  TablesReplayLog
  ServedByOwnVersion
  QuartersTruthful
  MissedIsRight
  PostingsAddUp
  GateTargetAsOf
