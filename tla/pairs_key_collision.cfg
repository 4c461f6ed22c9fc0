SPECIFICATION BoundedSpec
CONSTANTS
  ACTIVATION_EPOCH = 1
  EPOCHS_PER_QUARTER = 2
  Orchestrators = {oA, oB}
  Wallets = {w1}
  Pairs = {p1}
  Cutoffs = {1}
  None = None
  MaxEpoch = 3
  MaxLog = 2
  MaxRows = 3
  MaxAdmissions = 3
  MaxCutoffs = 1
INVARIANTS
  NoKeyCollision
SYMMETRY Symmetry
CHECK_DEADLOCK FALSE
