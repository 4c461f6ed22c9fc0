SPECIFICATION Spec
CONSTANTS
  ACTIVATION_EPOCH = 1
  EPOCHS_PER_QUARTER = 2
  PayContracts = {c1}
  Stablecoins = {t1}
  NotERC20 = {}
  Values = {v1}
  None = None
  MaxEpoch = 4
  MaxLog = 1
  MaxRows = 2
  MaxParameters = 0
INVARIANTS
  RemovalFromNextQuarter
CONSTRAINT ShortHistory
SYMMETRY Symmetry
CHECK_DEADLOCK FALSE
