SPECIFICATION BoundedSpec
CONSTANTS
  ACTIVATION_EPOCH = 1
  EPOCHS_PER_QUARTER = 1
  PayContracts = {c1}
  Stablecoins = {t1, x1}
  NotERC20 = {x1}
  Values = {v1, v2}
  None = None
  MaxEpoch = 2
  MaxLog = 2
  Pairs = {pr1}
  Orchestrators = {oA, oB}
  Amounts = {1}
  Prices <- MCPrices
  FIL = FIL
  EXACT_BELOW = 2
  MaxPayments = 3
  MaxPeriods = 2
  MaxChanges = 1
  MaxRows = 3
INVARIANTS
  VolumeTypeOK
  InForceIsBoundaryList
  SqlAgrees
  JoinedOnce
  ParametersAgree
  CountedOnce
  SharesAddUp
  ListingShowsVolume
  PagesShowEachOnce
PROPERTIES
  ClosedVolumesFinal
SYMMETRY Symmetry
CHECK_DEADLOCK FALSE
