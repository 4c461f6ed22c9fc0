SPECIFICATION BoundedSpec
CONSTANTS
  ACTIVATION_EPOCH = 3
  EPOCHS_PER_QUARTER = 2
  PayContracts = {c1}
  Stablecoins = {t1}
  NotERC20 = {}
  Values <- MCValues
  None = None
  MaxEpoch = 7
  MaxLog = 0
  Lots = {2, 3}
  Claims = {1}
  Volumes = {5}
  SEED_AUCTIONS = 1
  MEDIAN_RANK = 1
  MaxChanges = 1
  MaxAuctions = 3
  MaxBound = 1
INVARIANTS
  PeriodsTypeOK
  PeriodsByRule
  MinLotAsReported
  SkippedNeverCount
PROPERTIES
  ViewStaysCurrent
  ClosedPeriodsFinal
SYMMETRY Symmetry
CHECK_DEADLOCK FALSE
