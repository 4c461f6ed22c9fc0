SPECIFICATION BoundedSpec
CONSTANTS
  ACTIVATION_EPOCH = 1
  EPOCHS_PER_QUARTER = 2
  Orchestrators = {oA, oB}
  Wallets = {w1, w2}
  Pairs = {p1, p2}
  Cutoffs = {1, 3}
  None = None
  MaxEpoch = 3
  MaxLog = 2
  MaxRows = 3
  MaxAdmissions = 3
  MaxCutoffs = 1
INVARIANTS
  TypeOK
  NoDoubleCredit
  KeysUnique
  DefensiveThrowsUnreachable
  TablesMatchActor
PROPERTIES
  ClosedQuartersFrozen
  EndedRowsKept
  ImplementsTimeline
SYMMETRY Symmetry
CHECK_DEADLOCK FALSE
