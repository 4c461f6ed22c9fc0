SPECIFICATION FairBoundedSpec
CONSTANTS
  Sra = sra
  Swa = swa
  None = none
  P1 = p1
  P2 = p2
  T1 = t1
  Deployed <- MCDeployed
  PayContracts = {p1}
  Tokens = {t1}
  PayRows <- RemovedContract
  RailsAt <- EarlyRail
  RecentBatch = 1
  ArchiveBatch = 2
  ArchiveThreshold = 1
  HeightDifference = none
  Passes = {1, 2}
  MaxBlock = 3
  MaxFaults = 2
INVARIANTS
  TypeOK
  EveryContractOnce
  NoOverlap
  RetrySlotFree
PROPERTIES
  CatchesUp
