SPECIFICATION BoundedSpec
CONSTANTS
  Sra = sra
  Swa = swa
  None = none
  P1 = p1
  P2 = p2
  T1 = t1
  Deployed <- MCDeployed
  PayContracts = {p1, p2}
  Tokens = {t1}
  PayRows <- RemovedAndTwo
  RailsAt <- EarlyRail
  RecentBatch = 1
  ArchiveBatch = 2
  ArchiveThreshold = 1
  HeightDifference = 1
  Passes = {1, 2}
  MaxBlock = 2
  MaxFaults = 1
INVARIANTS
  NoGaps
  ActorsExactlyOnce
  OnlyReadable
  StatusCovers
