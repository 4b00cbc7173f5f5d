CONSTANTS
  Setups <- MCSetups
  CallsOf <- MCCallsOf
  Requests <- MCRequests
  MaxLength = 24
  MaxState = 5
  MaxBranch = 15
  MinPrefix = 2
  CacheLimit = 8
SPECIFICATION FairSpec
INVARIANTS
  TypeOK
  ReadsOwn
  CheckpointsExact
  BatchClosed
  BatchFits
  AsksItsQuestion
  MatchesSinglePass
  PrefixIsState
  BoxesRead
PROPERTY Contract
