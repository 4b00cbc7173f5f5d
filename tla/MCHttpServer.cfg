CONSTANTS
  plain = plain
  wide = wide
  badInput = badInput
  fatal = fatal
  Jobs = {plain, wide, badInput, fatal}
  Questions <- MCQuestions
  Requests <- MCRequests
  Flaw <- MCFlaw
  MaxBatch = 4
  MaxPending = 3
  Handlers = 3
  Batching = TRUE
  Faulty = FALSE
SPECIFICATION Spec
INVARIANTS
  PendingAccounts
  HeldOnce
  OwnResults
  RangesDisjoint
  InputErrorsAreOwn
  BatchWithinLimits
  NoLostWakeup
  CleanShutdown
PROPERTIES
  ServiceSpec
