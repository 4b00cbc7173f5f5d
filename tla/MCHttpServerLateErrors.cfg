CONSTANTS
  plain = plain
  wide = wide
  badInput = badInput
  fatal = fatal
  Jobs = {plain, fatal}
  Questions <- MCQuestions
  Requests <- MCRequests
  Flaw <- MCFlaw
  MaxBatch = 3
  MaxPending = 3
  Handlers = 3
  Batching = TRUE
  Faulty = FALSE
SPECIFICATION Spec
INVARIANTS
  UnrelatedCallersNotRejected
