CONSTANTS
  plain = plain
  wide = wide
  badInput = badInput
  fatal = fatal
  Jobs = {plain, wide, badInput}
  Questions <- MCQuestions
  Requests <- MCRequests
  Flaw <- MCFlaw
  MaxBatch = 2
  MaxPending = 2
  Handlers = 2
  Batching = TRUE
  Faulty = FALSE
SPECIFICATION FairSpec
PROPERTIES
  EveryCallAnswered
  SignalStops
