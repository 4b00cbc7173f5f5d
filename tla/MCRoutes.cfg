CONSTANTS
  Clients = {c1, c2}
  Arrivals <- MCArrivals
  Keyed = TRUE
  MaxQuestions = 3
  Width = 16
  Capacity = 1
SYMMETRY Exchange
SPECIFICATION Spec
INVARIANTS
  OnlyUnlockedJoin
  AdmittedFit
  RetryIsSafe
  StatusBlamesRightly
