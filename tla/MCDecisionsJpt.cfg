CONSTANTS
  Calls <- MCCalls
  Limit <- MCLimit
  Letters = 3
  SinglePairs <- MCSinglePairs
  Narrow = 2
  IsolatedLevels = TRUE
  Profiles = {"jpt"}
SPECIFICATION Spec
INVARIANT NoulIsYes
