CONSTANTS
  Calls <- MCCalls
  Limit <- MCLimit
  Letters = 3
  SinglePairs <- MCSinglePairs
  Narrow = 2
  IsolatedLevels = TRUE
  Profiles = {"dohnuts", "decider", "thisthat", "tev1", "jad", "kev", "neohorsejev"}
SPECIFICATION Spec
INVARIANTS
  AnswersFollow
  LegendNamesVerdict
  ChargedForOwnRows
  ListedProbabilityIsOwn
