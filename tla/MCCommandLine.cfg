CONSTANTS
  Processes <- MCProcesses
  Numerals <- MCNumerals
SPECIFICATION Spec
INVARIANTS
  ReadoutAvailable
  OutputFollowsInput
