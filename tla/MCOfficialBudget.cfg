CONSTANTS
  Calls <- MCCalls
  SeqMax = 3
  MaxLength = 5
SPECIFICATION Spec
INVARIANT BudgetPerSequence
