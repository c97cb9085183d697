CONSTANTS
  IntBits = 11
  HalfBits = 11
  Torn = 99
  Fuel = 80
  NStatements = 2
  MaxIterations = 6
  Tasks <- MCMeaningTasks
  Inputs <- MCInputsAndLocals
  Callee <- MCCallee
SPECIFICATION Spec
INVARIANTS
  NeverChangesTheMeaning
CHECK_DEADLOCK FALSE
