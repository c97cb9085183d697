CONSTANTS
  IntBits = 11
  HalfBits = 11
  Torn = 99
  Fuel = 120
  NStatements = 3
  MaxIterations = 6
  Tasks <- MCTasks
  Inputs <- MCInputs
  Callee <- MCCallee
SPECIFICATION Spec
INVARIANTS
  SameBehaviour
  ReachesFixpoint
CHECK_DEADLOCK FALSE
