CONSTANTS
  IntBits = 11
  HalfBits = 11
  Torn = 99
  MaxEvents = 10
  NStatements = 2
  Rounds = 2
  Tasks <- MCTasks
  Inputs <- MCInputs
  Callee <- MCCallee
SPECIFICATION Spec
INVARIANTS
  TypeOK
  Simulation
  SameSoFar
CHECK_DEADLOCK FALSE
