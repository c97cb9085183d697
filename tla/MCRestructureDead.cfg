SPECIFICATION Spec
CONSTANTS
  Guards = {"plain", "concat"}
  Functions <- MCDeadLoops
  Outcomes <- MCOutcomes
INVARIANT SameExecutions
