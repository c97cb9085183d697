SPECIFICATION Spec
CONSTANTS
  Guards = {"plain", "concat"}
  Functions <- MCPanicking
  Outcomes <- MCOutcomes
INVARIANT NeverPanics
