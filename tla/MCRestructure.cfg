SPECIFICATION Spec
CONSTANTS
  Guards = {"plain", "concat"}
  Functions <- MCFunctions
  Outcomes <- MCOutcomes
INVARIANTS
  SameUnlessDeadLoop
  OrdinaryNeverPanics
  GraphMeansCode
  GraphIsValid
  LoopsHavePreheaders
  OneResult
PROPERTY Shrinks
