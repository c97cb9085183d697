CONSTANTS
  NBlocks = 4
  ScalarCfgs <- MCScalarCfgs
  PointerCfgs <- MCPointerCfgs
  Graphs <- MCGraphs
SPECIFICATION FairSpec
INVARIANTS
  LivenessExact
  ReachingExact
  CopiesExact
  OnePairPerDst
  OneAnswer
  DominatorsExact
  OneImmediateDominator
PROPERTIES
  EveryAnalysisStops
CHECK_DEADLOCK FALSE
