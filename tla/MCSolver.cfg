CONSTANTS
  NBlocks = 3
  Direction = "Forwards"
  Cfgs <- MCCfgs
  Facts <- MCFacts
  Leq <- Above
  FlowBlock <- MCFlowBlock
  Combine <- Intersection
  InitIn <- EmptyAtBoundary
  InitOut <- AllFull
SPECIFICATION FairSpec
INVARIANTS
  NoDuplicates
  Settled
  BelowEverySolution
PROPERTIES
  Termination
  ImplementsChaotic
CHECK_DEADLOCK FALSE
