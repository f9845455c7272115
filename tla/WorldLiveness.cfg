SPECIFICATION FairSpec
CONSTANTS
  BlockID <- MCBlockID
  Fact <- MCFact
  Loadable <- MCLoadable
  Rules <- ChainRules
  MaxFacts = 5
  MaxIterations = 3
  MaxRuns = 2
  AllowOverlap = TRUE
INVARIANT FaultNeedsTimeout
PROPERTY RunReturns
PROPERTY GoroutineStops
CHECK_DEADLOCK FALSE
