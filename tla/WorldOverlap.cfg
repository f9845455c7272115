SPECIFICATION Spec
CONSTANTS
  BlockID <- MCBlockID
  Fact <- MCFact
  Loadable <- MCLoadable
  Rules <- ChainRules
  MaxFacts = 50
  MaxIterations = 3
  MaxRuns = 2
  AllowOverlap = TRUE
INVARIANT SuccessIsFixpoint
CHECK_DEADLOCK FALSE
