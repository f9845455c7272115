SPECIFICATION Spec
CONSTANTS
  BlockID <- MCBlockID
  Fact <- MCFact
  Loadable <- MCLoadable
  Rules <- ScopedRules
  MaxFacts = 5
  MaxIterations = 3
  MaxRuns = 2
  AllowOverlap = FALSE
INVARIANT TypeOK
INVARIANT SuccessIsFixpoint
INVARIANT FixpointInv
INVARIANT Noninterference
PROPERTY Saturates
PROPERTY FactsStable
CHECK_DEADLOCK FALSE
