SPECIFICATION Spec
CONSTANTS
  Facts <- MCFacts
  Rules <- MCRules
  Checks <- MCChecks
  Policies <- MCPolicies
  Scopes <- MCScopes
  ParsedBlock <- MCParsedBlock
  Foreign <- MCForeign
  Bases <- MCBases
  Builder = {v1, v2}
  NoKey = "none"
  Invalid = "<invalid>"
  Ticks = 2
  Seconds = 16
  MaxAdded <- MCMaxAdded
  MaxLoads = 1
SYMMETRY BuildersAlike
INVARIANTS
  BlockReadsBack
PROPERTIES
  LoadRestores
  FailedLoadIsStrict
  RefusedForGood
CHECK_DEADLOCK FALSE
