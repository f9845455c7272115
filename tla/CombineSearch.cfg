SPECIFICATION Spec
CONSTANTS
  Variable <- MCVariable
  Value <- MCValue
  Bodies <- MCBodies
  FactLists <- MCFactLists
INVARIANT SearchExact
INVARIANT YieldedInOrder
PROPERTY SearchEnds
CHECK_DEADLOCK FALSE
