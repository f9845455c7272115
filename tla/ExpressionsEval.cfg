SPECIFICATION Spec
CONSTANTS
  Width = 3
  Regex <- MCRegex
  Trees <- MCTrees
  Programs <- MCPrograms
  Bindings <- MCBindings
  Known <- MCKnown
  MaxStack = 3
  LastDate = 2
INVARIANTS
  PrintsBack
  EvaluatesTree
  SumsExact
  QuotientsExact
  OnlyPostfixEvaluates
CHECK_DEADLOCK FALSE
