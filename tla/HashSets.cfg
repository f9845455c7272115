SPECIFICATION Spec
CONSTANTS
  Element <- MCElement
  Hash <- MCHash
  Hashes <- MCHashes
  Compare <- MCCompare
  SetName = {a, b}
  MaxSize = 3
SYMMETRY SetsAlike
INVARIANTS
  SizeExact
  CopiesBounded
PROPERTIES
  Implements
