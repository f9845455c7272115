SPECIFICATION Spec
CONSTANTS
  BlockID <- MCBlockID
  Fact = {"right", "op", "ok"}
  Key = {"k1", "k2"}
  NoSigner = "none"
  AuthorizerBlockID = 9
  Tokens <- MCTokens
  Contents <- MCContents
INVARIANTS
  Attenuation
  AllowJustified
  RulesReadOnlyNamed
  AllowSupported
PROPERTY VerdictStable
CHECK_DEADLOCK FALSE
