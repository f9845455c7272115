SPECIFICATION Spec
CONSTANTS
  RootKeys <- MCRootKeys
  PartyKeys <- MCPartyKeys
  RootKeyID <- MCRootKeyID
  Data = {"d"}
  MaxTokens = 4
  MaxBlocks = 3
  MaxKeys = 3
INVARIANT TypeOK
INVARIANT TokensVerify
INVARIANT OnlyBuiltChainsVerify
INVARIANT RevocationNamesHistory
INVARIANT ThirdPartyBlocksBound
INVARIANT SealedIsFinal
CHECK_DEADLOCK FALSE
