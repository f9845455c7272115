SPECIFICATION Spec
CONSTANTS
  Word = {"a", "b", "c", "d", "e", "read"}
  Key = {"k1", "k2", "k3"}
  Default <- MCDefault
  Contents <- MCContents
  Signers = {"k1", "k3"}
  NoSigner = "none"
  Offset = 16
  MaxTokens = 4
  Forks = TRUE
  ReloadThirdParty = FALSE
INVARIANTS
  SymbolsResolve
CHECK_DEADLOCK FALSE
