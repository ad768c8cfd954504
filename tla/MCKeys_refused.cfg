CONSTANTS
  Hosts <- MCHosts
  Names <- MCNames
  Fold <- MCFold
  SuiteLists <- MCSuiteLists
  BadSuites <- MCBadSuites
  AesIsFast = TRUE
  AlpnLists <- MCAlpnListsHalfway
  TooLong = {"oversized"}
  Slots = 3
  MaxNamed = 2
  OutOfMemory = FALSE
SPECIFICATION Spec
INVARIANTS ServesAsAsked
