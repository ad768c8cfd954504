CONSTANTS
  Hosts <- MCHosts
  Names <- MCNames
  Fold <- MCFold
  SuiteLists <- MCSuiteLists
  BadSuites <- MCBadSuites
  AesIsFast = TRUE
  AlpnLists <- MCAlpnLists
  TooLong = {"oversized"}
  Slots = 3
  MaxNamed = 2
  OutOfMemory = TRUE
SPECIFICATION Spec
INVARIANTS ServesAsAsked EveryPairAnswers
PROPERTIES AddTakesNothing
