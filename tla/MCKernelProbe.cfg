CONSTANTS
  Want <- MCWant
  BufSize = 4
  DepFiles <- MCDepFiles
  BuiltinFiles <- MCBuiltinFiles
SPECIFICATION Spec
INVARIANTS CarryExact AnswerExact
PROPERTIES FalseMeansNoHelp SearchEnds
