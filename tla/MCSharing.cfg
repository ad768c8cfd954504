CONSTANTS
  RubyX = {r1, r2}
  CppX = {c1, c2}
  XHandles = {xa, xb}
  KHandles = {ka, kb}
  Null = Null
SPECIFICATION Spec
INVARIANTS KeysOutlive OneHandle LateOpensKeepSecrets
CHECK_DEADLOCK FALSE
