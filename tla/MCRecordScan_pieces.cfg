CONSTANTS
  Bodies = {0, 1, 3}
  MaxRecords = 4
  LongBody = 256
  TableSize = 3
  Streams <- MCStreams
  Pieces = {1, 2, 4, 7, 9}
SPECIFICATION Spec
INVARIANTS TypeOK EndsExact CountExact CountersAgree ScanInv
PROPERTIES FeedReturns ImplementsStream
CHECK_DEADLOCK FALSE
