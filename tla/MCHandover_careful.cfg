CONSTANTS
  Flight = 2
  Tickets = 1
  TableSize = 6
  Wear = 4
  MaxData <- MCServerSends
  MaxKey = 2
  MayFail = {}
  Habits = {"drains", "aligns", "lingers", "reactor"}
SPECIFICATION Spec
INVARIANTS TypeOK TxContinues RxContinues SequenceTrue KeyNotWornOut EndToldFromCut
PROPERTIES ReleaseKeepsSequence ImplementsPipe EveryoneHandsOver EverythingArrives
CHECK_DEADLOCK FALSE
