CONSTANTS
  Flight = 2
  Tickets = 1
  TableSize = 6
  Wear = 0
  MaxData <- MCTwoEach
  MaxKey = 2
  MayFail = {}
  Habits = {"drains"}
SPECIFICATION Spec
INVARIANTS RxContinues
CHECK_DEADLOCK FALSE
