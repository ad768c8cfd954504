CONSTANTS
  Flight = 2
  Tickets = 1
  TableSize = 6
  Wear = 0
  MaxData <- MCTwoEach
  MaxKey = 2
  MayFail = {"fill"}
  Habits = {"drains", "aligns", "lingers", "unchecked"}
SPECIFICATION Spec
INVARIANTS TxContinues
CHECK_DEADLOCK FALSE
