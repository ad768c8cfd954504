CONSTANTS
  Flight = 2
  Tickets = 1
  TableSize = 3
  Wear = 0
  MaxData <- MCTwoEach
  MaxKey = 2
  MayFail = {"handshake", "derive", "expand", "fill", "initialized", "ulp", "tx", "rx"}
  Habits = {"lingers", "eager", "ticketturns", "retries", "dies"}
SPECIFICATION Spec
INVARIANTS TxContinues
PROPERTIES ImplementsPipe NobodyHangs
CHECK_DEADLOCK FALSE
