CONSTANTS
  Programs <- BothPrograms
  Steps <- OneCommand
  Draws <- Drawn
  N = 2
  MaxRetries = 0
  MaxRuns = 1
  MinAmount = 9800
  MaxAmount = 10000
  TopN = 2
  Place <- OneDigit
  NoOrder = NoOrder
  NoAmount = NoAmount
  LogLength = 4
  Retries = 1
  SetOrders = 2
  SetRetries = 0
  SetRuns = 2
  Customers = {1015, 1016}
  Products = {107, 108}
  SetDraws <- DrawnUnlike
SPECIFICATION OrdersSpec
INVARIANTS SetsTruthful
CHECK_DEADLOCK FALSE
