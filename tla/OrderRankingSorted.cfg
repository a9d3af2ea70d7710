CONSTANTS
  Programs <- BothPrograms
  Steps <- OneCommand
  Draws <- DrawnApart
  N = 2
  MaxRetries = 0
  MaxRuns = 1
  MinAmount = 9800
  MaxAmount = 10000
  TopN = 2
  Place <- OneDigit
  NoOrder = NoOrder
  NoAmount = NoAmount
SPECIFICATION Spec
INVARIANTS SortedByAmount
CHECK_DEADLOCK FALSE
