CONSTANTS
  Goroutines = {w1, w2, w3}
  MaxTicks = 3
  Buffer = 1
  Requests = {r1, r2}
SPECIFICATION SessionsSpec
INVARIANTS SendsGreeting
CHECK_DEADLOCK FALSE
