CONSTANTS
  Orders <- StrategyOrders
  Amounts <- PaymentAmounts
  CouponDiscount = 20
  InitialPoints = 25
  MaxPayments = 3
  PricesAsked = {100, 200, 1000}
  CouponCut = 200
  PointsAtFirst = 100
  MaxPaid = 3
  Values = {1, 2, 3}
  MaxSize = 5
  None = None
  Colors = {red, green}
  Radii = {2, 10}
  MaxCircles = 5
  UserKeys = {k1, k2}
  DBNames = {db1, db2, db3}
  NoDB = NoDB
  NumberOfShards = 3
  NoTable = NoTable
  MaxShardRuns = 2
  Calls = 3
  InDirectory <- ThirdsHaveDirectory
  MaxGenerations = 2
  Visits = {v1, v2, v3}
  DexCodes = {d1, d2}
  NoDexCode = NoDexCode
  Clients = {c1, c2, c3}
  Tickets = {t1, t2, t3}
  TicketIDs = {i1, i2}
  NoTicket = NoTicket
  NoID = NoID
  Bettors = {b1, b2}
  LotteryTypes = {l1, l2}
  MaxBets = 2
  MaxDraws = 1
  MaxSeconds = 1
  Users = {u1, u2, u3}
  MaxBreaks = 2
SPECIFICATION ProgramsSpec
INVARIANTS ProgramsTypeOK PaymentsRight HeapOrder ObjectsRight ShardsRight CompleteUnlessFailed LoginsRight LotteryRight
PROPERTIES QueueSpec NeverUndone
CHECK_DEADLOCK FALSE
