CONSTANTS
  Amounts <- SomeAmounts
  CouponDiscount = 20
  InitialPoints = 25
  MaxPayments = 3
SPECIFICATION Spec
INVARIANTS TypeOK Conservation PointsAccounted
PROPERTIES LedgerSpec
CHECK_DEADLOCK FALSE
