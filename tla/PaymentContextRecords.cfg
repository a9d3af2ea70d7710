CONSTANTS
  Orders <- MainOrder
  Amounts <- SomeAmounts
  CouponDiscount = 20
  InitialPoints = 25
  MaxPayments = 3
SPECIFICATION Spec
INVARIANTS RecordsAddUp
CHECK_DEADLOCK FALSE
