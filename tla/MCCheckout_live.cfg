SPECIFICATION FairSpec
CONSTANTS
  p1 = p1
  p2 = p2
  u1 = u1
  u2 = u2
  c1 = c1
  w1 = w1
  w2 = w2
  n1 = n1
  n2 = n2
  n3 = n3
  None = None
  Products = {p1, p2}
  Users = {u1, u2}
  Shoppers = {}
  Coupons = {c1}
  Workers = {w1, w2}
  OrderNumbers = {n1, n2}
  InitialStock <- OneEach
  InitialPrice <- TenEuros
  InitialItems <- BothInBothCarts
  InitialCoupon <- CouponOnEveryCart
  InitiallyOpen <- FirstOnSale
  Timed = {}
  Percentage <- QuarterOff
  MaxUses <- Once
  MaxQuantity = 1
  Prices = {}
PROPERTY
  EveryCheckoutEnds
CHECK_DEADLOCK FALSE
