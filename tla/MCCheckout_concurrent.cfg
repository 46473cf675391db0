SPECIFICATION Spec
CONSTANTS
  p1 = p1
  p2 = p2
  u1 = u1
  u2 = u2
  c1 = c1
  w1 = w1
  w2 = w2
  n1 = n1
  n2 = n2
  n3 = n3
  None = None
  Products = {p1}
  Users = {u1, u2}
  Shoppers = {u1, u2}
  Coupons = {c1}
  Workers = {w1, w2}
  OrderNumbers = {n1, n2}
  InitialStock <- OneEach
  InitialPrice <- TenEuros
  InitialItems <- FirstInBothCarts
  InitialCoupon <- CouponOnEveryCart
  InitiallyOpen <- FirstOnSale
  Timed = {c1}
  Percentage <- QuarterOff
  MaxUses <- Once
  MaxQuantity = 1
  Prices = {900}
SYMMETRY Symmetry
INVARIANTS
  StockCoversSales
  IndInv
  UsesCounted
  OrdersAreConfirmed
